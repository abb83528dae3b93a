# libnokogiri in TLA+

libnokogiri reads and, one day, writes packet captures: the pcap format works
for reading, saving is a stub, pcapng is a set of types without operations.
This directory holds TLA+ models of the code under `src/src/libnokogiri`
(paths below are relative to that directory), the TLC configurations that check
them, and TLAPS proofs about them.

## The system

| part | source | state it keeps | operations | what makes it hard |
|---|---|---|---|---|
| `fd_t` | `internal/fd.hh` | descriptor, `eof`, cached `_length`, `_temp`, `_filename` | open, seek/head/tail, read, write, resize, dup, swap, maketemp, destructor | `_length` is asked for once and never again; `eof` is set by two different rules; every move is a swap; a temporary file lives as long as its owner |
| capture construction | `pcap.cc:19-194` | `_file`, `_compression`, `_header`, `_needs_swapping`, `_packets`, `_valid` | the constructor: open, detect compression, inflate, `read_header()`, `ingest_packets()` | files that are cut off, still being written, in another byte order or of another variant; the only end of the loop is the `eof` flag |
| capture in use | `pcap.cc:196-262`, `pcap.hh`, `internal/iterator.hh` | the same, `_packet_cache` of each storage, an iterator's position | `get_packet()` by number, range-for, header setters, editing a packet, `save()` | one descriptor shared by a loop and direct calls; index and variant may be stale |
| moves | `pcap.hh:69-99` | the members of `pcap_t` | move construction, move assignment, swap | which members go and which stay |
| ownership | `internal/fd.hh`, `internal/zlib.hh`, `pcap.cc:19-38` | descriptors and temporary files of the process | construct, inflate, destroy, from several threads | one descriptor is closed twice; descriptors run out; early returns |
| compression detection | `common.cc` | none of its own | `detect_captrue_compression()` | first call that asks for the length |
| gzip streams | `internal/zlib.hh` | `_file`, `_gz_file`; the buffer and the count of `decompress_to()` | `decompress_to()`, destructor | cut-off streams look like short ones; the end of a stream and of a buffer; -1 is both a count and a failure |
| versions | `common.hh:354-412` | two numbers | six comparisons | the order is not what it seems |
| packets | `pcap/packet.hh` | header and bytes | typed access | element index against byte size |
| link types, enum names | `common.hh:27-321`, `internal/defs.hh` | none | lookup in a constant table | width of `link_type_t` |
| pcapng | `pcapng/` | fields | getters | sizes and padding |

How they interact: a client calls `pcap_t`, which calls `fd_t`, which calls the
kernel; the constructor calls the detector and, for a compressed file,
`gzfile_t`, which calls zlib. A loop calls back into `get_packet()` through the
iterator's accessor. There are no threads, locks or callbacks inside the
library; the concurrency it meets is outside: the program that writes the
capture while it is read, and other threads of the process that share its
descriptor table.

What each part must get right is stated by the properties below; the list of
hazards they are for, each at its line, is in `PROJECT.json`.

## Modules

`Fd` - `fd_t` as operators on `[pos, eof, len]`. `len` is `_length`, `-1` until
somebody asks. Every operator takes the length of the file at that moment, so
that the models that use it can let the file change in between. `SeekTo` sets
`eof` by comparing with the *cached* length; `ReadBytes` sets it only when a
read delivers nothing, and never clears it.

`PcapIndex` - the constructor of `pcap_t`. The variable `pc` is the place in
the constructor; each action is the code between two looks at the file:
`Open`, `DetectRead`, `DetectRewind` (`detect_captrue_compression()`),
`Inflate` (`decompress_to()` and `head()`), `ReadMagic`, `ReadVersion`,
`ReadNumber` (`read_header()`), `SkipTimestamp`, `TakePacket`, `Finish`
(`ingest_packets()`), and the ways out: `OpenFails`, `InflateFails`,
`VersionMissing`, `ReadFails`. The other actor is the writer of the file,
`Grow`. A capture (`Captures`) is a record of what can be found in the file and
of what its writer means by it; its contents are the 32- or 16-bit number a
read at each offset would give. `size` is the length of the file the object
reads: the capture, or once inflated its private temporary file, which nobody
else writes. `base` is a history variable: how long the file was when it became
`_file`.

`PacketScan` - what the constructor promises, independent of how it finds out:
an index is built one packet at a time, each where the one before it ended,
only of packets whose length lies inside the file, and the verdict "valid" is
given only when the index covers the file up to a length it had. `PcapIndex`
refers to it as `Scan == INSTANCE PacketScan WITH ...` and `ScanSpec` is the
property that the constructor implements it.

`PcapRead` - a capture in use; extends `PcapIndex`, so that the object it uses
is one the constructor made, valid or not. `get_packet()` is three actions:
`GetPacket`/`Dereference` (bounds and seek), `ReadPacketHeader`,
`ReadPacketBody`, with `PacketMissing` for either read coming up short. The
loop is `BeginLoop`, `Dereference`, `Advance`, `EndLoop`, or with `Retreat` one
that walks back from `end()`; the client may call `get_packet()` between two of
them. `SetVariant` is `header().variant(v)` or `header(h)`, `Edit` a write into a
packet through a reference, which typed access does too, `Save` is `save()`. The
writer may also truncate the file (`Cut`), once, after it was indexed.
`get_packet(packet_count())` is undefined behaviour (`idx <= size`): the model
ends there.

`CaptureFiles` - who owns which descriptor and which temporary file. Threads
construct, hold and destroy captures and share a descriptor table in which
`open()` takes the lowest free number. `cap`, `gz` and `file` are the three
`fd_t` a constructor has; moves are swaps as in `fd_t::swap()`. The destructor
of `gzfile_t` is two actions, `GzClose` and `FdClose`, because both close the
same number. `MakeTemp` takes a name that `random_string()` may return: the
62^16 names are taken to differ, except between threads that draw at the same
time, since the generator is a static object without a lock. `Crash` is the end
of the process and the start of another: descriptors are closed, temporary
files stay.

`PcapMove` - `pcap_t` member by member under moves, swaps and destruction; a
member is modelled by the capture its value comes from. A client may be in a
loop over one of the objects: `BeginLoop` remembers the vector the iterators
point to and the object the accessor captured, `Dereference` reads from what is
that object's file now. The object of the loop is not destroyed meanwhile.

`GzExtract` - `gzfile_t::decompress_to()`, one action for each `gzread()` and
`write()`: whole buffers, then the rest byte by byte. A stream delivers its
bytes and ends, or is broken. The count is kept whole in `count`; what is
returned is cut to the width of the signed integer (`Signed`), which wraps: its
overflow is undefined in C++, and every build on the machines the code supports
wraps it.

`StreamCopy` - what a copy promises without buffer or count: the file always
holds a beginning of the stream, and is called complete only when it holds all
of it. `CopySpec` is the property that `GzExtract` implements it.

`FdFile` - `fd_t` as a client may use it on one file: `readLE()`, `readBE()`,
`writeLE()`, `writeBE()` of every type, seeks, `tail()`, `resize()`, `dup()`,
swaps and `invalidate()`, with two objects that share the kernel's offset but
neither `eof` nor `_length`. A number is the bytes it is written as, in a base
that is 256 in the program; what is read in another type or order than it was
written is computed, not assumed. The disk may be full within a number.

`Version` - the comparisons of `version_t` as operators, checked against the
lexicographic order `Later`.

`MC*` modules give the constants for TLC. `MCValues` puts `FdFile` and `Version`
side by side in one run, versions before the file is touched. The `*Proofs`
modules hold theorems and their proofs, `Arithmetic` the lemmas about numbers
that several of them need. Definitions marked "Mutant:"
are slips a programmer could make; with one in place of the definition it
follows or precedes, the property named for it in `PROJECT.json` fails.

## Runs

| run | constants | shows |
|---|---|---|
| `index_growing` | `GrowingCaptures`, each with and without I/O errors, `FairSpec` | `TypeOK`, `IndexTiles`, `ValidCoversFile`, `EmptyIndexOnlyIfBornEmpty`, `IndexAsWritten`, `HeaderAsWritten`, `AcceptsAtPacketEnd` (for captures without errors), the refinement `ScanSpec`, that the constructor ends (`Constructed`) and that each of its steps brings that nearer (`ConstructAdvances`) |
| `read_packets` | `UsedCaptures`, no errors, no truncation, `FairReadSpec` | `ReadTypeOK`, `UnreadableOnlyIfLast`, `CallsEnd`, and that only a new call puts the end of calls and loop off (`CallsAdvance`) |
| `read_cut` | `UsedCaptures`, errors, truncation | `CacheMatchesIndex`, `ReadsAsWritten`, `LoopVisitsAll`, and the action property `EditsLostOnlyByRereading` |
| `files_shared` | 2 threads, 3 descriptors, 4 temporary names, one crash; constructors interleaved freely, or one at a time | `TypeOK`, `DescriptorsKept` (for the latter), `NoDescriptorLeaks`, `TempsRemoved` |
| `move_members` | 3 objects, 3 captures, a loop over any of them | `TypeOK`, `HeaderStaysWithFile`, `OneOwner`, `LoopStaysInObject`, and the action property `LoopReadsOpen` |
| `gz_extract` | streams of 0 to 9 bytes, sound or broken, a buffer of 3, a count of 8 values, 0 to 20 bytes of room, `FairGzSpec` | `GzTypeOK`, `SuccessIsComplete`, `FailureHasReason`, the refinement `CopySpec`, `ExtractEnds`, `ExtractAdvances` |
| `fd_values` | numbers of 2 and 4 bytes of two values, both orders, signed or not, a disk of 4 bytes, 2 changes; version halves 0, 1, 2, 4, 5, 65535 | `FdTypeOK`, `NumbersSurvive`, the action properties `TailLands` and `EofAtSomeEnd`; `LessIsStrictOrder`, `GreaterMeansLater` |

Five more runs each check one statement that a comment or a test of the
repository makes and the code does not keep; TLC finds each violated
(`PROJECT.json`, "findings"):

| run | the statement | what the code does |
|---|---|---|
| `index_header_only` | the scan goes on "until we reach the end of the file" (`pcap.cc:158`) | a capture of a file header only is invalid |
| `index_swapped` | "swap all the things" (`pcap.cc:69`) | captured lengths are not swapped |
| `files_race` | a valid capture's packets are there (`pcap_test.cc:67`) | another thread's `gzfile_t` may have closed its descriptor |
| `move_index` | the same | a moved capture has not its packets |
| `version_less` | "less than" (`common.hh:400`) | 2.3 is not less than 2.4; 2.0 is less than 1.5 |

Other comments the code does not keep, which are read off it without a run: the
offset of a packet is taken before its header is skipped, not behind it
(`pcap.cc:164-166`); of the 32-bit link type (`pcap/header.hh:82`) 16 bits are
kept; `prefetch` (`pcap.hh:62`) is stored and never looked at; the length in a
storage leaves out the packet header (`pcap/packet.hh:372`); `save()` writes
nothing and returns false; 2.0 is not greater than 1.5 (`common.hh:387`); `option_t::size()` is not the
size an option has in the file (`pcapng/option.hh:94`), which is padded to 32
bits (line 56). The models follow the code in all of these.

### Bounds, and why they are enough

Captures have at most two or three packets with data of a few bytes: the loop
has no state besides the descriptor and the index, so a third packet meets
nothing a second does not. The lengths the writer lets the file have (`stops`)
include every kind of place: empty, inside the file header, its end, inside a
packet header before and after the captured length, inside the data, and the
end of each packet. There is a capture of the standard, the modified and the
swapped layouts, one that is not a pcap file, and compressed ones. `MaxCalls`
bounds the calls of the client besides its loop: with three it can read a
packet, edit it and read it or another one again, and two disturb a loop on
either side. Three
descriptors make `open()` fail at every place it can when both threads inflate,
and two threads are enough for one to be between the two closes of a number the
other is given; `CaptureFilesProofs` covers any number of both. The table in
`MCCaptureFiles` starts at 3 as in a process with its standard streams. The
process dies once: a second crash would leave more names, not other ones. Three
objects let a loop's object be swapped with one that is swapped with a third.
Streams end before, at and after the end of the first, second and third buffer,
and the count of eight values runs over to -1 (seven bytes) and past it. With a
byte of two values a number of two bytes has a lowest and a highest signed
value (-2 and 1), and one of four has all its bytes different places; writes
overlap, leave a hole behind the end (offset 2 of an empty file), or fall on the
full disk. Versions are compared for all pairs of halves around each other;
what `LessIsStrictOrder` says of them is proved for all numbers.

Deadlock is checked for `CaptureFiles`, `PcapMove`, `FdFile` and `Version`. The
constructor and `decompress_to()` return and a client may stop calling, so it is
not for `PcapIndex`, `GzExtract` and `PcapRead`.

### Fairness

`FairSpec` is weak fairness of the constructor as a whole: it is straight-line
code in one thread, and regular files always answer. Nothing is assumed of the
writer, so `Constructed` holds also against one that never stops appending;
that its appends are finitely many is a bound (`limit`), but the cached length
is what ends the scan, not the bound. `FairReadSpec` adds that a call once made
goes on, and that a client that began a loop goes on with it; no call is ever
forced. `FairGzSpec` is weak fairness of `decompress_to()`, one thread that
waits for nothing but the disk.

## Proofs

All theorems hold for every value of the constants that meets
`CapturesAssumption` (a capture's words are natural numbers, its lengths lie
within its limit), `ClientAssumption` (`MaxCalls` is any natural number),
`HalvesAssumption`, `FilesAssumption` (names of captures and of temporary files
differ), `MoveAssumption`, `ExtractAssumption` (a buffer has a byte, a count a
value) or `FdFileAssumption`.

`PcapIndexProofs`, of the object: `TypeCorrect`, `TilingCorrect`,
`CoverageCorrect`, `EmptyIndexCorrect` and `Refinement`. None of the last four is
inductive. The invariant `IInv` adds to them where the descriptor is: at the head of the loop
it is at `End` (the first byte neither the header nor a packet covers), when
the length is about to be read eight bytes further; `eof` at the head of the
loop means that the position is the cached length, or that nothing has been
read since the file was rewound empty; and the cached length, once there, lies
between the length the file had when it became `_file` and the one it has now.
The last is why a stale length does no harm: whatever else the file got
meanwhile, the place where the scan stopped was its end at some moment.
`Refinement` maps every action to a step of `PacketScan` or to none.

`PcapIndexProofs`, of what the writer of the capture meant: `HeaderCorrect`,
`WrittenCorrect` and `AcceptanceCorrect`, for captures with any number of
packets. Their hypotheses are those of the properties: `HeaderLaid` (the file
header is laid out as the writer of either byte order would do it, the link type
fits 16 bits) and `WellFormed` (the writer has this machine's byte order, every
captured length is where its packet has it, and nothing follows the last
packet); both are met by captures of the runs.
The invariant is `WInv`, on top of `IInv`. A magic that names a variant is the
capture's own (`MagicKnown`); the fields read so far are the writer's
(`HeaderSoFar`), because swapping twice gives a number back (`SwapsTwice`, from the
digits to the base 256, `WordsExchanged`, and `FieldDecoded`, field by field);
the k-th index entry is the k-th packet of the writer, at the place `EndOf` gives
(`PacketsAsWritten`). Acceptance needs two more. From the first step to a
next packet on the length has been asked for, and `eof` says exactly whether
this is the place (`LengthAsked`); and a scan that goes on has not passed a packet
end equal to the cached length (`NoEndPassed`), so one that fails never met it:
the ends of packets rise strictly (`EndOfFacts`), and a file in which a read
falls short does not reach the end of that packet (`TooShort`).

`PcapIndexProofs`, of its end: `AdvanceCorrect`. `StepsLeft` is two for each byte
beyond the indexed packets that the file has or may yet have, and what it takes
to come to the scan; every step of the constructor lowers it (a packet is
stepped over by its header at least, `AheadShrinks`) and the writer never raises
it. This is the safety half of `Constructed`; the other is fairness.

`PcapReadProofs`: `ReadTypeCorrect`, `CacheCorrect`, `UnreadableCorrect`,
`LoopCorrect`, `EditsCorrect`, `CallsCorrect`, `UseRefines`, `ReadsCorrect`, all from
the invariant `RInv`. It keeps `IInv` as
long as the file is not cut - a call can cache the length as the constructor
would have - and of it only the tiling afterwards; it says what `get_packet()`
knows at each step (after the seek the descriptor is at the packet's offset,
after the header the length read is the one in the index and the descriptor one
header further), and that a loop has asked for the packets up to its iterator (`LoopInOrder`),
counted from the end if it walks back.
`UnreadableCorrect` rests on the lemma `MissingIsLast`: a packet in the index
other than the last ends where the next one's length could be read, and the last
one of a valid object ends within the file. `CallsCorrect` is about the sum of what
is left of the call under way and of the loop (`CallsLeft`): a packet the loop has
yet to come to counts four, for the seek, the two reads and the move of the
iterator, so that a dereference, which begins a call, still lowers
it (`LoopStepShrinks`). `UseRefines` says that `PacketScan` goes on to describe
the object in use: of the client's steps and of a truncation it sees nothing, the
writer's are its own as long as the file is not cut. `ReadsCorrect` joins both
ends: a packet handed out agrees with the index (`CacheMatchesIndex`), the index with
what the writer wrote (`PacketsAsWritten`), and `Meant` is the part of `WInv` that
stays once the constructor has returned; the part about the cached length does
not, since a later call may be the first to ask for it.

`VersionProofs`: `LessOrders`, `GreaterSound`; pure arithmetic on the two
halves.

`CaptureFilesProofs`: `FilesTypeCorrect`, `LeaksCorrect`, `TempsCorrect`,
`KeptCorrect`, from `FInv`. `NoDescriptorLeaks` needs to know which of the three
`fd_t` of a constructor is in use at each place (`Places`): a swap must find
nothing in the other object that it would lose. `DescriptorsKept` and the polite
half of `TempsRemoved` need that only one constructor runs (`OneAtATime`), so
that the number a `gzfile_t` closes for the second time is still free
(`ClosedOnce`) and nobody has drawn the name another draws (`DrawnAlone`). That
`open()` finds a lowest free number rests on the well-ordering of the naturals.

`PcapMoveProofs`: `MoveTypeCorrect`, `HeaderCorrect`, `OwnerCorrect`,
`LoopCorrect`, `LoopReadsCorrect`, from `MInv`, which adds that an object's index
is of its file until the object takes part in a move (`IndexUntilMoved`).

`GzExtractProofs`: `GzTypeCorrect`, `SuccessCorrect`, `FailureCorrect`,
`CopyRefined`, `AdvanceCorrect`, from `GzInv`: the file holds a beginning of the stream, and at
each place of `decompress_to()` the count, the bytes taken and the buffer follow
on it (`AtRead`, `AtWrite`, `AtRest`). `CopyRefined` maps a write to a step of
`StreamCopy` that extends the copy, a return to one that gives the verdict.
`AdvanceCorrect` counts what is left of stream and buffer, as `StepsLeft` does for
the constructor.

`FdFileProofs`: `TailCorrect`, `EofCorrect`, from `LengthsKnown`: every cached
length is one the file has had, and the present one unless the file changed
since it was asked for. `FdTypeCorrect` and `SurvivalCorrect`, from
`ContentsKnown`: every place of the file holds a byte, and where a number has been
written and not been disturbed since the file holds its encoding (`BytesKept`).
What is read there is then the number: the bytes of a value below the limit are
its digits (`NumberOfDigits`), reading them gives it back, a signed value goes to
its unsigned type and back unharmed (`ConvertedUnsigned`, `UnsignedConverted`), and the other
order is the mirror image (`MirrorTwice`, `DecodedEncoded`). The width and the
base of a byte are any numbers here, 1 to 8 and 256 in the program.

`Arithmetic`: what these proofs need of the natural numbers. The induction
theorems of the library take an operator as a parameter, which the provers here
cannot instantiate; `Upwards` and `UpTo` state induction for a *set* of numbers
instead, from the least counterexample (`LeastNumber`), which well-foundedness of
`<` gives. With them it is shown that the functions the specifications define by
recursion exist and what they satisfy (`RunningSumExists`, `RunningSumUnique`,
`RunningSumRises`, `PowersExist`, `PowersAgree`, `PowerFunction`) and that a
number is its digits (`DivModUnique`, `TwoDigits`, `ItsDigits`, `DigitStep`).

Every invariant and action property that a passing run checks is thereby proved.
Only model-checked are the liveness properties `Constructed`, `CallsEnd` and
`ExtractEnds`: TLAPS has no rules for fairness here. `ConstructAdvances`,
`CallsAdvance` and `ExtractAdvances` are what they rest on besides.

## What is left out

- Data of packets, time-stamps and the other fields of packet headers: only
  lengths and offsets are looked at by the code.
- Files that are not regular (a pipe makes every seek fail), and Windows.
- Failing `fstat()` and `lseek()` on an open regular file.
- Running out of memory: a huge captured length makes `get_packet()` allocate.
- Contents that change in place; the writer appends or truncates.
- `gzfile_t`'s own `read`, `write`, `seek` and `flush`, which nothing calls and
  which pass their arguments to zlib.
- That the temporary file of a compressed capture is private is assumed in
  `PcapIndex`; `CaptureFiles` shows when it holds (`TempsRemoved`: unless
  constructors overlap), and `files_race` what else overlapping ones can do.
- What is written behind the data of a packet by `packet_t::index()`, whose check
  lets an element index up to the size in bytes pass: it is undefined, and no
  text says what an index may be. In `PcapRead` typed access is an edit.
- `remove_packet()`, whose body is empty.
- pcapng and the names of enumerators: constants, constructors and getters; no
  operation changes state and nothing steps over blocks or options.

## Plan

Done: captures constructed and in use, ownership, moves with a loop under way,
inflation, `fd_t` on one file, versions; all of them with theorems. What could
follow when the code grows:

1. `save()` and writing packets, once the library has them: `FdFile` has the
   writes they will be made of.
2. pcapng, once sections are read: stepping over options by `size()` is the
   first thing to check.
3. The composition of `GzExtract` with `PcapIndex`, where `Inflate` is one step
   that leaves a beginning of the stream; `CopyRefined` is what justifies it.
