# A TLA+ model of tarzan

tarzan wraps a tar stream into a `.tar.zst` file that any zstd and tar can
still decode and that, read by tarzan, gives random access to its members. The
modules in this directory model the program's core: how the archive is written,
how it is read back from storage that may have damaged it, how the finished
file is published on disk, how members are restored onto a file system, and
what the table of contents and a listing say of them.
They are checked with TLC on small instances. What is checked, but for liveness,
is also proved with TLAPS for all values of the constants, and so are the
refinements of the two abstract specifications; of extraction, which keeps some
of its promises for most archives only, under conditions that say for which.

Paths such as `wrap.rs:525` are relative to `src/src/`.

## The system

| Component | State | Operations | Talks to |
|---|---|---|---|
| Streaming writer (`wrap.rs`, `io.rs`) | window, parse position, open group, TOC entries, `pos`, hash | `wrap_with` and its helpers | the tar parser, the zstd encoder, input and output streams, `on_member` |
| Tar parsing and metadata (`wrap.rs`) | PAX records, global PAX records | `parse_next`, `member_metadata_from_entry` | tar-core (external) |
| On-disk format (`format/`) | none; it *is* the persistent state: identity frame, data frames, TOC frame, footer | encode, decode | writer and reader |
| Archive reader (`reader.rs`) | the TOC, the open source | `from_seekable`, `extract_member[_at]`, `verify_all`, `verify_member`, `verify_archive_hash` | the storage, the zstd decoder |
| Output file of `wrap` (`cmd_wrap.rs`) | a temporary file, the output path | `wrap_to_output_file`, `create_temp_output_file`, `sync_directory` | the file system, other runs |
| Extraction (`extract.rs`) | report, names written, deferred links and times, the destination | `extract_to_dir`, `extract_one` | the reader, the file system |
| Commands (`cmd_*.rs`, `main.rs`) | none | argument parsing, presentation, exit codes | all of the above |
| Path filter (`filter.rs`) | compiled patterns | `matches` | glob (external) |

The program is single-threaded; its concurrency is with other processes on the
same output path, and with a machine that stops at any moment. What makes it
hard:

- *Two coordinate systems.* Offsets in the raw tar stream and in the compressed
  output are related only by running sums (`pos`, `next_chunk_start`,
  `prev_indexed_entry_end`, `frame_offset`, `chunk_tar_start`), kept by the
  writer and computed again, differently, by the reader.
- *A sliding window.* Raw bytes must be hashed and compressed before they are
  drained, and the parser has captured an unpredictable part of them already.
- *Grouping.* Small members share a frame; a large one, a group that is exactly
  full, an extension header longer than a chunk and an empty region are all
  boundary cases of the same sums.
- *Partial damage.* Parts of an archive may be wrong while others are right, and
  not every part has a checksum.
- *Words and their scope.* A PAX record may stand in a global header or in a
  member's own, be overridden, taken back, or be unreadable, and must never
  reach a member it does not hold for.
- *Durability.* What a file system has made durable when power is lost is not
  what it showed before.
- *A file system with its own ideas.* Names fold together, links lead elsewhere,
  inode numbers are used again, and hard links are made out of archive order.
  Setting one attribute may forbid or undo another.

What makes each component correct:

- writer: the frames decode to the input; the TOC says where everything is;
  reports and digests are right; a footer is only ever written over a complete
  archive; memory is bounded;
- reader: what it delivers is the member's content or an error; damage stays
  where it is; a verification that passes means something;
- output file: the output path never shows a partial archive, and a confirmed
  one survives;
- extraction: every member is accounted for, what is counted is there with every
  attribute that is not reported lost, and what is declined is not;
- metadata: what the TOC says of a member is the last word of the records that
  hold for it, exact to the digit; a listing shows the right members and dates.

## Modules

| Module | Models | Extends / instantiates |
|---|---|---|
| `LosslessStream` | abstract: a stream that is encoded front to back and sealed when complete | |
| `Wrap` | `wrap_with` | refines `LosslessStream` |
| `WrapProofs` | theorems about the types of `Wrap`, its offsets and its output, and the refinement | `Wrap` |
| `WrapMemberProofs` | the invariant of the TOC, lemmas about chunks and frames | `WrapProofs` |
| `WrapTocProofs` | theorems about the TOC, the reports and the footer | `WrapMemberProofs` |
| `Reader` | `TarzanReader` on an archive of `Wrap` with damage | `Wrap` |
| `ReaderProofs` | theorems about opening an archive and quick verification | `Reader`, `WrapTocProofs` |
| `ReaderExtractProofs` | theorems about extraction, verification and `info` | `ReaderProofs` |
| `AtomicPublish` | abstract: what is found at the output path | |
| `OutputFile` | `wrap_to_output_file` in several processes | refines `AtomicPublish` |
| `OutputFileProofs` | theorems about the output file and the refinement | `OutputFile` |
| `Extract` | `extract_to_dir` | |
| `ExtractProofs` | theorems about its types, the report, collisions, losses, content, attributes and leftovers | `Extract` |
| `Metadata` | PAX records and the TOC entry, `list -v`, the path filter | |
| `MetadataProofs` | theorems about entries, timestamps, dates and the listing | `Metadata` |
| `MCWrap`, `MCReader`, `MCOutputFile`, `MCExtract`, `MCMetadata` | values of the constants for TLC | the above |

Definitions whose comment begins with "Variant" are not part of the model.
Each is a mistake that could be made at that place of the code;
`PROJECT.json` ("mutants") says which definition it replaces and which property
then fails, which shows that the property depends on that code.

### Wrap

A byte of the tar stream is its offset. The window is `winBase .. winEnd - 1`,
a frame is an interval of offsets with the place and size it has in the output,
and a digest is the set of the offsets that were hashed, so hashing one byte too
many, too few, or of a neighbour shows. Compressed sizes are nondeterministic.

The control state `pc` is `parse` (top of the loop), `stream` (inside a large
member), `drain` (after the end marker was seen), `trailer`, `toc`, and the two
ways to return. A step is one turn of the parser loop with everything it calls,
except that a large member takes one step per read and per full chunk, since its
reads may be short. So `JoinGroup`, `JoinAndFlush` and `FlushThenJoin` are the
three courses of `add_to_group`, each with the capture and the hashing that
precede it and with the `flush_group` it contains.

The parser is external. What is used of it: it consumes a global header
(`GlobalSizes`) or yields a member with some extension headers before its header
and possibly a sparse map after it (`Headers`), it needs exactly the bytes it
consumes, and it reports the end having seen one or two blocks. A refusal of a
header by the parser, a contradiction of sizes, an overflow and an early end of
the stream inside a header or a small member are `EntryRefused`. `try_slice` is
a guard of `CompressFrame`: a range outside the window would leave `wrap_with`
without a step, which TLC reports as a deadlock, and `WindowHoldsPending`
(proved) excludes it.

### Reader

`ArchiveSpec` first runs the writer. When an archive is complete, `Damage`
chooses what the storage has done to it: up to `MaxBadFrames` data frames cannot
be decoded, and any one field of the identity frame, the TOC frame or the footer
may be wrong, or the file has bytes after its end (`DamageKinds`). Which check
notices which field is `IdentityReads`, `FooterReads` and `TocReads`, in the
order of `from_seekable`; a damaged length of the identity frame may be accepted.
Damage to the TOC's payload may also go through the decoder as a different text
(its zstd frame has no checksum), in which one value of one entry is another
(`Altered`): any number of the member or of one of its chunks, off by one of
`Slips`, up or down; a `frame_offset` that is lost and so 0; a `content_sha256`
that is lost, or that is another; a type that is another. Nothing is assumed to
notice this. A member without a digest, or of another type, is passed over by
`verify`, as in the code, and `VerifyOkMeansIntact` claims nothing of it. A chunk
may then point into the middle of a frame or over several (`FrameRuns`). The
numbers are u64: where the reader adds or subtracts unchecked and the result
leaves `0 .. Word - 1`, a build with overflow checks panics (`ExtractPanics`,
`ChunkPanics`, `VerifyPanics`, `InfoPanics`) and a release build goes on modulo
`Word`; both are steps. The operations then are those of `TarzanReader`; the loop
of `extract_by_index` takes one step per chunk. What it writes is a sequence of
offsets of the tar stream, so `ExtractExact` compares with the offsets the
writer's history variables `dataStart` and `entryEnd` give. Nothing else of the
writer's state is read after `Damage` but the frames and the footer.

`Info` is the command of that name: frames counted by their compressed offset,
their sizes and the tar bytes of all chunks. `InfoAddsUp` compares the three
numbers with the writer's own frames.

### OutputFile and AtomicPublish

Each run of `tarzan wrap -f FILE` is a process; `pc[w]` is the call it is about
to make. Directory changes take effect at once and become durable in order but
at any later time, so `durableDirs` is the set of directories a loss of power
may leave; `durable` is the same for the pieces of each file. `PowerLoss`
chooses among them and ends all runs. A run can be killed or have any call fail.
All runs have the same process id in the checked instance, because in containers
that share a volume they often do, so temporary names do collide.

When a step fails the run removes its temporary file; `RemoveTemp` is the removal
that succeeds and `RemoveFails` the one that does not, which the code ignores. The
run then ends as `littered`, and its file stays.

`unsynced` is how a run ends that has not confirmed the durability of the name:
with `--no-sync`, or after `sync_directory` has warned.

The refinement shows the path (`Visible`), its history and the oldest entry of
the history that can still come back (`Safe`) to behave as `AtomicPublish` says:
a step publishes one whole archive that was never there before, confirms, or is
a loss of power that goes back at most to what was confirmed.

### Extract

The destination is a tree of two levels (`Parent`) whose entries lead to inodes,
so that links, folded names and reused inode numbers mean what they mean on
disk. `fs` is the whole of it: `fs.dir` leads from entries to inodes, `fs.node`
says what an inode is, its content, mode, time and attributes. It may hold
something before extraction begins (`scenario.prior`), directories and files may
be read-only, and the host may lack attributes, modes, times or links
(`scenario.host`). The user is not root. `Dest` maps each archive path to its
entry, or says that it is stripped away (`Skipped`) or refused (`Refused`): it
stands for `--strip-components`, path normalisation and the file system's folding.
`Excluded` are the paths that the include and exclude filters leave out. The two
differ for hard links: a target that is stripped away is declined at once, one
that is excluded has a place (`Dest`), and the link waits for the second pass and
is made to whatever is there. The content, the time and the
attributes of a node are named by the index of the member they are of.

The three loops of `extract_to_dir` are the phases `members`, `links` and
`times`; one member, one link or one directory is one step. Within a member's
step the order of the code is kept: parents (`ParentMade`), content, attributes,
mode, time; attributes fail on what has become read-only, a change of a
directory sets its time (`Touch`), and the times of directories are put off
(`DeferTimes`, `StampDir`).

The instance leaves out archives in which an entry is named twice and one of the
two is a link (`Tame`): what goes wrong there is what `extract_self_link`,
`extract_repeated` and `extract_stale_inode` show. It also leaves out the archives
for which `DeclinedLeavesNothing` does not hold (`LocksPartial`): a file in `d`,
then `d` as a read-only directory, then the file again with bad data. It truncates
the file, and the removal that should follow fails without a word;
`extract_locks_partial` shows that. A path that leads
below a symbolic link is not modelled.

### Metadata

`stream` is what the parser yields: global headers and members, each with its
records. A value says what its text can be read as (a number, a name that is
UTF-8 or not, a timestamp given by its sign, whole number and digits, nothing of
these), an Option is a set of at most one element. `ParseMember` is
`member_metadata_from_entry`: the records in force (`EffectivePax`), the refusal
of contradicting sizes (`SizesDisagree`) and the entry (`MemberMetadata`).
`Nanos` and `ParsePaxTimestamp` are the code's arithmetic. `LastWordCounts` says
of every entry of the TOC, field by field, what the last word (`LastWord`) in the
records that hold for its header was. It looks at the headers as they stand in
the stream, and at the weights of the digits of a timestamp (`Denotes`); the
model computes the first by updating a map, the second digit by digit.

`List` is a turn of the loop of `tarzan list -v PATTERN...`. A path is the
sequence of what stands between its slashes, so `./a/` is `<<".", "a", "">>` and
trimming works on that. The loops of `format_mtime` over years and months are
one operator (`Walk`), which takes away the length of the year or month it is at
until the rest lies in it; a year takes at least 365 days, so it turns
`days \div 365` times. The year is a u32: when it is counted to `YearSpan`, a
build with overflow checks panics (`ListPanics`), and another goes on from year 0
(`DaysInYear`, `YearOf`). `ListingTrue` compares with the closed formula of the
Gregorian calendar, counted in days before a date, and the filter with what a
path names. That comparison is made for spellings with `.` before the names and
slashes behind them (`WellSpelt`): these are what trimming takes off, and the
filter compares `a/./b` and `a/b` as they stand. The offset of the place from
UTC is one of the scenario's. For times beyond the years that a u32 can hold
`ListingTrue` does not say what is shown, only that no other time makes it panic;
the code promises less ("valid for dates 1970-2106", `cmd_list.rs:106`).

Bounds of this module: i64 is `-MaxI64 - 1 .. MaxI64`, a second has
`10 ^ FracDigits` parts, and a day `SecsPerMin * MinsPerHour * HoursPerDay` seconds,
so that a century fits the integers of TLC. `YearSpan` is 2103 for the code's
2^32, so that the year does wrap. A pattern that is only `.` or `./` is left
out: trimmed, `./` is the empty pattern, which chooses the root entry and
nothing below it. Texts with two signs (`--5`), which the parser of integers
lets through, are left out too.

## Runs

Every run stays within the bounds named in its MC module. All runs that must
pass check every invariant and temporal property on the whole state space.

| Run | Shows | States |
|---|---|---|
| `wrap` | the writer's invariants, that reported entries are final, termination, and that it implements `LosslessStream` | 246,402 |
| `reader` | exactness, isolation of damage, the meaning of both verifications, that intact archives open, the sums of `info` | 951,409 |
| `output_file` | atomicity, durability, ownership and cleanup of the output file | 330,068 |
| `extract` | accounting, content, attributes, nothing left behind, no false loss or collision | 399,164 |
| `metadata` | the scope of PAX records, exact times, the listing's choice and dates | 170,254 |
| `wrap_tail` | *violated:* "peak memory is bounded by `opts.chunk_size`" | |
| `reader_cap` | *violated:* every archive written opens | |
| `reader_toc` | *violated:* damage to the TOC frame is noticed on open | |
| `extract_self_link` | *violated:* content that was restored survives | |
| `extract_repeated` | *violated:* the later entry of a path wins | |
| `extract_stale_inode` | *violated:* a name collision is one with a member that was written there | |
| `extract_locks_partial` | *violated:* nothing is left at a declined member's path | |

Why the bounds are enough:

- `wrap`: blocks of 2 bytes make padding possible, a chunk of 8 bytes is a few
  small members or less than one large one. The streams of 14 and 25 bytes hold
  up to six members; the headers include empty data, padding, extension headers,
  sparse maps, regions below, at and above one and two chunks, and a member
  whose header alone exceeds a chunk after globals. Reads return 1 to 3 bytes.
- `reader`: with a chunk of 6 bytes an archive of 16 has shared frames with
  several members, members of several chunks and content that begins in the
  second chunk. One damaged frame at a time and one kind of other damage show
  isolation; two damaged frames add no new case, since no step looks at two.
  Every field of the three other frames is damaged alone (`MCMetaDamages`). A
  damaged number is one more, one less or three less than it was; the last makes
  an offset of this size underflow, point before its frame, or lead to a neighbour.
  A `Word` of 100 is above all sums of the writer's numbers, and a number that went
  below 0 is far above them.
- `output_file`: one run publishes, one is in its way and one is unsynced; two
  temporary names can be used up by runs that were killed; one loss of power at
  any moment. A second one acts on a state the first could have left, in which
  the runs that are still idle start.
- `extract`: three members are enough for a member, one that interferes and one
  that both concern. There are three families of scenarios: names (folded,
  stripped, refused, linked) in an empty directory, attributes in a tree on three
  kinds of host, and two members into a destination that holds a directory, a
  read-only one, or a file in the way. Four inodes let a number be used again.
- `metadata`: a global header, another or a member, and a last member with two
  records are enough for a word to be said, overridden, taken back and to leak.
  Dates are every day of eight years about a leap year and the turns of two
  centuries, one of which has a leap day and one has not, and the years at the end
  of those that can be counted.
- `wrap_tail`: a stream of 60 bytes with small members only and no global headers,
  so that what fills the window is what stands behind the end marker.

The seven violated statements are described under
"findings" in `PROJECT.json` with the text they contradict. Four are about
extraction:

- `tar cf x f f` stores the second `f` as a hard link to `f`. Extraction removes
  `f` before it links `f` to it, fails, and declines the link only.
- For a file `p`, a hard link `q` to `p` and another file `q`, in this order,
  `q` ends as the link, since links are made after all files.
- For a file `p`, a symbolic link `p` and a directory `q`, twice, `q` may get the
  inode number the file had, under which `by_inode` still has `p`: the second
  entry of `q` is declined as folded onto `p`.
- For a file in `d`, `d` as a read-only directory, and the file again with a bad
  chunk, the file is truncated, cannot be removed, and stays, though declined.

Two more statements of the repository's documents say more than the code does and
have no run of their own. A full verify does not decompress every frame
(`src/README.md:557`): members that are not files or have no digest, also when
only a damaged TOC says so, are passed over, no member has the trailing frame, and
an extraction stops when it has the content. And a damaged length of the identity frame may be accepted (`reader.rs:541`),
though `src/README.md:688` says that it is not; a quick verify notices it.

## Fairness

- `Wrap`: `WF(Progress)`. `wrap_with` is a loop without waiting: while it can
  take a step it does. Errors of the streams (`IoFails`) are not in it; an input
  that never answers is outside the model.
- `Reader`: `WF(Stepping)`: an operation that was begun runs on. Calls of the
  API and damage are not fair.
- `OutputFile`: `WF(Step(w))` for each run: a process that was started is
  scheduled until it ends. Starts, failures, kills and losses of power are not.
- `Extract`: `WF(Step)`, as for `Wrap`.
- `Metadata` states no fairness; it is checked for safety only.

Deadlock is checked in all runs but `output_file`, where the runs may all have
ended.

## Proofs

Each theorem holds for every value of the constants that satisfies the
assumptions at the head of the module it is about. They are what the code needs
to make sense (sizes are numbers, a chunk and a frame are not empty), and these
three, which the code has as well:

- `ScratchAssumption`: the buffer of one read holds a block (`Block <= Scratch`;
  512 bytes and 64 KiB). It is there for `StreamingTheorem`: the padding of the
  data is captured at once, however long a read may be.
- `DestAssumption`: "filtered out" and "refused" are not entries of the
  destination, nor is "leads nowhere", and no path of an archive is the mark of an
  inode that was not recorded: they are values of other types in the code.
- `FilesAssumption`, `NamesAssumption` of `OutputFile`: a temporary name is not
  the output path, and a new inode is not the one that was there before.

No theorem bounds what the TLC instances bound: streams, archives, chunks and
members have any length, damage is any set of kinds in any number of frames, and
there are any number of publishing runs and losses of power.

### Writer

- `TypeCorrect`. A size is a difference of two offsets, so typing already needs
  their order. The inductive invariant is `TypeInv == TypeOK /\ Layout`;
  `Layout` says, per control state, how `winBase`, `nextChunkStart`,
  `groupSize`, `prevEnd`, `parseStart`, `winEnd`, `dataLeft` and `inputLen` lie
  to each other. Nearly every conjunct is used by another: for example that
  `winEnd = parseStart` whenever the parser runs is needed to see that a large
  member's data begins where the window ends. `WindowTheorem` follows.
- `FramesTileTarTheorem`, `PosTheorem`, `FramesBoundedTheorem`: the three
  properties are inductive together on top of `TypeInv` (`OutputInv`). Every
  action is first shown to be a `QuietStep` or a `FrameStep` (`OutputSteps`), so
  that the argument about the frames is made once (`OneMoreFrame`).
- `LosslessTheorem`: `Spec => Lossless!LosslessSpec`, from `WriterInv`, which
  adds that the footer is there exactly when `wrap_with` has returned `Ok`.
- `ChunksTheorem`, `DigestTheorem`, `ReportsTheorem`, `FooterTheorem`,
  `StreamingTheorem` follow from `TocInv`, which adds `MemberInv`. That the
  chunks of a reported member tile its region is not inductive: it depends on
  what the open group believes. `MemberInv` therefore says of every member in
  the group where its slice will begin in the frame that is yet to be written
  (`Waits`), of all members that their regions follow each other (`Regions`) and
  their chunks begin with the region (`Chained`), and of a large member that is
  being streamed how far it has been read, hashed and cut (`StreamInv`). That a
  chunk names *one* frame, so that a lookup by offset and size finds the right
  one, needs that frames are not empty and follow each other in the file
  (`InOrder`); that chunks written earlier still lead to the same bytes after a
  frame was appended is `LeadsStays` and `ChainStays`.
- `ReportedTheorem`, an action property: no step changes an entry that has been
  handed to `on_member`.

### Reader

`ArchiveInv` is `TocInv` of the writer (its actions are steps of `ArchiveSpec`
too), `Placed` (where a member's header and content lie in its region), the
reader's types and `Session`, what is known at each point of a session: that an
archive which has opened was noticed to be wrong by none of the checks of
`from_seekable`, and which TOC may have come out of the decoder.

- `ReaderTypeTheorem`: among other things that `data_offset`
  (`member.tar_offset - chunk_tar_start + 512`) is no underflow and no sum an
  overflow as long as the TOC is the writer's, whatever data frames are damaged.
  With a damaged TOC they may be, and the theorem does not say otherwise: `skip`
  is then what is left modulo `Word`, or the operation has panicked.
- `OpenTheorem`: `validate_chunk_layout` accepts every layout the writer makes
  (`LayoutAccepted`): chunks that share a frame have equal ranges, all others
  are apart.
- `QuickTheorem`.
- `ExtractTheorem`, `DamageTheorem`: the reader adds up the sizes of all earlier
  chunks (`ChunkTarStart`), the writer keeps running offsets; `ChunkStart` shows,
  from `ChunksFillRegion`, that they agree. The invariant of the loop of
  `extract_by_index` is `LoopInv`; over the writer's TOC it includes `OnCourse`:
  what has been copied is the beginning of the content, and the place where
  copying goes on is the chunk at hand plus `skip`.
- `VerifyTheorem`: here the TOC may be damaged, and the loop may read anywhere. It
  is about the members that the TOC as loaded calls files and has digests for.
  What `LoopInv` says over any TOC is how many bytes have been copied, and that
  all of them are from frames that are intact (`Clear`). A digest
  that matches then tells that these are the bytes of the member
  (`DigestTells`), so its size is right and no damaged frame has one of them.
  `VerifyInv` says of the loop over members that all so far without a mismatch
  are intact.
- `InfoTheorem`: from `TrailInv`, which says that the last frame is no member's
  and all others hold the bytes of one; so the frames found by collapsing chunks
  are the writer's data frames (`ChunkFrames`), and each is counted once.

Sums are recursive functions (`SumOf`) and not folds, because what a fold
computes can only be proved by an induction theorem with an operator for
parameter. About a function, a statement for all numbers is proved from its
smallest counterexample: `WellFoundedInduction` gives each set of naturals a
least element.

### Output file

`FileInv` holds for any number of runs on equal or different temporary names:

- `TempTheorem`, `LeftoverTheorem`: `NoneForgotten` says whose file each
  temporary name leads to. A run whose removal failed still has its file, under
  the name it had last (`Keeping`); no other way of returning leaves one. A loss
  of power brings back any earlier state of a directory, after which it says
  nothing; `TempIsOwn` survives because a loss of power also ends all runs.
- `NameTheorem`, `CompleteTheorem`: `BytesFirst`, the order of the write, the
  fsync and the rename, in what is durable.
- `ReturnedTheorem`: `PastTrue` and `ReturnedStays`. No directory that may come
  back is older than the one that was confirmed.
- `PublishTheorem`: `Spec => PublishesAtomically`, the refinement of
  `AtomicPublish`, step by step: all steps but three are stutters (`Quiet`), and
  the rename publishes (`RenamePublishes`), the fsync of the directory confirms
  (`SyncConfirms`) and a loss of power goes back no further than to what was
  confirmed (`PowerLossLoses`). `SafeUnique` is what gives the `CHOOSE` of the
  mapping its value.

### Extraction

- `TypeTheorem`: the file system stays a file system, whatever follows what. A
  directory whose time is put off must have been written (`DirsWritten`).
- `AccountedTheorem`: `AccountInv` says that a selected member behind `next` is
  exactly one of written, declined and waiting for the second pass, that no
  member is declined or waits twice, and that none waits after it.

These two hold for every archive, also those which the checked instance leaves
out. The other promises of `extract.rs` do not, as the violated runs show; the
theorems about them say for which archives and destinations they hold. Each
condition speaks of the archive and of what was there before (`scenario`) and
nothing else, and each is met by most scenarios of the run `extract`:

- `OneEach`: no two entries of the destination are one inode beforehand.
- `NothingFollowed`: no file or directory goes where a symbolic link was, or
  where the archive puts one before it; `File::create` would follow it. `Direct`
  is the two together.
- `NoneGivesWay`: a file or symbolic link is not followed by a symbolic link of
  its path nor, with `skip_bad_chunks`, by a file of its path.
- `LinksLast`: after a hard link, nothing goes where it is but a hard link of
  its path. Links are made after all files, so one would replace a later file.
- `SourcesStay`: no hard link replaces the source of an earlier one.
- `CleanTree`: each entry that was there before is in a directory and no partial
  file. `Removable`: where a directory may have become read-only, no file
  replaces another. A bad one could not be removed.
- `FilesStayNamed`: the path of a file is given to no hard link or directory.

| Theorem | States | Conditions |
|---|---|---|
| `CollisionTheorem` | `CollisionIsReal` | `OneEach`, `NoneGivesWay` |
| `LossTheorem` | `LossIsTheHosts` | `Direct` |
| `ContentTheorem` | `ContentLands` | `Direct`, `LinksLast`, `SourcesStay` |
| `LaterWinsTheorem` | `LaterEntryWins` | those of `ContentTheorem` |
| `SurvivesTheorem` | `ContentSurvives` | those of `ContentTheorem`, `FilesStayNamed` |
| `MetadataTheorem` | `MetadataRestored` | `Direct`, `LinksLast` |
| `DeclinedTheorem` | `DeclinedLeavesNothing` | `Direct`, `CleanTree`, `Removable` |

TLC finds a counterexample, for archives of two or three members, without
`NothingFollowed`, `LinksLast`, `Removable`, or `OneEach` (for `CollisionIsReal`
and `DeclinedLeavesNothing`); `extract_stale_inode` is one without `NoneGivesWay`
and `extract_self_link` one without `FilesStayNamed`. One without `SourcesStay`
needs four members: files `p` and `q`, a link `h` to `p`, a link `p` to `q`; then
`h` is the old `p`. For `LossIsTheHosts`, `ContentLands` and `MetadataRestored`
TLC found none without `OneEach`: there the proofs use it, since they follow
entries and not inodes, and whether it can be dropped is open. A directory at
the path of a file stops the run, and is in `FilesStayNamed` for the proof only.

Each has an inductive invariant of its own:

- `CollisionInv`: a recorded inode is still that of the member it was recorded
  for (`RecordsTrue`). This is what a number that is used again breaks, and why
  nothing that was recorded may give way.
- `LossInv`: where a node is read-only, a member named its entry with such a mode
  or it was so before (`NodesKnown`); and a directory whose time waits is still a
  directory (`DirsThere`). A turn changes only its own entry and, if it has to
  make one, the parent (`Turned`): this is where links that are followed would be
  in the way, and what the other invariants rest on, too.
- `ContentInv`: what was written is there or was superseded (`AllLanded`); what
  was recorded is known by its path, so that a member of another path is declined
  as a collision before it could overwrite (`AllRecorded`); and the links that
  wait are in archive order and replace nothing that is final (`PendingFits`,
  `PendingFree`).
- `AttrsInv`: the times that wait belong to directories that were written, are in
  the order of the archive, and one is there for each whose time is not yet set
  or reported (`TimesFit`, `TimesWait`, `TimesInOrder`). A directory has one
  entry (`DirsOneEach`), so stamping one does not touch another. A member that is
  written into a directory, and a link made there, change only a time that waits.
- `CleanInv`: what is found has an origin and no file is partial (`AllWhole`).
  A partial file that stays is in a directory that is read-only; by `NodesKnown`
  an earlier member or the destination made it so, and by `Removable` then
  nothing was there to be truncated and nothing could be created. With `AllMeant`,
  only selected members are declined.

### Metadata

These theorems hold for streams of any length with any records, any width of
i64, u64 and u32 (of the year: any width that can hold 1970), any number of
digits, any offset and any glob. Of a scenario they assume what the types of the
code say (`ScenariosAssumption`): a number is a natural number, a digit is a
digit, a field of a header has its width, and an entry of the TOC has a size of
64 bits.

`MetaInv` is the inductive invariant: the globals read so far are the last words
of the global headers read so far (`GlobalsHeld`), and every entry of the TOC is
of its type and true of its header.

- `LastWordTrue`. A map that is updated by one record after another has, at every
  key, the last word about it (`LastUpdateCounts`, `WordGrows`); a member's own
  records speak after all globals, and after the member the globals are as
  before, which is what `TruthStays` and `GlobalsHeld` need.
- `TimeCounts`, on which it rests: what `parse_pax_timestamp` reads, digit by
  digit from the left and with a borrow for negative times, is the instant the
  digits denote with their weights, to the last digit kept (`Weights`), and
  outside of i64 nothing at all. With this `MetadataTypes` says that no field
  leaves its width and no fraction of a second reaches one.
- `ListingIsTrue`. `WalkTo` is the invariant of the two loops: what has been taken
  away is the sum of the lengths passed. For years that sum is the closed
  formula, because a year has a leap day exactly when the formula steps
  (`LeapYears`); so year, month and day are those of the calendar (`YearFound`,
  `MonthFound`). The sum is followed beyond the years that a u32 can hold, where
  the lengths start again from year 0 (`DaysTo`, `DaysToNext`), since the theorem
  has to show that the loop gets there only for a time that is beyond
  (`OverflowIsBeyond`); of these the date is not claimed. Days, hours and minutes
  can be taken from the seconds in any grouping (`DivideTwice`). `TrimmedIsNames`
  shows that trimming a path that is well spelt leaves what it names.

What the recursive functions compute is proved without an induction theorem: a
statement about all numbers up to a bound holds if it holds for 0 and goes from
each to the next (`UpTo`), which follows from the least counterexample.

### What is only model-checked

- Liveness: `Terminates`, `OperationsEnd`, `RunsEnd`, `ExtractionEnds`. TLAPS
  does not prove properties under fairness here.
- `ContentLands`, `DeclinedLeavesNothing`, `MetadataRestored`, `LossIsTheHosts`
  and `CollisionIsReal` of `Extract` outside of the conditions of their theorems.
  The run `extract` checks them without conditions on its scenarios, some of
  which do not meet them: a bad file at the path of a good one, a bad file or a
  directory where a symbolic link is.

The inductive invariants (`TocInv`, `FileInv`, `ExtractInv`, `AccountInv`,
`CollisionInv`, `LossInv`, `ContentInv`, `AttrsInv`, `CleanInv`, `ArchiveInv`,
`ReadInv`, `InfoInv`, `MetaInv`) were checked with TLC on the instances of the
runs before they were relied on, those of extraction under the conditions of their
theorems.

## Not modelled

- The bytes of headers, frames and JSON, and 64-bit overflow in the writer's
  sums, each of which the code checks and turns into an error (`EntryRefused`).
- The tar parser itself, zstd, the glob of a pattern, the time zone database.
- MD5, which is computed where SHA-256 is; the device and group of an entry.
- Reading sizes above `usize` on 32-bit hosts.
- `list --json`, mode letters and sizes as they are displayed, `cat` but for the
  extraction it calls, argument parsing with `parse_size`, and exit codes other
  than of `verify` and `extract --strict`.
- Extraction below symbolic links, deeper trees, access times, and a file at the
  path of an earlier symbolic link, which is written through the link.
- Windows, where names are folded by lower-casing instead of by inode.
- An output path that is also the input, which `cmd_wrap.rs` refuses beforehand.

## Plan

Done: the writer, the reader on it with damage to any field, the output file,
extraction into a tree, metadata and listing, and the proofs above. Every safety
property of a run that must pass is stated by a theorem.

Next:

1. `Extract`: the theorems without `OneEach` where TLC finds no counterexample,
   by an invariant about inodes instead of entries; then a path below a symbolic
   link, and files that are written through one.
2. `Metadata`: `list --json` and the display of sizes and modes.
