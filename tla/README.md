# luajitpi in TLA+

luajitpi boots LuaJIT and TinyCC on a bare Raspberry Pi B+. The code is
single-threaded and polled: there is no scheduler and no interrupt handler
changes its state. What is hard in it is therefore not threads but the rest of
the world: a card that times out in the middle of a request or is exchanged
between two, a cache and a card that must agree, a 32-bit microsecond counter
that wraps while it is not being looked at, a request that crosses a block
boundary at one end or ends on it at the other, structures that outlive the
Lua state that made them. The modules here are about that.

Module names, actions and variables keep the names of the C code where there is
one. `PROJECT.json` gives for each definition the lines it stands for.

## 1. The system

The machine starts in `start.s` and `ljuart.c`, which sets up the serial port,
the frame buffer and the font, and then loops: new Lua state, `boot.lua`,
prompt, close the state, again. Everything Lua reads or writes goes through
newlib's system calls (`syscalls.c`) to the virtual file system taken from
rpi-boot (`rboot/`), and through that to the SD card:

    boot.lua, repl.lua ---> linenoise (line editor, history)
         |
    newlib: fopen, fread, ...
         |
    syscalls.c      256 file handles
         |
    vfs.c           mounted file systems, the default, paths
         |
    fat.c ext2.c    chains, inodes      } callbacks: get_next_bdev_block_num
    libfs.c         fs_fread, fs_fwrite }
         |
    mbr.c           partitions: an offset
         |
    block.c         requests cut into blocks
    block_cache.c   direct-mapped write-through cache
         |
    emmc.c          the SD card: identification, modes, retries
         |
    timer.c         TIMEOUT_WAIT, usleep

Calls go down this stack and return; there are no messages. Parts share state
in three ways: through pointers handed down (`struct fs`, `struct
block_device`: a parent pointer per layer), through statics that outlive a pass
of the boot loop (the list of mounts, the line editor's history and callbacks,
the file handles), and through function pointers (`fs_fread` calls back into
the file system for every block, linenoise calls back into Lua for
completions).

The build this is about defines `ENABLE_SD`, `ENABLE_MBR`, `ENABLE_FAT`,
`ENABLE_EXT2` and `ENABLE_BLOCK_CACHE`; `ENABLE_NOFS` and SDMA are off.

| component | source | state | operations | what is hard | what must hold |
|---|---|---|---|---|---|
| requests and cache | `block.c`, `block_cache.c` | slot -> block number, cache lines | `block_read`, `block_write`, `cache_read`, `cache_write`, `cache_init` | failures inside a request, blocks that share a slot, requests that pass the cache by | a line holds what the card holds; seen from above there is no cache |
| timer | `timer.c`, `timer.h` | the counter, `struct timer_wait` | `usleep`, `register_timer`, `compare_timer`, `TIMEOUT_WAIT` | wrap at 2^32, polls at any distance | not early, not late, ends |
| open files | `libfs.c`, `vfs.c` | position, length, mode, EOF | `fs_fread`, `fs_fwrite`, `mb_fread`, `mb_fwrite`, `mb_fseek`, `mb_fclose` | segments at block boundaries, read-edit-write, -1 as a count | exactly the bytes asked for are moved |
| mounts and paths | `mbr.c`, `libfs.c`, `vfs.c` | list of file systems, default, names | `libfs_init`, `read_mbr`, `register_fs`, `vfs_register`, `mb_fopen` | mounting again on top of old mounts, odd paths | a path finds what it means |
| SD card driver | `emmc.c` | address, capacity class, last error, removal bit | `sd_card_init`, `sd_ensure_data_mode`, `sd_do_data_command`, `sd_read`, `sd_write` | commands that fail anywhere, exchange of cards, retries | right address unit, right mode, recovery |
| FAT | `fat.c` | (cluster, block) pair of a walk | `fat_fread`, `get_next_fat_entry`, `fat_read_dir` | incremental walk, end marks, cycles | the chain's blocks, all of them, in order |
| ext2 | `ext2.c` | superblock, group descriptors, inode | `ext2_init`, `ext2_fread`, `ext2_read_dir` | three levels of pointers, deleted entries | index leads to the right block |
| line editor | `linenoise.c` | buffer, cursor, history, completions | one per key, `linenoiseHistoryAdd`, `...SetMaxLen` | full buffer, history changed by editing | text with a cursor; an entry that was only looked at stays as it was |
| system calls | `syscalls.c` | 256 handles, the structures of open files | `_open`, `_read`, `_lseek`, `_close` | full table, handles given out again | each handle a file and a position of its own; nothing is lost while a handle is free |
| property tags, mailbox | `valvers/` | the array `pt`, messages in the mailbox | `rpi_property_add_tag`, `..._process`, `..._get`, `rpi_mbox_read` | words of earlier lists and answers in `pt`, messages of other channels | the answer to this request |
| console | `console.c` | cursor, the rows of the frame buffer | `console_putc`, `newline`, `clear` | last row, screens that are no multiple of a character high | the screen shows the text |
| boot loop, packages | `boot.lua`, `zip_require.lua`, `ljuart.c` | `package.loaded`, the files being run | `run_bootzip`, `boot`, `zip_require` | files that fail in the middle of what requires them, packages that require one another | a package runs once; the prompt comes |
| serial boot loader | `bootloader07.c` | state, address, segment, word in progress | one per character | characters missed anywhere, the file sent again | a line that came whole is in memory |
| nofs | `nofs.c` | one flat file | open, read, write | append position | (not compiled) |
| frame buffer, font, output | `fb.c`, `output.c` | its size and address; the list of outputs | one exchange with the GPU; log | - | - |
| serial port, vectors, MMU, ATAGs, ldl, elf, tcc wrapper | several | none or constant | - | - | - |
| TinyCC, DynASM, miniz, Lua libraries | vendored | - | - | - | - |

## 2. The modules

| module | role |
|---|---|
| `BlockDevice` | abstract: a device that returns what was last written |
| `BlockCache` | `block.c` over `block_cache.c`; implements `BlockDevice` |
| `Timer` | `timer.c` |
| `FileIO`, `FileIOProofs` | one open file: `libfs.c` and the calls of `vfs.c` on it; its theorems |
| `SdCard` | the SD driver and the card, command by command |
| `FatChain`, `FatChainProofs` | files and directories of `fat.c` on the allocation table; its theorems |
| `Ext2`, `Ext2Proofs` | files and directories of `ext2.c`; its theorems |
| `Mount`, `MountProofs` | `libfs_init`, `read_mbr`, the list of `vfs.c`, paths; its theorems |
| `LineEditor` | abstract: a text with a cursor |
| `LineEdit` | `linenoise.c` on its buffer of bytes; implements `LineEditor` |
| `LineEditProofs` | its theorems |
| `SdCardProofs` | theorems about `SdCard` |
| `Descriptors` | abstract: a table of descriptors, each a file and a position |
| `SysCalls` | `syscalls.c`, pointers to structures that come and go; implements `Descriptors` |
| `HexLoader` | `bootloader07.c` character by character |
| `Packages` | `boot.lua` and `zip_require.lua` |
| `PropertyTags` | `rpi-mailbox-interface.c` over `rpi-mailbox.c` |
| `Console` | `console.c` on the rows of the frame buffer |
| `Parts` | the types of the parts that work alone |
| `PartsProofs` | theorems about `BlockCache`, `Timer`, `SysCalls`, `Packages`, `PropertyTags`, `Console`, `HexLoader` and `Parts` |
| `Induction` | induction and recursion on numbers in a form the provers can use, and the arithmetic of quotients |
| `MCParts` | the parts that work alone, in one run |
| `MC...` | the constants of each for TLC |

Each layer is modelled over what the layer below promises, with that layer's
failures as choices: `BlockCache` over an array of blocks, `FileIO`, `FatChain`
and `Ext2` over reads and writes that succeed or fail, the SD driver over
commands that do. `BlockDevice` is the seam: it is what the modules of the file
systems assume, and `BlockCache` is shown to provide it.

How state and steps correspond to the code:

**BlockCache.** `call` is the progress of the do-while loop of `block_read` or
`block_write` (`buf_offset`, `block_offset`); `cached_blocks` is the array of
that name, `cache_mem` the lines behind it, `disk` the card. A step is one call
of `cache_read` or `cache_write` by the loop, one for each way through
(`ReadHit`, `ReadMiss`, `ReadThrough`, `WriteBlock`), plus the same with a
failing device (`...Fails`). A failing single read makes `memcpy` copy
0xffffffff bytes, after which the machine is `halted`. `PowerCycle` may happen
between any two steps, leaves the card as it is (a block being written old or
new) and starts the cache empty. `suspect` is a history variable: the blocks
whose lines a failed write has changed.

**Timer.** `clo` is `TIMER_CLO` modulo `Modulus`; `tw` is `struct timer_wait`.
`TIMEOUT_WAIT`'s loop is the two steps `Check` (the condition) and `Compare`
(the timer), so that the hardware may answer between them; the counter moves on
by 1 to `MaxGap` at each `Compare`. `compare_timer` takes its argument by
value, so the flag it clears stays set. `usleep` is a wait whose `ready` stays
false. `elapsed` is a history variable that does not wrap.

**FileIO.** `io` holds the locals of `fs_fread` or `fs_fwrite` (`cur` is
`cur_block`, `total` is `total_bytes_read`), `pos`, `len`, `mode` and `eof` are
fields of `struct vfs_file`. A step is one turn of the loop, with the
`block_read`, the `memcpy` and, for a write, the `block_write` of one segment:
`ReadBlock`, `WriteBlock`, the two ways out (`EndOfChain`, `EndOfLoop`), and a
failing block in each of its places. Block numbers are formed in 32 bits (`U`).
A byte is a value; that a failed partial read counts bytes nobody filled is
modelled as it is. A write to a file opened "r" is not refused: it goes on to the
file system, and where that cannot write the call ends with EROFS
(`WriteRefused`). `fwrite` says which kind of file system it is.

**SdCard.** The card is a state machine after the SD specification, taken from
how the driver uses it (`external` in the map); the driver's `pc` is the
command it issues next. `sd_issue_command` yields one of `Results`: it is
barred by a removal, refused, obeyed, or it fails although the card is there,
having changed the card or not. `CommandResetFails` is a reset of the command line after CMD8 or CMD5 that times
out. `SendIfCond`, `SendOpCond`, `VoltageSwitch`,
`Identify` are the parts of `sd_card_init` after their command; `Status`,
`SelectOrStop`, `Recheck` are `sd_ensure_data_mode`; `DataStep` is a turn of
`sd_do_data_command`. `Remove` and `Insert` may happen between any two
commands. An inner `sd_card_init` (after a failed voltage switch) sets its own
`*dev` only: `init.nested`.

**FatChain.** `cluster` and `f_block` are the pair that
`fat_get_next_bdev_block_num` keeps from block to block. `Follow` is a turn of
its while loop, `Found` a block handed to `fs_fread`, `ReadDirCluster` a turn of
the loop of `fat_read_dir`. Sectors are counted from the first data sector. The
code mounts a FAT12 and decodes no entry of its table (fat.c:370): every next
cluster is 0. `Decoded` excepts the chains this breaks from the properties that
need an end.

**Ext2.** `task` is the file or directory being read and `cur` the index in
it; `at` is the block of pointers on the way down with the rest of the index.
A read that fails yields a null pointer, which most callers use; the model then
goes to `stage = "wild"`, about which nothing is said. `Volumes` are volumes in
order, as `Consistent` says: every pointer names a block of the volume, a file
fills its tree from the left without holes, inodes are where the group
descriptors say, directory entries follow one another and end in their block.
The code checks none of this and goes wherever a damaged volume leads. A reader
of a file asks for blocks it has or for one behind the largest file the tree can
hold; what lies between is a hole or an unused pointer, of which the code knows as
little. `IsDir` is the mark that `ext2_read_dir` gives an entry, from its flags or,
on volumes without them, from its inode; `EntryInodeFails` is an inode that cannot
be read there. The field `place` of a listed entry, the byte of the directory it was
found at, is a history variable.

**Mount.** `first` is the list of `struct vfs_entry`, newest first, `def` the
default. `libfs_init` starts a mount, each partition is a step. `Scan` is a
turn of the first loop of `split_dir`, `Parts` its second loop,
`Directory` is `read_directory`. A path is a sequence of tokens.

**LineEdit.** `buf`, `len`, `pos` are the fields of `struct linenoiseState`;
the C library's `memmove`, `strncpy` and `snprintf` act on `buf` byte by byte,
because a byte too many or too few is what can go wrong. One action per key.
What is typed is an `Input`: a character or a 0 byte, which `linenoiseEdit` inserts
like any other (linenoise.c:864). It ends the text that `strdup` takes (`Text`)
before `len`.

**SysCalls.** `file_handles` is the table of that name from handle 3 on, `heap`
the structures that `mb_fopen` allocates and `mb_fclose` frees; a step is one
system call. A structure may be allocated again as soon as it is free.
`refused` is a history variable: the structures `_open` allocated when no
handle was free, which nobody can close. Descriptor `i` of `Descriptors` is
closed, or the structure its pointer leads to. `Descriptors` asks less of a seek
than the C library does: `_lseek` returns what `mb_fseek` returns, 0, and not the
new position (syscalls.c:157), so the abstract `Seek` answers 0 and leaves any
position in the file.

**HexLoader.** `hex` holds the locals of `notmain` (`state`, `address`,
`record_type`, `segment`, `data`); a step is one character of the file that is
being sent, taken (`Receive`) or missed because the one before was still being
dealt with (`Miss`). `history` says what the reader of the properties has to
know: whether this line came whole and which segment the lines so far name.
The shifts and masks of the code are products and remainders; what it ors into the
address is `Or`, bit by bit.

**Packages.** `running` is the stack of the files being run, each with the
position in what it requires. Failing to compile, raising an error and running
out of stack are steps of the file that runs (`Error`, `StackOverflow`); what
`xpcall` and its handler make of them is `Caught`. `Prompt` stands for `repl()` and
for the loop that boot.lua falls back to if repl.lua has not defined it.

**PropertyTags.** `pt` is the array word by word, never cleared between lists.
The GPU is external: it fills in any answer no longer than was asked for
(`Gpu`); messages of other channels may arrive at any time (`OtherMessage`).
`rpi_property_get` changes nothing and is an operator: `IndexAfter` is its index
after each turn of the loop. A walk that leaves `pt` downwards, or that is still
going after as many turns as `pt` has words, is `Astray`.

**Console.** A pixel row has in each column of characters a row of a glyph,
nothing, or what the memory of the GPU held before; `text` is a history
variable, the characters since the last `clear`, scrolled.

**MCParts.** The parts above and `Timer` and `Ext2` share one run. The
processor runs one thread and these parts share no state, so in each behaviour
one of them works and the others stay as they are after the start; every
property is about one part, and holds in all behaviours.

## 3. The runs

`sd_calls` and `parts_alone` take under two minutes on two workers,
`mount_paths` about one, the others seconds.

| run | shows | bounds |
|---|---|---|
| `cache_coherent` | with failing reads and power that goes at any moment: the cache is coherent, it is a `BlockDevice`, requests end | 4 blocks, 2 lines (3 blocks of memory, rounded down), 2 values, requests of up to 2 blocks, multi-block reads |
| `cache_faults` | failing writes too, no multi-block reads: only a line that a failed write changed can differ from the card | the same |
| `file_calls` | reads, writes and seeks move the bytes they should, and only these; every call ends | 3 blocks of 2 bytes, up to 5 bytes a call, 3 calls, read and write faults at every block, file systems that write and that do not |
| `sd_calls` | the address unit fits the card, the card is in its transfer state when a command is first tried, a failed call forgets the card; every call ends, and calls succeed again after failures and exchanges | 4 kinds of card, any command fails, up to 2 failures, 1 exchange |
| `sd_switch` | violated: a voltage switch that failed is tried again | one card that can switch; only the switch fails, once |
| `fat_walk` | the walk yields the chain's blocks and ends; a directory is read whole | every table of 3 clusters, cyclic ones too, 2 sectors a cluster, FAT12, FAT16 and FAT32, failing reads |
| `ext2_sectors` | violated: the block numbers handed to the device count other blocks | 2 volumes, 2 or 4 pointers a block |
| `mount_paths` | `mb_fopen` finds what the path means after any mounts | 2 cards, 2 mounts, each beginning of a path with up to 3 tokens behind it |
| `line_keys` | the buffer behaves as a text with a cursor; history entries change only by editing them | buffer of 4 bytes, 2 characters and the 0 byte, history of 1 or 2 |
| `timer_hang` | violated: a delay whose trigger wraps never ends | counter of 12 values, delays -1, 0, 1, 4, 7, polls up to 3 apart |
| `absent_tag` | violated: the search for a tag that is not in the list | tags of one and two words, one unknown tag, `pt` of 16 words, lists of 2 tags |
| `parts_alone` | timer: not early, not late, ends; ext2: an index leads to the right block, directories list what is in use; system calls: a table of descriptors, nothing lost but with all handles in use; boot loader: a line that came whole is in memory; packages: run once, prompt comes; tags: the answer is found; console: the screen shows the text | timer, ext2 and tags as above; 2 handles, 3 structures, files of 1 and 2 bytes; 4 records, 2 missed characters, 2 transfers; 2 packages, each requiring up to 2 of them or one that is missing, 2 boot files, stack of 4; 2 columns, 3 rows of 3 pixels and 1 pixel below |

Why the bounds are enough. *Cache*: two lines and four blocks let two blocks
compete for each line and a request of two blocks touch both; the cache treats
blocks one by one, so longer requests add nothing, and the proofs cover every
size. *Timer*: 12 values give every position of stamp, trigger and poll against
the wrap, with delays below, at and above the distance of two polls; proved
for every width. *Files*: with two bytes to a block and three blocks a request
of five bytes begins and ends anywhere in a block and has a whole block in the
middle; three calls are read, seek, write in any order. *SD*: two failures let
one follow on the recovery from another, at every command; what a failure or an
exchange leaves behind is forgotten by the next complete initialisation; the
safety properties are proved for any number. *FAT*: three clusters have every
shape of chain: straight, cyclic with and without a tail, joined. *ext2*: with
two pointers to a block the first index of each level, the last one of each
level, and one behind the largest file all occur. *Mount*: two mounts put an
old entry of the same name below a new one and leave the default on the old
one; a path of six tokens has every neighbourhood of two separators.
`MaxDevNames` is 4, so the list of names does run full. *Lines*: lines of 0 to 3
characters: empty, in the middle, full; proved for every size. *Handles*: two
handles run full with two files, and the third structure is the one that is
lost. *Hex*: the image has two words at the end of a segment, a record that
changes the segment, and a record whose last word takes in the checksum;
two missed characters damage two lines or one line twice, and the second
transfer starts in whatever segment the first has ended in. *Packages*: two
packages have every way of requiring themselves, each other and a missing one,
and the stack of four is full where they are cyclic. *Tags*: lists of two tags
over what lists of two tags have left. *Console*: proved for every size.

Deadlock is checked in every run but `parts_alone`, where a part may be through
with its work: the prompt has come, the kernel has been started.

### Fairness

The machine runs one thread, so a loop that can take a turn does: `WF` of the
step that the processor is executing (`Serve`, `Poll`, `Goes`, `Work`,
`Driver`, `PkgNext`). Failing is never owed: in `FileIO`, `FatChain` and `Ext2`
the steps that consist in a failure are outside the fair action, so that a loop
ends by itself and not because a read has failed at last. In `BlockCache` and
`Packages` the fair action contains the failing alternatives of a step; each has
a succeeding sibling that is enabled in the same states, so nothing hangs on a
failure there either. In `SdCard` two assumptions are about the world: somebody
puts a card in (`Insert`), and a card does not answer "busy" to ACMD41 for ever
(`CardReady`). `CallEnds` and `Recovers` mean nothing without them, since
`sd_card_init` waits without a limit (emmc.c:1543). A high capacity card whose
answer to CMD8 was lost is asked for the wrong capacities and does stay busy;
`StaysBusy` names that case and the two properties except it. `WaitsEnd` of
`Timer` has its assumption in the formula. `PromptComes` needs nothing else than
that the processor goes on: the depth of the stack ends every recursion.

### Disagreements between code and documents

Found and kept as runs that TLC must find violated:

* `timer_hang`: `compare_timer` clears the rollover flag in a copy, so a delay
  that wraps, or `usleep(0)`, never ends.
* `sd_switch`: the mark of a failed switch to 1.8V is kept in the structure
  that the next initialisation clears (emmc.c:1441), so the switch is tried
  again, against the tests at lines 1553 and 1577.
* `ext2_sectors`: `ext2_get_next_bdev_block_num` returns a number of blocks of
  the file system where the device wants its own.
* `absent_tag`: `rpi_property_get` steps over the zero that ends the list
  (rpi-mailbox-interface.c:240).

Stated in the modules with the remark "It does not hold", with no run of their
own; each is a counterexample of a few steps:

* `Coherent` with failing writes: the -1 of the device is divided into a block
  count, and lines are changed to what never reached the card (block_cache.c:217).
* `ReportedBytesAreFile` (`FileIO`): a failed partial read counts the bytes of
  a buffer nobody filled (libfs.c:241).
* `OnlyBlocksOfFile` (`FatChain`): the mark of a failed table read is followed
  as a cluster (fat.c:343, 422).
* `DirReadsItsSectors` with a root directory that is not a whole number of
  clusters (fat.c:553); `RootWhole` is a hypothesis of its theorem.
* `NoUseAfterFree` (`SdCard`): emmc.c:1717.
* `NoFreedEntry` (`Ext2`): `ext2_read_dir` links an entry before it looks at its
  name, and frees a special one without taking it out (ext2.c:535), against
  "Don't return special files".
* `DirectoriesAreMarked` (`Ext2`) on a volume without type flags: the bit of a
  character device is tested, 0x2000, where directories have 0x4000
  (ext2.c:553), and no path leads through a directory.
* `NulAfterLine` (`LineEdit`) with a completion as long as the buffer:
  `completeLine` takes what `snprintf` returns for the length of the line
  (linenoise.c:339), against "Make sure there is always space for the nulterm";
  `CompletionsFit` is a hypothesis of its theorem.

## 4. The proofs

`tlapm` checks every proof to its leaves. Nothing is assumed beyond the named
`ASSUME`s of the modules, which TLC evaluates in the runs.

**BlockCache** (assumptions `DeviceAssumption`, `CacheAssumption`: there is at
least one block and one line, junk is not a value, and the mark of an empty
slot is no block number). `CacheInvariant` proves `Spec => []Inv`
where `Inv` is `TypeOK` and

* `CallFits`: a request in progress lies inside the device, `done <= len`;
* `PayloadFull`: the buffer of a write is filled up to its length (else a write
  could put junk on the card);
* `RightSlot`: a block is only ever in the slot of its index. It is needed
  because `LinesOf` compares a slot's block number and its index: without it a
  write could miss a line that holds its block;
* `StaleOnlyAfterFailedWrite`, with `suspect` part of the statement;
* `SuspectNeedsFault`: `suspect` is empty if writes do not fail.

From it follow `CacheTypeOK`, `StaleOnlyAfterFailedWriteHolds`, `CoherentHolds`
and `CacheImplementsDevice`, the last two under `"write" \notin Faults`: every
step of the cached device is a step of `BlockDevice` or a stutter, by the
identity on `disk`, `call`, `buf`, `result`.

**Timer** (assumption `TimerAssumption`). The invariant adds to `TypeOK`:
`Countdown` and `StillWaiting` relate `elapsed`, which does not wrap, to the
distance of counter and trigger, which do. `NeverEarlyHolds` and
`NeverLateHolds` then hold for every width of the counter, every delay and
every spacing of the polls up to `MaxGap`.

**FileIO** (assumption `FileAssumption`: the file and a request are smaller than
2^32 bytes; nothing else about the sizes). `FileInvariant` proves `Spec => []Inv`,
where `Inv` is `TypeOK`, three of the properties themselves, and

* `Placed`: the position is -1 or in the file, and -1 only after a fault. A read
  of a whole block that fails takes it back by one; `NothingBefore` shows why it
  stays at one: a request that begins at -1 has block number 2^32 / `BlockSize`
  and ends without touching anything;
* `Request`: the loop stands at or behind the first block, and the position is
  where the current segment begins, or the end of the request after the last;
* `ReadSoFar`, `WrittenSoFar`: the part of the request that is through is where
  it should be, and a write works from a payload without junk;
* `AppendsAtEnd`: a write to a file opened "a+" began at its end.

The arithmetic (`Pieces`, `SegmentFacts`) is the heart of it: the segments from
`From` to `To` of the blocks `FirstBlock` to `LastBlock` join without gap or
overlap and cover the request, whatever the block size, also where the request
ends on a boundary and the last segment is empty. From `Inv` follow
`FileTypeOK`, `ReadReturnsFileHolds`, `WriteStoresAllHolds`,
`WriteStaysInRangeHolds`, `AppendKeepsContentsHolds` and `PositionInFileHolds`:
all safety properties of `file_calls`, for every size and every fault.

**SdCard** (assumption `SdAssumption`: the mark for no card is neither a kind of
card nor a state). `SdInvariant` proves `Spec => []Inv` for any set of cards and of
commands that fail, and any number of failures and exchanges. `Inv` is
`SdTypeOK` and

* `Known`: once the card in the slot has been identified, its capacity class is
  the one the device has recorded;
* `NoAddressYet`: in the commands before the answer to CMD3 the device has no
  address, so that a command that fails early leaves none behind;
* `InTran`: before the first try of a data command the card is in its transfer
  state, unless it has just been taken out;
* `TriesCounted`: tries are counted from zero in each call, and an
  initialisation in the middle of a call does not count;
* `Forgotten`: if an address survives a call that failed, the card in the slot
  has none, so that the next call cannot talk to it by mistake.

`RightUnit`, `FirstTryInTran` and `FailureForgetsCard`, all safety properties of
`sd_calls`, follow. The steps of an initialisation entered from a failed voltage
switch, which sets a pointer of its own, are among them.

**SysCalls** (assumption `SysAssumption`). The invariant is `OwnStruct` (an open
handle has a live structure, and no two the same), `LostOnlyWhenFull`, and
`PositionInReach`: a position is at most the length of its file, and negative
only where reads fail. From it
`SysCallsImplementDescriptors`: every system call on pointers and structures is
one call of a table of descriptors or a stutter, under the mapping that follows
the pointers. Without `OwnStruct` a `_read` through one handle would move
another.

**Console** (assumption `ConsoleAssumption`). The invariant adds to `ShowsText` the
types and what is in the rows below the last line of text, which scroll up into
it: nothing or, before the first `clear`, what the memory held. `Quotient`,
`NextLine` and `LastLine` place a row of pixels in its line of text for every
height.

**LineEdit** (assumption `LineAssumption`; hypothesis `CompletionsFit`: what the
callback offers is shorter than the buffer, without which `NulAfterLine` does
not hold). `LineInvariant` proves `Spec => []Inv`, where `Inv` is

* `LineOK`: `Ended(buf, len)`, the buffer holds `len` bytes that were typed or
  recalled and a NUL behind them, and the cursor stands in or behind them;
* `HistoryOK`: the history is no longer than its limit, is not empty while a
  line is edited, and the index names an entry of it;
* `Shown`: until a key changes it, the line is the entry it was recalled from,
  as far as the buffer can hold it.

`Shown` is why a step through the history that writes the line back to its
entry leaves an entry alone that was only looked at: `OnlyShownEntryChanges`.
The lemmas about `memmove`, `strncpy` and `strlen` (`Moved`, `CopyOfEntry`,
`StrLenOfLine`, `TextOfLine`) are what each key rests on; a line that was recalled
holds no 0 byte and is all of its text (`RecalledLine`); `WordFound` shows that the loops
that look for the word before the cursor end. `LineImplementsEditor` adds that
each key is one step of `LineEditor` or a stutter, under the mapping that reads
`left` and `right` off the buffer on both sides of the cursor: the lemmas on bytes
(`InsertBytes`, `BackspaceBytes`, `DeleteBytes`, `DeletePrevWordBytes`) say where
each byte has gone, `TextIs` relates bytes and text, and one lemma per key
(`InsertImplements` to `DeletePrevWordImplements`) puts the two together.

**FatChain** (assumption `FatAssumption`; hypothesis `TablesLead`: every entry of
the table names a cluster or ends the chain, without which a walk leaves the table
and finds anything). The reference `Chain` is a recursive function, and what it
gives is shown by induction. The induction theorems of the library take an
operator, which the provers cannot instantiate; `NumbersFrom0` states induction
with a set in its place, from the theorem that each set of numbers has a least
one (`WFMin`). From it follow `WalkExists`, that the equation of the chain has
a solution, `ChainTurns`, that `Chain` is one, and `ChainStays`. The invariant is

* `RootWalk`: on the fixed root the cluster counts along with
  `cur_root_cluster_offset`, and a directory is given up at the first failure;
* `OnChain`: the pair that a file read goes on from is a cluster and its place in
  the chain;
* `AnswersOK`, `EofOK`: the properties themselves;
* `DirListed`: what a directory has been read from are the first clusters of the
  fixed root, or those of a path of `n` steps through the table; `DirDoneOK`, that
  in the end it was all of the root, or the path came to the end mark; both are about
  what `Decoded` leaves of a FAT12, its root.

`AnswersFollowChainHolds`, `EofIsEndOfChainHolds` and, for a root of whole clusters
(`RootWhole`), `DirReadsItsSectorsHolds` follow: all safety properties of
`fat_walk`. The last needs that `DirSectors` looks far enough: a path that ends
visits no cluster twice (`PathIsSimple`), so that by the pigeonhole principle it is
no longer than the table (`PathIsShort`).

**Mount** (assumption `MountAssumption`: no two partitions share a device name,
as they end in its number; the nodes of a file system are a tree).
`MountInvariant` proves `Spec => []MountInv`, where `MountInv` is `TypeOK` and

* `ListOK`: the list holds entries of the mounts so far, under the name of their
  partition, and each was mounted after those behind it;
* during a mount nothing is open, and what it has registered are partitions it has
  passed; if nothing disturbs it, those of a supported kind and no others;
* the default is the choice of `vfs_set_default` or the last entry of the list,
  which is the first that was ever mounted.

`MountsAllHolds` follows. `OpenFindsFileHolds` is about a parser: `Scan` is a fold
over the tokens of a path with a state of five fields, and the property compares it
with a meaning of paths that is stated without a loop. The proof follows the path.
`BehindDevice` deals with what comes behind the device, or with the whole path if
there is none: where names and separators take turns (`Alternate`), the loop counts
the names (`Scanned`), the second loop cuts them out in the same places
(`PartsAre`), and the walk of `read_directory` arrives at the node of that name
(`Found`); anywhere else it gives up, at the first place where two names or two
separators meet (`NoClash`, `IsWellFormed`). `NoDeviceEnd` and `LatestIsFound` deal
with the device: a bracket that is not closed, and a name that several mounts have.
The list enters only through `MountInv`.

**Packages** (assumption `PackageAssumption`). `PkgInv` says that the files on the
stack are there for a reason (`StackOK`: each is what the one below requires at the
position where that stands), that a package that was run is recorded or still on
the stack, and that one that was run twice leads back to itself (`ReachOf`). The
last two hold one another up: `RunPackage` runs what is not recorded; if it was
run before it is on the stack, and from there to the top each requires the next.
`RunOnceHolds` follows for every archive and every depth of the stack.

**Ext2** (assumption `Ext2Assumption`: the sizes are positive and the volumes
`Consistent`, see section 2; any number of volumes, any size of block, sector,
inode and file). The reference, `FileBlocks`, reads the tree of pointers from left
to right by joining sequences (`FlattenSeq`); the code goes down one path by
quotients and remainders. They meet in `Ext2Inv`, whose parts are

* `TaskOK`, `CurOK`, `ScalarsOK`: the indices a task works through, and that an
  inode of a volume is asked for;
* `InodeKnown`: the inode being used is the one of the task, read from its table;
* `AtOK`: on the way down to index `e` of a level, the block reached `m` levels
  above the data is, from the left, number `e` divided by the leaves below a block
  of that level, and what is left of the index is the remainder (`OnWay`);
* `FoundOK`, `AnswerOK`: the block found is the one at that index.

`PackedJoined` and the lemmas on trees behind it show that, where only the last
block of a level has pointers to spare (`Packed`), entry `n` of a joined sequence is entry
`n % p` of block `n \div p`; `NestedDivision` that dividing by the square of `p`
and by `p` is dividing by its cube. From `Ext2Inv` follow
`IndexFollowsTreeHolds` and `Ext2TypeCorrect`; with `ListOK`, that what was listed
so far are the entries in use before the byte that is looked at (`Here`), and that
nothing else begins in between, `DirListsEntriesHolds`.

**PropertyTags** (assumption `TagAssumption`: `pt` has room for the longest list
and the words around it, which the code does not check; sizes are positive, whole
words and at most the 256 bytes of the structure that receives them). `TagInv`
says where a list is: its tags and their sizes stand in `pt` from word 2 on, one
behind the other (`ListIn`, by `StartsAt`), `pt_index` is its end, and the size in
the header agrees once it was sent. For the answers it says when they are there:
from the moment an answer on channel 8 waits in the mailbox, not from the moment
some message does (`Ours`). There is at most one, and only while the caller waits,
so what `rpi_mbox_read` returns on is this request's answer. `SearchFinds` takes
the loop of `rpi_property_get` from tag to tag to the first of that name,
`FilledIs` shows that the GPU's answers fit between the headers.
`GetReturnsAnswerHolds` follows. It says nothing of other tags: one that is not in
the list may be found (`AbsentTagIsNotFound` is violated).

**HexLoader** (assumption `HexAssumption`: a record has at most 255 bytes, and a
segment record says a multiple of 64 KiB, as objcopy writes them; with others the
loader, which ors the segment into the address at every digit, stores elsewhere).
`HexInvariant` proves `HexSpec => []HexInv`, for every file, any number of missed
characters and of transfers. `HexInv` is `WholeLineIsStored`, the types, and

* `LineParsed`: if nothing of the line was missed so far, its number of characters
  tells the state (`StateAt`), and the locals hold what they can of the fields: the
  upper digits of the type, the segment and the address (`TypeRead`,
  `SegmentRead`, `AddressRead`), and of the data the words that are in memory and the
  beginning of the next one (`DataRead`);
* `SegmentKept`: where the lines so far tell a segment, `segment` is this one, and
  behind a character that was missed the state is one that leaves it alone until
  the next colon, unless the header was hit (`Quiet`);
* `BaseOK`, `PlaceOK`: such a segment is on a boundary; the sender is in its file.

What a line was before is shifted out by its own digits: `AddressRead` speaks of the
lower 4, 8 and 12 bits only, since the upper ones still hold the last line's
(`Shifted16Has`, `NextAddress`). `OrIs` shows that to or and to add are the same on a
boundary. `WholeLineIsStoredHolds` follows. For `ImageLoadedHolds`, under
`ImageAssumption` (two lines of the file do not claim the same word), `ImageInv` says
that in a first transfer without a loss the words of the lines so far are in memory,
each at its segment in the file (`BaseAt`), and nothing else is (`LoadedUpTo`).

**Parts.** `PartsTypeCorrect` puts the types of `Timer`, `Ext2` and `SysCalls`
together as the run `parts_alone` checks them.

The type invariants of `BlockCache`, `FileIO`, `SdCard` and `FatChain` and
`OwnStruct` are proved and no longer among the properties of the runs.

What stays with TLC: all liveness (`ENABLED` and fairness are out of the
prover's reach): `RequestEnds`, `CallEnds`, `Recovers`, `WalksEnd`, `WaitsEnd`,
`TaskEnds` and `PromptComes`. All safety properties of the passing runs are
theorems.

## 5. What is not modelled, and why

* Inside a command of the SD driver: interrupt bits, the clock divider, SDMA
  (compiled out). One command is one step.
* Decoding: the boot sector and directory entries of FAT, the MBR's bytes, ext2's
  superblock. The models start from the decoded structures.
* Drawing of the edited line, hints, multi-line mode, history files.
* `stage = "wild"` of `Ext2` and `call.op = "halted"` of `BlockCache`: what happens
  after a null pointer is used or after 4 GiB were copied.
* The device behind a partition (`mbr_read`, `mbr_write`): an addition, without
  a range check (mbr.c:216), with no state.
* Arguments that no caller gives: a request to the block cache that is not of
  whole blocks (EFAULT, block_cache.c:206), a data command of the card with such a
  length (emmc.c:2013-2026); the partition that does not begin or end on a
  block of the card, for which `read_mbr` returns -1 (mbr.c:173-187) and which
  blocks of 512 bytes cannot have.
* `_sbrk`, the statistics calls, and the vectors of `sys_io_table`, which nothing
  sets; the waits for a full mailbox and `rboot/mbox.c`; the prompt of `repl.lua`;
  the exchange that sets up the frame buffer.
* `nofs.c`: it is not compiled, and with it no file system writes.
* Vendored code; assembly that runs once; registers without state.

The repository has some 89000 lines that count as implementation, of which about
8900 are its own program. The rest is taken over from elsewhere: the whole of
TinyCC with the Windows headers it ships (`tcc/win32/include`, never compiled
here), miniz, DynASM. The modules are about the program; a state machine of
TinyCC's code generator or of declarations of the Windows API would be about
something this machine does not promise. Of the program itself what is left out
is listed above: it draws, decodes, prints or writes registers once.

Further behaviour seen in the code and not covered by any module, beside what
`PROJECT.json` lists: a second mount makes a second `sd` device on the same card,
and the two take the card's address from each other at every change, while the
default stays on the first (libfs.c, emmc.c:1441); an exchanged card is not
noticed by the cache and the mounted file systems (emmc.c:1907); the reset of
the interrupts at the end of `sd_card_init` drops a removal (emmc.c:1895); the
clock divider may exceed the clock it is asked for (emmc.c:633-709); `mbr_read`
and `mbr_write` have no range check (mbr.c:216-230); `mb_fseek` does not clear the
end-of-file mark; `fat_fopen` opens directories as files; `get_sector_num` of ext2
multiplies in 32 bits and wraps at 4 GiB (ext2.c:113); an ext2 entry of size zero
is read for ever; `free_dirent_list` does not free names; `_write` tests one vector
and calls another (syscalls.c:168), `_fstat` and `_stat` fill nothing in; `uart_getc`
sleeps while its FIFO fills (uart.c:91); a failed `fb_init` leaves a size without an
address (fb.c:110-154); after Ctrl-C or Ctrl-D `repl.lua` makes a string of a null
pointer; Ctrl-C leaves the edited line in the history (linenoise.c:771); a
completion callback may shorten the history under the editor (linenoise.c:298).

## 6. Plan

Done, in this order: cache, timer, open files, SD card, FAT, line editor,
mounts, ext2, system calls, boot loader, packages, property tags, console; the
proofs of cache, timer, open files, SD card, system calls, console, line editor,
FAT, mounts, packages, property tags, ext2 and the boot loader. What would come next, most important first:

1. `TwoMounts`: two `SdCard` devices on one card, after two passes of the boot
   loop. Property: each call still reads the card.
2. `Storage`: `FileIO` over `FatChain` over `BlockDevice`, composed: bytes of a
   file through the chain to the card.
3. `SdClock`, the divider as a pure algorithm against a reference; the waits of
   `rboot/mbox.c`.
4. Runs of their own for the statements above that do not hold.
