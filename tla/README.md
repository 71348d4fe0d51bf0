# A verification project for the block file system

The program under `src/` keeps a small file system inside one host file (the
*image*): `FS <image>` opens or creates the image and serves a command line
(`ls`, `cd`, `touch`, `mkdir`, `cat`, `rm`, `rmdir`, `pwd`, `echo`). This
directory holds TLA+ models of it, TLC instances that check them, and proofs
checked by TLAPS.

## Inventory

| Part | Source | State | Operations | What makes it correct |
|---|---|---|---|---|
| Block device | `filesystem_and_blocks.c` | the image: header, block map, blocks; in memory: `block_map`, `file_state`, `file_system_path` | `load_filesystem`, `create_filesystem`, `write_block`, `modify_block`, `read_block`, `delete_block` | a block belongs to one caller from `write_block` to `delete_block`, through restarts |
| Inodes and files | `inode.c`, second half of `directories_and_files.c` | the inode bitmap (block 1, and in memory), the inodes (from block 2), the table `inode_entries` | `create_file`, `write_file`, `read_file`, `delete_file` | no two inodes share a block; what was acknowledged is what is read; nothing leaks |
| Namespace | first half of `directories_and_files.c`, `commands.c` | the table by path, `cur_path` | `init_dir`, `create_dir`, `change_dir`, `delete_dir`, `list_dir`, `search_dir` | names are unique, directories with something in them stay, the table and the bitmap agree |
| Shell | `commands.c`, `main.c` | the command line, `cur_path` | parsing, relative paths, redirection with `>` | a command does what `help` says |
| Network programs | `server.c`, `client.c`, `error_handlers.c` | the server: the connection being served, descriptors left open; a client: its connection and one buffer, used for both directions | accept, receive, answer, leave; connect, write, read | each request gets one answer, in step; nobody waits for ever; only `stop` stops the server |

Except for the network programs, the parts are layers of one process with one
thread. Commands call the file
operations, those call the inode operations, those call the block operations,
and each of these re-opens the image, works and closes it again. There are no
locks and no callbacks; the layers share the globals of the table above. What
is hard is elsewhere:

* **Crashes.** The process may die between any two writes to the image. The map
  is written before the block, the bitmap before the inode, and the freed
  blocks before the inode that named them.
* **Memory and image.** The block map, the inode bitmap and the table of inodes
  exist twice. Decisions are taken on one copy and written from the other.
* **A session that goes offline.** Early returns of the block operations leave a
  descriptor open. When none is left, `open` fails, `file_state` becomes -1 and
  stays so. The callers ignore every result: commands go on in memory and report
  success.
* **Two programs.** The server of `server.c` serves one connection to its end while
  other clients wait. Neither side marks where a message ends, the answers have
  no numbers, and each side blocks until the other one sends.
* **Boundaries.** Identifiers bounded by the size of a block instead of the number
  of blocks, files around the twelfth block, slots of the table that are never
  used again, paths compared as character strings.

`PROJECT.json` lists every hazard at its line with the properties aimed at it.

## Modules

| Module | Models | Uses |
|---|---|---|
| `BlockAllocator` | the promise of the block layer (abstract) | |
| `BlockDevice` | `filesystem_and_blocks.c` | `BlockAllocator`, which it implements |
| `BlockDeviceProofs` | theorems about `BlockDevice` | `BlockDevice`, TLAPS |
| `FileStore` | `inode.c`, the file half of `directories_and_files.c` | `BlockDevice` by `INSTANCE`: every block call is one of its actions |
| `FileStoreProofs`, `FileStoreOwnership`, `FileStoreContents` | theorems about `FileStore`, each module over the one before | `FileStore`, TLAPS |
| `Namespace` | the tree half of `directories_and_files.c`, the tree commands | |
| `NamespaceProofs` | theorems about `Namespace` | `Namespace`, TLAPS |
| `LargeFile` | `write_file` and `delete_file` around the twelfth block | |
| `LargeFileProofs` | theorems about `LargeFile` | `LargeFile`, TLAPS |
| `Shell` | `commands.c`: lines, arguments, paths as characters, redirection | |
| `ShellProofs` | theorems about `Shell` | `Shell`, TLAPS |
| `ClientServer` | `server.c`, `client.c`, `error_handlers.c` | |
| `ClientServerProofs` | theorems about `ClientServer` | `ClientServer`, TLAPS |
| `MCBlockDevice`, `MCFileStore`, `MCNamespace`, `MCLargeFile`, `MCShell`, `MCClientServer` | instances for TLC | |

Definitions carry the names of the functions and globals they model; `map` in
`PROJECT.json` gives the lines. Operators commented *Mutant* are broken variants
of the definition below them. They are used by no specification: replacing the
definition by the variant must break the property they were written for.

### BlockDevice

`image`, `disk_map` and `disk` are the host file; `phase`, `file_state`,
`file_system_path`, `block_map` and `leaked` are the process. A map is the set of
its marked blocks. One block call is one step, except where the order of its
writes matters: the process can die inside `create_filesystem` (after the file was
made, after the header) and inside `write_block` (after the map, before the
contents). `HostFaults` says which host calls may fail, those of start-up included: the
header may not be written (`CreateHeader`) or not be read (`LoadRejected`), the map
likewise (`CreateMap`, `LoadImage`). Where any call may fail a read may too, since a
failed write leaves the image short. A session that did not get past the header has an
empty map, records no path, and its first block call takes it offline. Of start-up only
an `open` of an existing image that fails is left out; the map, 512 bytes inside one page,
is written as a whole or not at all. `leaked` counts the
descriptors the early returns leave open, up to `MaxFds`, after which `open`
fails. `handed` and `reissued` are history: the blocks callers own and those ever
given out while owned.

### FileStore

Each file operation is cut into the block calls it makes, so a crash or the loss
of the image can fall between any two of them: `pc`, `cur`, `i`, `block_inuse`
and `arg` are the locals of the operation under way. `save_inode_bitmap`
(`set_inode_bitmap`, `clear_inode_bitmap`) and `update_inode` are one
`modify_block` each; `create_inode` writes the bitmap twice with the same contents,
which is one step here. `read_block` in `update_inode` cannot leak, because the
inode blocks are reserved and marked. Sizes are counted in blocks. When
`write_block` fails before it assigns, the pointer becomes what the uninitialised
local `block_id_buf` holds (`block_id_buf`): the result of the round before, or any
int at all (`Garbage`). `TypeOK` and `PointerInv` therefore bound the pointers in
memory only while the image can be opened, those on the image always. All inodes fit in one
block, as 16 of the 4096 do in the program: the rest of the group in
`update_inode` is rewritten with what was read from it.

`Init` is the state after `create_filesystem` and `init_dir` on a host without
faults. `cut` records which kinds of operation were ever left unfinished, by a
crash or by the loss of the image; `expect` what each inode should read back as.

### Namespace

A path is the sequence of its names. The table, the bitmap and the inodes on the
image are as in FileStore without the blocks, and commands are single steps, with
separate actions for a process that dies inside `create_inode` (`DieInCreate`,
`DieInMount`), the only place where the order of two writes shows in the names.
`GoOffline` abstracts how the image is lost; FileStore models it. Comparing paths
as characters is kept through two constants: `Within`, which names occur inside
which, for `search_dir`'s `strstr`; and `Leftover`, which names continue which, and
with what left after the one character `list_dir` skips, for its `strncmp`. `kept`
and `accidents` are history.

### LargeFile

`used` is the map, `disk` what each block holds, `num` the pointers of an inode with
the indirect one behind the direct ones. An operation is one step on an image that
works; cutting operations into block calls is FileStore's subject. What
the code never set is a choice: `single_indirect_block` holds any member of
`Garbage`, tables of any ints, and `Counts` says which numbers `write_file` may then find for
`block_inuse`: the first free direct pointer, else the first free pointer of the
local, else whatever `block_inuse` itself held. A negative count runs every loop as 0
does. A count beyond the table, or a pointer of the unset table into the reserved blocks,
makes the operation overrun its locals or the inodes: `Stray` notes that and the behaviour
ends. `delete_block` and `modify_block` refuse ids from `SIZE_OF_BLOCK` on
(`delete_blocks`, `modifies`). `delete_file` takes the last
*direct* pointer for the indirect one (`LastPointer`). `stored` is what the first
write of a file stored; `astray` ends the behaviour; `reused` and `starved` say that an operation met a file
without a free direct pointer, or that a write ran out of blocks.

### Shell

A line is a `Start`, then one action per argument, then `Finish` or a redirection,
as the loops of `commands.c` take them. Paths are sequences of characters here (of
`Char`, a set with the slash in it):
`str_process`, `rel_to_abs` and the cutting of `snprintf` are translated, and checked
against `Walk` and `Spell`, which do the same on names. The table is the set of
directory paths and the set of file paths. A creation may be refused for reasons
Namespace models; a deletion of a directory may too. `twice` holds the directories with more than one
entry: `create_dir` adds one, or, when `create_inode` finds no inode, gives the path to every
slot without a name (`spread`); `rmdir1` takes the first entry away and leaves the
others. `literal`, `cut` and `spread`
are history: an absolute path was typed that is not in normal form (it is taken as it
is), a path was stored shorter than it was, the `mkdir` under way named several slots.

### ClientServer

A connection is two queues of texts, `requests` and `answers`, with room for `Room`
texts each. `recv` and `read` take the first one or more of them, as many as have come
and fit the buffer; only the first text taken counts, because both sides use C
strings. What is not taken stays for the next read. A request line and a short answer
arrive in one piece, which is an assumption; the content of `ls`, whose size nothing bounds, is up to
`MaxPieces` texts (`Listing`), as many as the client's reads of 8192 bytes, or the segments
they meet, make of it. A `send` or `write` waits while the other side leaves no room; a client
whose `write` waits is still "typing" in the model.
`reply` is what the server still has to send, so other clients act
between two sends of one answer. `fresh` marks the request a client wrote
last; an answer without it belongs to an earlier line. `Sends` gives how many sends
each word causes, from the codes `handle_error` has a text for. The bodies of the
commands are comments in `server.c`: their results are any code it tests for.
Resets follow the sockets: a connection closed with something unread, or written
to after it was closed, is reset, and the next receive or send of the server may end
it. `fate`, `heard`, `split` and `mishaps` are history: `split` holds the clients
that were sent several texts for one request.

## Runs

| Run | Instance | Result |
|---|---|---|
| `bd_reliable` | 6 blocks, 2 reserved, block 5 beyond the bound of `modify_block`; 2 descriptors; no faults | `TypeOK`, `MapCoherent`, `ReservedWhole`, `HandedAllocated`, refinement of `BlockAllocator` hold |
| `bd_faults` | the same with failing reads and writes, of the header and the map too | `HandedAllocated` and the refinement hold; a failed load of the map at start-up may lose ownership, nothing else |
| `fs_pair` | two paths, three inodes (one is the root), three data blocks, sizes 1 and 2 | `TypeOK`, `NoSharing`, `NoDangling` hold |
| `fs_rewrite` | one path, two payloads, sizes 1 to 3, four data blocks, one beyond the bound | `Durable`, `NoLeak` hold |
| `fs_offline` | one path, one descriptor, one block beyond the bound, crashes | `WrittenThrough`, `CommandEnds` hold |
| `ns_tree` | `/`, `/a`, `/abc`, `/a/x`, three inodes, all crashes, image lost at any time | `TypeOK`, `TableOwnsInodes`, `StoredSurvives`, `NamesUnique`, `RmdirKeepsChildren`, `StartsInDirectory` hold |
| `lf_write` | two files of up to five blocks, three direct pointers and two in the indirect block, eight data blocks, one beyond `SIZE_OF_BLOCK` | `TypeOK`, `FirstWriteStored`, `MapIsOwned` hold |
| `sh_lines` | all commands, nine arguments (`a`, `bb`, `..`, `.`, `../a/`, `a//bb`, `/`, `/a/`, `//a`), paths of up to four characters | `TypeOK`, `RelativeLeadsThere`, `TableNormal`, `SecondEntryHasCause`, `WritesOneFile`, `PwdLostOnlyByRmdir` hold |
| `cs_serve` | two clients, two descriptors, lines `help`, `stop`, `ls`, `rm`, contents of up to two pieces, room for two texts in each direction | `TypeOK`, `WaitsOnlyForSilence`, `InStep`, `EndsOnlyByMishap`, `Answered`, `TurnComes` hold |

The remaining runs each show one disagreement between what the program says of
itself and what it does:

| Run | Property | What happens |
|---|---|---|
| `bd_usable` | `InitMeansUsable` | a host file without the header makes `load_filesystem` fail and leave its descriptor in `file_state`; `create_filesystem` then does nothing and reports success |
| `fs_shrink` | `WriteReadsBack` | a file that shrinks from three blocks to one keeps two (`inode.c:174`) |
| `fs_slots` | `CreateSucceeds` | removed slots are not used again; the new file is in no slot (`directories_and_files.c:61` and `:288`) |

Bounds. Three or four data blocks are enough for two files to compete for a block,
for one to run out, and for one block to lie beyond the bound of `modify_block`
and `delete_block`. One or two descriptors make every number of leaks up to
exhaustion reachable. Three inodes hold the root and two others, so an id can be
freed and taken by another name; two data blocks per file is the least with which
a file grows, shrinks and is overwritten; three is the least at which the range
released by a shrink is wrong. `fs_pair` and `fs_rewrite` explore only histories
in which no shrink, delete or create was cut short and the session is online
(`UncutAndOnline`): their properties say nothing of the others, and once offline
the image no longer changes until the restart. `fs_pair` uses the symmetry of the
two paths, which the specification never tells apart. `ns_tree` does not follow a
session without its image further once the root was removed (`RootWhileOffline`),
and ignores `cur_path` when it compares states (`WithoutPwd`): no other variable
depends on it. Of the properties its type and `StartsInDirectory` mention it; the latter
is a property of steps, which TLC checks on every step it computes, also those into states
it takes for known ones.

`lf_write` has two blocks behind the last direct pointer, so a file can end on either
side of it and the indirect block can hold one pointer or be full; eight blocks let
the second file run out half way, and the eighth is one that can be taken and neither
rewritten nor released. The local holds zeros, or names a block
of the same file, or one that is the other file's, or holds ints that are no blocks. `sh_lines` allows paths of four
characters: `/abb` and `/a/b` are cut forms of longer ones, so two paths can meet
by being cut, `//a` is looked for in the root under no name and stored as `/a`, and the constraint `Small` (four entries at most, second ones counted) keeps the number of
trees finite and small while leaving room for two directories and two files. In `cs_serve`
one client can wait while the other is served and two connections use up the
descriptors; the four words are one of each kind of answer (none, one that never
matches, any number of texts up to three, one or the end). Two texts of room are the least with
which one can be left for the next read behind one that is taken, and a content of two pieces with
an error before it is more than the room there is, so a `send` can wait. `touch`, `echo` and unknown words send
once or, after a code without a text, not at all, as `ls` does. Clients that
have left, or wait for an answer of no length, stop the system: only there deadlock
is not checked.

More disagreements of the same kind were met and have no run of their own:

* out of descriptors, `create_file` prints "file create success." and nothing
  reaches the image;
* a block with an id of `SIZE_OF_BLOCK` or more keeps its old contents when its file
  is written again (`filesystem_and_blocks.c:150`);
* the directory that `rmdir` removes may be the current one, which stays current
  (`directories_and_files.c:187`);
* `ls /a` shows the `c` of `/abc`: `list_dir` compares characters
  (`directories_and_files.c:87`);
* `mkdir a` is refused next to `abc`: `search_dir` looks for the name anywhere in the
  listing (`directories_and_files.c:117`);
* a `mkdir` that finds no free inode prints a failure and leaves its name in every unnamed slot
  (`directories_and_files.c:145`);
* an `ls` content longer than the client's buffer is taken by several reads, each printed
  as the answer to a line of its own (`client.c:60`).

Exemptions. `NoSharing`, `NoDangling` and `Durable` hold while no shrink, deletion
or creation was left unfinished. The code frees blocks before it writes the inode
that named them, and marks an inode before it writes it, so after such a crash an
old inode can name blocks of another file: the exemption is what is true of this
code, and a write that grows a file needs none. `NoLeak` holds when every operation ran to its
end. `Durable` covers the writes that could be carried out (`Complete`); the
others are the subject of `fs_shrink`, and of the note on ids above. `NamesUnique` and
`StartsInDirectory` hold without accidents: a creation cut short, a file that found no
slot, a root that was removed. `StoredSurvives` has one exemption, the removal of the
root: what is made after it can be given inode 0, which the slot of the new root
claims too. A removal counts by the path an inode was stored under. The
properties of LargeFile speak of histories in which no operation met a
file whose direct pointers are all taken: after that, the code follows
pointers nobody stored. The run does not go past such an operation (`FirstReuse`).
`MapIsOwned` claims the converse, no marked block without an owner, for ids below
`SIZE_OF_BLOCK` only, as `NoLeak` does: a block beyond it stays marked when its file is shrunk or
deleted (`filesystem_and_blocks.c:58`).
`RelativeLeadsThere` and `TableNormal` end where an absolute path is
typed that is not in normal form, or a path is cut. `SecondEntryHasCause` has three
exemptions. Two are steps at which the command looks for another path than it stores: a path
that is cut, and one like `//a` after `rmdir /`, when `search_dir` no longer finds the
root whose listing would have stopped it. The third is a `mkdir` that finds no free inode
and names every unnamed slot. `InStep` claims nothing for a client from the first
request on that it was sent several texts for, an error and a content or a content of several
pieces: what it leaves unread is the answer to its next line. `WaitsOnlyForSilence` and
`EndsOnlyByMishap` name the same cause: such a client types its next line too early, which may
be lost behind another, and when it leaves with something unread the connection is reset and ends the
server. `HandedAllocated` speaks of the map in memory only in sessions that recorded
the path of their image.

Fairness. `FileStore` has `WF_vars(Step)`: an operation under way
goes on or the process dies. There is one thread, and no step of an operation
waits for anything; nothing makes the user type a command, or the host restart
the program. `CommandEnds` is checked with it. `ClientServer` has weak fairness of
`Accept` and of `Serve`, since the server is one loop that blocks only in `accept` and
`recv`, or in a `send` without room, and of each client's `Read` or `ReadNothing`: a read returns once there is
something, or the other end is closed. Nobody has to connect, type or leave, so
`TurnComes` promises a client its turn only when all others have left.

## Proofs

`BlockDeviceProofs` proves, for every number of blocks, descriptor limit, content
and set of host faults that satisfy `DeviceAssumption` (there is a reserved and a
data area, the data area starts below `SIZE_OF_BLOCK`, and at least one descriptor
is to be had):

* `TypeCorrect`, `BlocksKept`, `ReservedTogether`, `MapsAgree`: the four invariants
  of `bd_reliable`;
* `ImplementsAllocator`: `Spec => AllocatorSpec`, with `handed` for `used` and
  `reissued` for `doubled`.

None of the invariants is inductive alone. That `handed` stays marked when the map
is rewritten from memory needs the map in memory to hold `handed` too, which at
start-up follows from the map on disk, and during `create_filesystem` from nothing
being handed out yet. `IInv` therefore adds `CreationInv` (what each phase of
creation and start-up may assume of the image) and `ReservedInv` (the reserved
blocks are whole in both maps). There is a lemma per group of actions
(`StartStep`, `HaltStep`, `ModifyStep`, `ReadStep`, `WriteStep`, `DeleteStep`),
each with a step per conjunct it can disturb. The refinement uses one more fact,
that a block `assign_block` finds free on disk is not in `handed`, which is
`HandedAllocated` again: the allocator can never hand out an owned block, because
the mark is on disk before the owner learns of the block.

Three modules prove every safety invariant of the `FileStore` runs, for every size of image,
number of inodes, set of paths and payloads, descriptor limit and size of file below the
twelfth block that satisfy `FileStoreAssumption` (blocks 1 and 2 are reserved, the data
area starts below `SIZE_OF_BLOCK`, which is at most the number of blocks, and `Sizes`
stays below the free pointer that ends each file). `Garbage` is any non-empty set of ints. Each invariant is inductive
relative to those before it:

* `FileStoreProofs`: `Base`, for `TypeCorrect` and `MemoryWrittenThrough`. The image is
  whole and its two maps agree (`DeviceInv`); each loop has its bounds (`OpInv`); the pointers on the
  image, and in memory while the image can be opened, are data blocks or 0 (`PointerInv`): an
  unset `block_id_buf`, which may be any int, reaches a pointer only after the image was lost; an inode has
  one slot and its bit is set (`TableInv`); memory mirrors the image but for the inode
  that is being written (`MirrorInv`).
* `FileStoreOwnership`: `Owned`, for `BlocksUnshared` and `BlocksMarked`. The image alone is not
  inductive: a write gives blocks to the inode in memory before it stores it. `InHand`
  says of that inode what `Marked` and `Unshared` say of those on the image: its blocks are
  marked, distinct and nobody else's. An operation that takes blocks away frees them
  before it stores the inode, and a creation sets the bit before it clears what the inode held; the
  inodes they work on are left out (`Firm`, `Settled`), and nothing is claimed once one of
  these was cut (`Safe`).
* `FileStoreContents`: `Shape`, `Content` and `Lasting`, for `WritesLast`. The pointers of
  each stored inode are set up to some index and 0 from there (`Packed`), and each loop of
  `write_file` leaves a known gap in them (`InShape`); the pieces written so far are in their
  blocks (`Content`); what was acknowledged is on the image, and no operation under way works
  on it (`Lasting`). That a write to another file leaves those blocks alone is `Unshared`.
* `FileStoreContents`, second part: `Accounted`, for `BlocksAccounted`. At every moment a marked block
  is answered for by an inode of the image, by the inode being written, or by the deletion that
  is still to reach it; `Emptied` says that nothing is left to delete when the bit is cleared.

`ClientServerProofs` proves, for any set of clients, any descriptor limit, any set
of words and any `MaxPieces` and `Room` from 1 on, the four invariants of `cs_serve`: `TypeCorrect`, `NoOtherDeadlock`
(`WaitsOnlyForSilence`), `AnswersInStep` and `StopsOnlyByMishap`. The inductive
invariant `IInv` adds to them: who is connected and served (`ConnectionInv`); that
every request under way ends in a zero byte, so that `stop\n` never arrives
(`ZeroInv`); that each client that is not in `split` has at most one thing
under way, a request, a reply or an answer, and nothing while it types (`Apace`, `StopAndWait`); what each `fate` says about the
queues (`FateInv`); and that a connection is found reset only after a kill, or a split answer to its client
(`ResetInv`). That the argument goes client by client is what lets a content of several
pieces hurt only the client it was for.

`NamespaceProofs` proves, for any number of inodes, any set of paths and any choice of
what occurs in or continues what (`Within`, `Leftover`):

* `TypeCorrect`, `InodesOwned` (`TableOwnsInodes`) and `ChildrenKept`
  (`RmdirKeepsChildren`) from `Base`, which is inductive: a slot is filled with an id
  whose bit was just set, and a removed slot gives its id up before the bit is cleared;
* `StoredSurvivesAlways` from `Saved`: between commands of a session that has its
  image, the bitmap in memory is the one on disk (`MapSaved`), what is in `kept` is on disk
  (`KeptOnDisk`) and in the table of a running session (`SlotIsKept`), and, until the root
  is removed, inode 0 is the root or nothing was ever created (`RootKept`);
* `NamesUniqueAlways` and `StartsWell` from `CleanInv`: without accidents the table and
  the live inodes of the image are the same set, with unique names on both
  sides, and slot 0 is the root (`Clean`).

`LargeFileProofs` proves, for any number of direct pointers, of pointers in an indirect
block, of blocks and of files (`LargeFileAssumption`: the blocks are finitely many and
none is 0; `SIZE_OF_BLOCK` is any number and `Garbage` any set of tables of ints), the three invariants of
`lf_write`: `TypeCorrect`, `FirstStored` (`FirstWriteStored`) and `MapOwned`
(`MapIsOwned`). `TypeCorrect` has no exemption: no pointer an inode keeps
leaves the data blocks, whatever ints the unset table holds, in every behaviour up to the
operation that overruns its locals. The other two follow from `Inv`, which says of each file, until an operation
meets a full one, that its pointers are set from the first on without a gap, that an indirect
block comes with a full row of direct ones and holds a table, that its slots (`Slots`, the
pieces and the indirect block) lie on marked blocks and no two on the same (`Good`), that no
block is a slot of two files (`Unshared`), and that each marked block below `SIZE_OF_BLOCK` is a
slot (`Accounted`).
The map and the pointers alone are not inductive: the next write could take the
indirect block for a free one, or find a gap below it. Writes that shorten, overwrite or delete are
one lemma (`Cuts`: the file keeps its first blocks and nobody else's are touched); the
one that grows is `GrowStep`. It rests on `TakenFacts`: the n-th lowest free block
exists for each n up to their number (`RankExists`), is free, and is another for each n.

`ShellProofs` proves, for any characters, any arguments and any `PathMax` that satisfy
`ShellAssumption` (the slash is a character, an argument is never empty), all
properties of `sh_lines`: `TypeCorrect`, `NormalForm` (`TableNormal`), `RelativePaths`
(`RelativeLeadsThere`), `OneFileWritten` (`WritesOneFile`), `PwdLost`
(`PwdLostOnlyByRmdir`) and `SecondEntry` (`SecondEntryHasCause`). The argument has
three parts:

* Folds. `str_process`, `rel_to_abs` and `Spell` fold over sequences. `FoldExists` shows that the
  function behind such a fold exists, `PrefixRuns` that its values at the prefixes are the
  run of its steps (`Runs`), and there is a lemma per fold (`StepFold`, `WalkFold`, `FlatFold`,
  `NamesFold`). Induction goes over sets of numbers (`LeastExists`, `UpTo`), since the
  library's induction takes an operator.
* Characters and names. `FlatNames`: spelling names and reading them back gives the names.
  `StepSpell` and `FoldedSteps`: the code's step on characters (take a name off at the last slash, or
  put one on) is the walk on names. `JoinIs`: what is stored, directory and name, is
  the path that was meant, unless it starts with two slashes; `StoredIs`: cut at `PathMax`.
* The invariant. `Inv` adds to `TypeOK`, `TableNormal` and `WritesOneFile` that every path fits
  `PathMax`, and that a line which is not redirected yet has written nothing.

The proof of `SecondEntry` corrected the property. It used to say that a directory gets a second
entry only by a cut, and TLC agreed, because no argument started with two slashes; the case the
proof could not close, `//a` after `rmdir /`, is a history of the program. The property names
it now, and `sh_lines` has the argument. The third cause, no free inode, is in the source
(`directories_and_files.c:145-160`) and in `create_dir`.

Only model-checked: the three findings, which are histories and not
theorems, and liveness (`CommandEnds`, `Answered`, `TurnComes`), which is beyond the prover
together with `ENABLED`.

## Not modelled

* Crashes inside operations on files of 12 blocks and more. What such operations do
  once they met a file without a free direct pointer is modelled and not followed; what an
  operation does that overruns its locals is not modelled (`Stray`).
* Request lines and short answers that arrive in two pieces.
* Lines as characters: the division of a line into words, a lone `"` as an argument,
  lines of 99 characters and more (which become two), and the end of the input,
  after which `main.c` carries out its last line for ever.
* What files hold, in `Shell` and `Namespace`; text left over in the buffer of a name.
* Memory errors inside the process: `read_file` copies whole blocks into a buffer of
  the size of the file, so a `cat` can end the process; ending at any time is
  covered by `Crash`, other effects are not.
* `modify_super_block`, `read_super_block`, `search_empty`: called from nowhere.
* What the commands of the server do: at this commit `server.c` has comments in their
  place and does not compile. Its start (socket, bind, listen, the fork into the
  background) and clients other than `client.c`, which could send `stop` with its
  newline.
* FileStore starts from an image that was created completely and loads it without
  host faults; what happens otherwise is the subject of `BlockDevice`.
* The build file.

## Plan

Done: `BlockDevice` with its abstract specification, `FileStore`, `Namespace`,
`LargeFile`, `Shell` and `ClientServer`, each with proofs of all its safety properties.

Left, in this order:

1. An abstract file store (a map from path to contents) that `FileStore` implements
   outside the exemptions above, with the refinement proved.
2. `Shell` over `Namespace` by `INSTANCE`, paths as names below and as characters above.
