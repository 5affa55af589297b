# A TLA+ model of ChthonOS

ChthonOS is a small AArch64 kernel: a message interface between a shell and the
kernel, a process table with a cooperative scheduler, two in-memory file systems
behind a VFS, and per-process namespaces. This directory holds TLA+ modules for
its parts, TLC configurations that check them on small instances, and TLAPS
proofs of the properties that matter most.

## The system and its parts

| Part | State | Operations | What is hard about it |
|---|---|---|---|
| AbyssFS (`src/src/fs/abyssfs.c`) | inode table, block bitmap, free block counter, one block of entries per directory | create, open, read, write, read_dir, mkdir, unlink, remove_recursive | inodes and blocks are reused without being cleared, allocations are not undone when a later step fails, entries are scanned by their own length fields |
| Process table and scheduler (`process.c`, `context_switch.S`) | `processes[]`, the process list, saved contexts, `current_process` | process_create, fork, exec, wait, exit, schedule | what was read before `schedule()` is used after it; two descriptions of one context; a table with a fixed size |
| Message queues (`message.c`) | a ring per process, `msg_blocked` | queue_message, receive_message | the ring wraps and fills; the mark and the ring may disagree |
| Kernel heap (`kmalloc.c`) | `heap_pos` | kalloc, kfree | nothing is ever given back |
| Message dispatch (`send_message`) | none of its own | one case per message type | several calls in a row, each of which may fail |
| VFS (`vfs.c`) | mounts, descriptor table | open, read, write, close, create, unlink, mkdir, read_dir, remove_recursive | descriptors are not reused; each operation makes its path in its own way |
| RamFS (`ramfs.c`) | 16 file slots | create, open, read, write, unlink, mkdir, read_dir | a slot is reused while a file still points to it |
| Namespaces (`namespace.c`) | a list of bindings per process | bind, unbind | every binding and every resolution takes heap |
| Path handling (`vfs.c`, `ramfs.c`, `string.c`) | none | full path, normalize, find_mount, is_file_in_dir | prefixes that end inside a component |
| System calls and exceptions (`exceptions.c`, `exceptions.S`) | saved registers | handle_sync_exception | what becomes of a negative result |
| User shell (`user_shell.S`) | line buffer | read, parse, call, print | it is the only client of the system calls |
| Drivers, MMU, start-up | device registers | | no state that changes after start-up; the timer handler does not call `schedule()` |

`PROJECT.json` lists all parts with their files, the hazards at their lines, and
the definition that models each piece of code.

## Modules

| Module | Models | 
|---|---|
| `Kmalloc`, `KmallocProofs` | `kalloc`, `kfree` |
| `MessageFifo` | what a message queue promises: a bounded first-in first-out queue |
| `MessageQueue`, `MessageQueueProofs` | the ring that implements it |
| `Process`, `ProcessProofs` | process table, scheduler, context switch, fork, exec, wait, exit; composed with `MessageQueue` by `INSTANCE` |
| `AbyssFS`, `AbyssFSProofs` | the file system |
| `Paths` | paths, `vfs_normalize_path`, and what a path means component by component |
| `FileStore` | what RamFS promises: named files, changed only through files opened on them |
| `RamFS`, `RamFSProofs` | the table of slots that implements it |
| `Descriptors`, `DescriptorProofs` | the descriptor table of the VFS, and what a copy or a move holds of it |
| `Files`, `FilesProofs` | VFS, namespaces and the file messages of `send_message`, over `AbyssFS` and `RamFS` by `INSTANCE` |
| `Shell`, `ShellProofs` | the user shell and the system call path under it |
| `MC_*` | the constants of the runs |

### Kmalloc

`heap_pos` is the variable of the code; `given` and `freed` record the areas that
were returned and handed back. Addresses are offsets in `heap[]`, sums are taken
modulo `SIZE_MOD` (2^64). Assumption: no caller asks for a size that makes
`heap_pos + size` wrap; every call passes the size of a structure, of a path or of
the file system's blocks.

### MessageQueue

`messages`, `head`, `tail`, `count` and `msg_blocked` are the fields of
`struct process` and `struct message_queue`. `out` is the buffer of the last
receive, `res` what the last call returned. A receive on an empty queue returns
-1 even when the caller asked to wait; the call of `schedule()` in between is
modelled in `Process`.

### Process

One action per call that a process makes. A call that goes through `schedule()`
is two actions: up to the switch (`msg_wait`, `receive_message`), and what is done
after the process is switched in again (`msg_wait_resumed`, `receive_resumed`);
`at` says where a process is. Nothing preempts. The next process, and the child
or parent a loop looks for, are the first ones along the `next` pointers
(`First`).

`context_t` puts `pc`, `sp` and `lr` in words 0, 1 and 2. `context_switch.S` keeps
`x30` in word 11 and `sp` in word 12. A context is therefore modelled as an array
of words, and each word says what it holds and whose it is. `LR_WORD` and
`SP_WORD` are the words the assembler uses. With 11 and 12, the program as it
is, the first switch to a forked process goes wrong (`cpu = "wild"`). Such a
state is final, and so is `"hang"` (the endless loop of `schedule()`). To examine the
scheduling code behind that point the run `process` sets them to 2 and 1, the layout
of `context_t`. What that run shows is therefore about the scheduling code with that
mismatch repaired; the theorems are for all words, 11 and 12 included.

`create_process` does not ask whether `processes[]` has a slot left. `msg_fork` does the
same in the memory behind the table (`BEHIND`): count, pid, parent, list and
context change as for any other child. In `kernel.elf` that memory is the stack of
slot 0, so that what is written there does not last; the model marks the step
(`cpu = "overrun"`) and stops behind it.

The user shell sends neither MSG_FORK nor MSG_WAIT; the
clients of this module are the tests in `kernel.c` and the test processes.

### AbyssFS

A path is the sequence of its components. A directory is the sequence of entries
a scan of its block finds; bytes are grouped in units of 256, since the
`rec_len` of a fresh `..` entry makes the scan go on at byte 256. Start-up has
run `test_abyssfs`, so that `hello.txt` is there with inode 2.

`fault` is set when the bytes scanned are no longer the entries the model keeps:
a file's bytes are taken for entries (`file_as_dir`), a directory block is full
(`dir_full`), a fresh directory runs into old bytes (`stale_dir`), or the root has
been removed (`root_removed`). The model is exact up to and including the step that
sets it, and stops there.

`file` is the file a caller holds between a create and the writes of a copy or
move. After start-up every file is empty. Buffers with content come from the
interface: MSG_COPY and MSG_MOVE write what they have read.

### Paths

A path is a sequence of tokens: `/`, names, `.` and `..`. Tokens that stand together
make one name, so that `/tmpx` begins with `/tmp` as it does for `strncmp`, and `a..`
ends in two dots that are not a component. `vfs_normalize_path` is its loop, one turn
per token. The reference is `Destination`: take the path apart as `strtok_r` does, skip
`.` and go up at `..` (`Walk`). One thing is not as a reader of the comments would expect:
the code looks for dots that end a component and not at what is before them. `AsTaken`
says what that amounts to: in `/d/a..` the name disappears and the path is `/d`, and
`/d/a.` is `/d/a`. Where dots are components of their own it changes nothing. Paths fit in the arrays that hold them: `strcpy` and `strcat` into
`full_path` are not bounded by the code, and what they do beyond the end is not modelled.

### RamFS

`files` is the table; a slot without a path is an unused one. Its array keeps the
bytes of the last file, as in the code, because an open file may still lead there.
Bytes are units, 0 is the `'\0'`. A `vfs_file` is a handle with slot and `f_pos`. `live` is
not in the code: it records that the file has not been removed since it was opened,
which is the condition under which `FileStore` promises anything to its holder.
`kalloc` may refuse at any time (`mem`).

### Files

One process, the shell, sends messages, and `send_message` runs to its end before
the next one. Messages that make one call to the VFS are one action. MSG_COPY and
MSG_MOVE are one action per call (`OpenSource`, `CreateDestination`, `CopyChunk`,
`EndOfSource`, `CloseBoth`, `UnlinkSource`, `UnlinkDestination`); `call.pc` says which
is next, and `call.before` keeps the RamFS that the message found, for the
properties. The operations of both file systems are the operators of `AbyssFS` and
`RamFS`, not copies of them. `remove_recursive` is `rm -r` of the kernel's own shell.

`create_test_file` is the `ramfs_create_file` of the test processes. These and the
tests in `kernel.c` are the only code that gives a file contents of its own, and
`kernel_main` as it stands starts none of them: with the user shell alone every file
is empty, and a copy or a move has nothing to carry over. What `files` says about
contents (`CopyIsExact`, `MoveMoves`) is therefore about the kernel with its tests
enabled; what it says about paths, descriptors and bindings is about both.

The start is `vfs_init`: AbyssFS with `hello.txt`, RamFS empty, the two mount points.
Names that AbyssFS is to create are single tokens. A `read_dir` that takes the
bytes of a file for entries is left out (`LEFT_OUT`), and nothing follows an AbyssFS
`fault`.

### Shell

The line is `input_buffer` with its length `x3`; `sp` counts the bytes the shell has
taken from its stack, `x9` is the path register of `ls`. A command name is one
character of the line, as are a space and a letter. A command takes the line apart
in place, as the code does, and puts indices of the buffer into the message; the
strings the kernel finds there are read from the buffer. `pc` is `input` (waiting
for a key), `command` (after Enter), `kernel` (inside `svc`), `returned` and `halted`.

A register is a pair of halves, so that `(uint64_t)result` of a negative `int` and the
test of the upper half in `sync_handler` are what they are in the code. What the
file systems answer is a choice: 0 or -1, or a number of entries. `SYS_PUTC` always
returns 0 and changes nothing, so that printing is a part of the step that does it.
`said`, `typed`, `res` and `entry_count` only record what the properties are about.

## Runs

| Run | Checks | Shows |
|---|---|---|
| `heap` | TypeOK, AreasDisjoint, RefusalIsFinal | areas never overlap or leave the heap; a size refused once is refused for ever |
| `queue` | TypeOK, RingOK, BlockedOnlyWhenEmpty, FifoSpec | the ring implements `MessageFifo` |
| `process` | TypeOK, RunningIsCurrent, ListOK, WaitFindsChild, NoLostWakeup, SuspendedKeepContext, ZombieForEver | table, list and scheduler agree, up to the fork beyond the last slot and with it; a wait that blocked finds its child, only `process_exit` loses a wake-up, and a process that is switched out keeps the context it is to go on from |
| `abyssfs` | TypeOK, Tree, BlockOwnership, FreeCount, RootLinks, OrphansOnlyFromFailureOrRemoval, OneSubtreePerStep | bitmap, counter and inode table agree until the inodes run out, the reachable inodes form a tree, and an operation disturbs one path |
| `ramfs` | TypeOK, PositionInFile, ListsChildren, IsFileStore | the slots implement `FileStore`, slots that are reused under an open file included, and a directory lists its children |
| `files` | TypeOK, CopyIsExact, TransferTouchesNoOther, MoveMoves, NoDescriptorLeak, ClosedStaysClosed, NoFileWithoutDescriptor, CdWalks, LatestBindingWins, TransferReturns | what a copy or a move leaves on each way out, that the current directory is where its `cd`s lead, that the newest binding counts, and that transfers end |
| `shell` | TypeOK, StackBalanced, ArgumentsArrive, ListsAllOrNothing, AnswersOrHalts | arguments arrive as they were typed, the stack is whole at the prompt, a line is answered or the system halts |

Five runs show a disagreement between the code and what the repository says of it:

| Run | Property | What TLC finds |
|---|---|---|
| `process_switch` | SwitchesAreSound | the first switch to a forked process loads `x30` and `sp` from words nobody wrote |
| `abyssfs_remove` | RemovedIsGone | a path created twice is still there after it was removed |
| `files_remove` | RemovesNamedFile | `rm hello.txt` in `/d` removes `/hello.txt`: `vfs_unlink` hands on the path as it came |
| `files_bind` | OpenShowsSource | after a bind, opening a file below the new path opens inode 0 of AbyssFS: `resolve_path` goes from old to new, `resolve_namespace_path` from new to old |
| `shell_syscall` | SyscallResultFits | a message that fails halts the system |

`StackBalanced` holds only because of what `shell_syscall` shows: the error exits of
the shell do not give the stack back, but no negative result ever reaches them.

Behaviour that can be read off the models and has no run of its own:

- A file of the root, created while the process is in another directory, goes to that
  directory (`CreateDir`).
- A directory made in a block that a removed file had filled goes on into the
  file's bytes (`Stale`, `mkdir_with_inode`).
- The fork after the last slot writes past `processes[]`, and MSG_FORK returns 0 to the
  parent all the same (`msg_fork`, `BEHIND`).
- `cd /d/a..` goes to `/d` and `cd /d/a.` to `/d/a`, whether there are files of these names or
  not (`vfs_normalize_path`, `AsTaken`).
- `ls` with spaces and no path uses the path register as an earlier `ls` left it (`ls`); a
  directory with more entries than fit is called empty (`handle_read_dir_message`).
- `cd` to a path in `/tmp` that does not exist succeeds, since `ramfs_read_dir` lists `.` and
  `..` for every path (`MSG_CHDIR`).
- `abyssfs_open` gives every file inode 0, which is empty: a copy of an AbyssFS file has no
  contents, and a move then removes the source (`vfs_open`, `vfs_read`).
- `abyssfs_write` starts at the block's first byte each time and does not look at `f_pos`: a
  copy in several chunks keeps the last one (`vfs_write`).
- The `vfs_unlink` that takes a failed move back removes the first file of the
  destination's path, which may be an older one (`UnlinkDestination`).
- When no descriptor is left, `vfs_create` returns -1 and the file stays (`alloc_fd`).

### Bounds

- `heap`: 5 bytes and sizes 0, 1, 2, 5, 6: a size that fits exactly, one that is a
  byte too large, and every way of filling the heap.
- `queue`: two queues of three slots and two messages: full, empty, and `head`
  and `tail` all the way round. Processes and messages are symmetric.
- `process`: the shell and two slots, so that a parent, its child and a grandchild can
  wait for each other, and a queue of one message. `process_switch`: the four slots
  and the words of the code.
- `abyssfs`: two inodes besides inode 0 and the root's, one of them `hello.txt`'s, and three
  data blocks, so that inodes run out before all paths exist; paths of up to three
  components, through `..` and through a file. There is a block for every free inode, so
  that blocks do not run out first; they do in `files`, which has one free block for three
  inodes, and the theorems about blocks hold for any numbers. `MAX_SIZE` bounds the size that
  repeated writes reach.
- `ramfs`: two slots of two units, two open files: enough for a slot that is
  reused under an open file while the other open file is on the new one. The two paths
  are `/tmp/a/b` and `/tmp/ab`.
- `files`: three descriptors, two slots of three units and chunks of one, so that a copy
  takes several turns, slots and descriptors run out, and a transfer begins with one
  descriptor left; two bindings at one path; `cd` up, down, through `//` and `.` and with
  names that end in `.` and `..`, between `/` and `/d` (not into `/tmp`, which would double
  the states); a move and a copy from one RamFS file to another, a move in each
  direction between the file systems, and one that cannot remove its source.
- `shell`: lines of up to six characters, enough for two words of different
  lengths, or for spaces before, between and behind them; the rest of the line typed
  before stays in the buffer. `HALF` is 8 for 2^32, and directories have up to three
  entries of which two fit, for 32 and 15.

Deadlock is not checked for `Process`, `AbyssFS`, `Files` and `Shell`, which have final
states; the other runs check it.

Fairness: `Shell` has weak fairness of `Step`, the steps the processor takes on
its own. Nothing interrupts the shell, since `enter_usermode` masks interrupts, and
only the shell runs. Typing has no fairness. `Files` has weak fairness of
`Transfer`, the steps of a copy or a move that has begun: `send_message` runs on by itself,
and nothing preempts it. That a message comes has no fairness. The other modules
need none: every call is made by a process that may also not make it.

## Proofs

All theorems hold for every value of the constants that satisfies the named
assumptions.

- `KmallocProofs`: `HeapTypes`, `AreasAreDisjoint` and `RefusalsAreFinal`. `AreasDisjoint`
  is not inductive; with `BelowPos` (every area ends at or below `heap_pos`) it is.
- `MessageQueueProofs`: `QueueTypes`, `RingIsConsistent`, `BlockedHaveNoMessage`, and `RingImplementsFifo`, the
  refinement. The mapping reads the ring from `head`. The argument: a send writes
  the slot just behind the occupied ones, so it appends; a receive drops the first.
  It needs `tail = head + count` round the ring, which is part of `RingOK`.
- `AbyssFSProofs`: `AbyssTypes`, `BlocksAreAccountedFor`, `FreeBlocksAreCounted` and
  `RootEntriesLeadToLiveInodes`.
  `BlockOwnership` is not inductive alone: `free_block` does not look at the bitmap,
  so one needs to know that an entry leads to an inode in use (`RootLinks`), and that
  a file being written is in use (`HeldFileLive`). `FreeCount` then follows step by
  step, because each operation sets or clears the bit of exactly one block whose
  bit was the other way before. `FreeCount` also records that the counter
  is one too high from start-up on.
- `ProcessProofs`: `ProcessTypes`, `TableIsConsistent`, `OnlyCurrentRuns`, `WaitsEndWell`,
  `WaitsFindTheirChild`, `ZombiesStay`, `SuspendedGoOn`, and `ForkedNeverRun`.
  The inductive invariant adds to the checked ones that a process that is not on the
  list is as start-up left it (`Untouched`; a fork would otherwise enter one in any
  state), and that a process inside MSG_WAIT is blocked or has a child to find
  (`WaitersServed`; from it follows `WaitFindsChild`). `SuspendedGoOn` rests on two
  facts about who touches a context: exec changes only the one of the process on the
  processor, and a fork only that of a process that was not on the list before, which has never
  been switched out. `ForkedNeverRun` says what the mismatch of words means: when
  `x30` comes from a word of `x[]` (11 in the code), only the shell ever runs. Its
  invariant, `NowhereToGo`: that word of every context is 0 or holds the address where
  the shell last called `schedule()`.
- `RamFSProofs`: `RamTypes`, `PositionsStayInFiles`, and `RamImplementsStore`, the
  refinement. The mapping takes the first `size` units of a used slot's array. What has to
  be shown is that a write leaves no gap, whatever is in the array behind the end:
  an open file whose file is not removed keeps its slot in use, so that no create
  sets the size back under it, and its position is at most the size (`PositionInFile`).
- `DescriptorProofs` and `FilesProofs`: `DescriptorsAreNotReused` and
  `TransfersCloseDescriptors`. The invariant: descriptors from `next_fd` on are empty,
  and a transfer holds the descriptors it was given, the destination's behind the
  source's. `DescriptorProofs` shows for each kind of step (take one, read, close both...)
  what it does to the table, `FilesProofs` that each message is one of these kinds,
  whatever the file systems answer.
- `ShellProofs`: `PromptsWithWholeStack` and `HaltsOnlyAfterFailure`. While a message is in the kernel the stack
  holds the frame of its command (`Frame`), and the shell goes on only with a result
  whose upper half is 0, which its `blt` does not take for negative.

Only model-checked: liveness (`AnswersOrHalts`, `TransferReturns`), `Tree`,
`OneSubtreePerStep` and `OrphansOnlyFromFailureOrRemoval` (they need induction over
paths), `ArgumentsArrive`, `CdWalks` and `ListsChildren` (loops over a line or a path), and
what transfers and bindings do (`CopyIsExact`, `TransferTouchesNoOther`, `MoveMoves`,
`NoFileWithoutDescriptor`, `LatestBindingWins`), which rests on both file systems or on
a list of bindings. `HaltsOnlyOnFailure` is the other way round: it is proved, and no
run checks it.

## Not modelled

- Exceptions other than system calls: they print and halt.
- The kernel shell (`shell.c`): its call in `kernel_main` is commented out. Of its
  commands `rm -r` is in `Files`. Its `cp` and `mv` are not MSG_COPY and MSG_MOVE and have
  no model: `cmd_cp` closes neither descriptor, and `cmd_mv` removes the source whether
  the copy worked or not. What `files` shows about transfers does not hold for them.
- Functions without a caller, or called only by one of these: `ramfs_read_file`, `register_filesystem`, `get_fs_file`,
  `abyssfs_create_file`, `allocate_blocks`, and in `process.c` `init_process`, `load_program`,
  `exec_process`, `wait_for_child`, `switch_to_process`, `init_processes` and the fork and wait
  handlers that `send_message` does not use. `wait_for_child` and `handle_wait_message` also
  call `schedule()`.
- The character loops of `string.c`: the models use what the functions compute.
- Device drivers, the MMU tables and start-up code: register writes, and no state
  that changes afterwards. The timer handler does not call `schedule()`.
- Files of several processes at once: the descriptor table is global in the
  code, so that another process would be one more sender of the same messages.
- The shell over `Files`: `Shell` takes the answer of a message as a choice, which
  includes every answer that `Files` gives.
