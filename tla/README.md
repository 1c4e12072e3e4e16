# A verification development of fuseadf

fuseadf mounts the volume of an Amiga disk image as a FUSE file system. FUSE
calls its handlers (`src/src/adffs.c`), the handlers call `src/src/adfimage.c`,
and that calls ADFlib, an external library, on a mounted volume. These modules
model the handlers, the command line, the life of the process, the data of files
and the path strings, check them with TLC on small instances and prove part of
what is checked with TLAPS. Source paths below are relative to `src/` of the
repository's tree (`src/adfimage.c` is `src/src/adfimage.c`).

## The system

| Part | State | Operations | Hard behaviour |
| --- | --- | --- | --- |
| FUSE handlers, `src/adffs.c` | none of their own | one function per FUSE operation, listed in `adffs_oper` | each is a sequence of library calls that share the volume's current directory; error paths return half-way |
| Image, `src/adfimage.c` | `adfimage->cwd`, a string; `vol->curDirPtr`, ADFlib's current directory | `adfimage_chdir`, `_getdentry`, `_file_open`, `_read`, `_write`, `_readlink`, `_mkdir`, `_remove_entry`, `_create`, `_file_truncate`, `_file_rename`, `_count_*_entries`, `_getperm`, `_setperm` | the two pieces of state are meant to agree and do not always; results of `adfimage_chdir` are ignored |
| Open and close, `src/adfimage.c` 33-119, 972-1059, `adffs_init`, `adffs_destroy` | device, volume, library | open, mount, check the bitmap, undo on failure | each step may fail after the ones before it have succeeded |
| Command line, `src/fuseadf.c` | `argv`, `optind`, the options | `parse_args`, `drop_arg(s)`, `add_arg` | the vector getopt walks is edited under it |
| Path strings, `src/util.h` | a buffer | split, shorten, convert `..` | loops that edit the buffer they search |
| Time conversion, `src/adffs_util.c` | none | one call of `mktime` | none |
| Logging, `src/adffs_log.c`, `src/log.c` | one `FILE *` | print | none |
| Process, `src/fuseadf.c` `main` | the log, the options, the image | log, image, FUSE, in this order | may be killed while it writes, and started again on the same image |
| ADFlib (external) | blocks of the volume | directories, links, files | may refuse any change; compares names without regard to case |

How they interact: `main` parses the options, adds `-s` ("enforce
single-threaded FUSE mode"), opens the image and hands control to FUSE. FUSE
then calls a handler per request. A handler changes the volume's current
directory to the directory it needs, name by name (`adfimage_chdir`), calls
ADFlib there, and goes back to `adfimage->cwd`, or to the root
(`adfToRootDir`, which does not touch `cwd`), or, on an error path, nowhere.
Nothing else connects two requests, and this is what can go wrong: a request
finds the state an earlier one left, at any of its error returns. When the file
system is unmounted FUSE calls `adffs_destroy`, which closes the image and the
log. A killed process runs none of this; the next one finds the image as it is,
and `adfimage_open` decides by the flag of its allocation bitmap whether it may
be written to.

What makes the parts correct:

- handlers: a request acts on the entry its path names, whatever happened
  before; a failed request changes nothing; only the directories named change;
  every request is answered; the answers are those of a file system that has no
  current directory at all.
- permissions: what a chmod grants can be seen afterwards, what it denies is
  gone, and nothing else changes (the last two do not hold).
- process: a failure leaves nothing open and closes in the reverse order; a
  damaged volume is not written to; a read-only mount writes nothing.
- data: bytes are read and written at the offset asked for, and only those.
- command line: what is parsed is what FUSE and the image get; `-s` is there.
- path strings: a path is walked as its sequence of names, `cwd` can be walked
  again, and the conversions end.

## Modules

| Module | Role |
| --- | --- |
| `AdfVolume` | ADFlib as fuseadf uses it: the tree of a volume, lookups, changes (external) |
| `Adffs` | the handlers, as steps on the shared current directory; their properties |
| `PathFs` | the abstract specification: requests served in one step, by path |
| `MCAdffs`, `MCAdffsLinks` | two families of small volumes and requests |
| `AdffsClaims` | what comments and tests say of the handlers and does not hold |
| `AdffsProofs` | type correctness and liveness of the current directory, proved |
| `AdffsPathProofs` | that the handlers act where their paths lead, proved |
| `AdffsRefinement` | that `Adffs` implements `PathFs`, proved |
| `AdfPerms`, `MCAdfPerms`, `AdfPermsProofs` | the translation of permissions |
| `FuseadfArgs`, `MCFuseadfArgs` | the command line: `parse_args` and what `main` gives to FUSE |
| `FuseadfArgsProofs` | that `argv` stays a terminated vector, and that a plain line is served, read and refused as it stands, proved |
| `FileIO` | read, write, truncate, getattr and statfs on the bytes of one file |
| `AdfMount` | the life of a process around them: open, clean up, serve, close, crash, restart |
| `ImageStore` | the abstract specification of `AdfMount`: sessions in which a file is read and written |
| `MCAdfMount` | small files and words |
| `AdfMountProofs`, `AdfMountRefinement` | the resources, the bitmap and the types; that `AdfMount` implements `ImageStore` |
| `PathStr` | paths as strings: `util.h`, `adfimage_chdir`, `append_dir` |
| `PathNames` | the abstract specification of `PathStr`: paths as sequences of names |
| `MCPathStr` | paths of up to three names, dots among them |
| `PathStrProofs` | that strings of any length are walked, recorded and walked again as their names, proved |

The composition: `AdfMount` runs `FileIO` while it serves. `Adffs` is what the
requests do before they reach the data, and takes two things for granted that
the other modules establish: that a path is a sequence of names (`PathStr`
implements `PathNames`, whose `Enter`, `ChangeDir`, `Stop` and `Back` are the
walk of `Adffs`) and that the volume is in the mode it was mounted in
(`AdfMount`, for its constant `ReadOnly`). `-s`, its constant `SingleThreaded`,
is what `FuseadfArgs` is about.

### `AdfVolume`

`kind[s]` is what the block in sector `s` holds and `entry[s]` the hash table of
a directory, from names to sectors. Hard links are blocks of their own (`ldir`,
`lfile`) and `Real` gives the sector they refer to. `Fold` is ADFlib's notion of
"the same name": `adfChangeDir`, `adfFileOpen` and the changing calls compare
folded names, `adflib_list_find` in fuseadf exact ones. `CreateEntry`,
`RemoveEntry` and `RenameEntry` are what a successful call does; the callers
add that the library may refuse.

Assumed of ADFlib, from how the code uses it: a call that fails leaves the
entries alone, names that differ in case only are never together in one
directory, and on the image mounted every entry has a block of its own, of a kind
fuseadf knows (the case `ADFVOLUME_DENTRY_UNKNOWN` of `adffs_getattr` is left out).
The blocks of directories can be read: `adfChangeDir` fails when there is no such
directory to enter, never for one that is there (`src/adfimage.c:399`, `406`);
`adfReadEntryBlock` gives readlink the current directory (`src/adfimage.c:601`); and
`adfGetDirEnt` returns NULL for an empty directory only (`src/adfimage.c:268`,
`src/adffs.c:418`), where the code cannot tell an I/O error from an empty directory
and readdir would show one. Blocks, the bitmap, caches and file data are not
modelled.

### `Adffs`

| Variable | In the code |
| --- | --- |
| `kind`, `entry` | the volume |
| `curDir` | `vol->curDirPtr` |
| `cwd` | `adfimage->cwd`, as a sequence of names (`<<>>` is `/`) |
| `call[t]` | the locals of the handler thread `t` runs: the request, the names `adfimage_chdir` has still to enter (`todo`), the copy of `cwd` (`saved`), the entry found |

A request begins with an action of `Begin` (one per group of handlers with the
same beginning), walks by `ChangeDir` (one name each), `ChdirFails` or
`ChdirIgnored` (the caller does not look at the result), does its work where it
has arrived (`OpenFile`, `ReadLink`, `ListDir`, `MakeDir`, `CreateFile`,
`RemoveIt`, `Find`, `StatEntry`, ...), may walk back, ends in phase `done` with
what it returns in `status`, and is forgotten by `Reply`.

Reductions:

- A path is a sequence of names: FUSE passes absolute paths without `.`, `..`
  or empty components, for which `path_create`, `dirname` and `basename` split
  as `Dirname` and `Basename` do. Rename is modelled for directories whose names
  have no `..` at an end: `PathStr` shows what happens for the others.
- open, read, write and truncate share their actions: they differ in what they
  return and in the mode the file is opened with. What they do with its data is
  `FileIO`; which file is opened is here.
- The library may refuse to open, create, remove or rename for reasons of its
  own (protection bits, I/O, no space): a choice of each such action.
- `adffs_statfs`, `_chown` and `_utimens` touch nothing and are left out
  (the mode statfs shows is in `FileIO`).
- mkdir, create, rmdir and unlink of `/` return at once (`src/adfimage.c:674`,
  `716`, `783`); the kernel never sends them, and they are left out.
- Memory is never short, and a leaked buffer is not state.
- `KernelChecked`: chmod and rename arrive for paths whose directory exists,
  because the kernel has looked the path up (with getattr) before. Without it
  `adfimage_getdentry`, which ignores a failed walk (`src/adfimage.c:262`), may find
  an entry of the directory where the walk stopped. It holds in every run and the
  proofs assume it where they say so: what chmod and rename do after a failed walk
  is not checked by any property.

### `PathFs`

The same requests without a current directory: `Serve(t)` answers thread `t` in
one step, against the tree as it is, and `Forget(t)` drops the answer. It says
which entry, file or directory an answer is about, by `Leads`, the resolution of
a path from the root; when a request may be refused; and that a refused one
leaves the tree alone. `Adffs` implements it under the mapping in which the
answer of a thread is its frame once the frame is done, and nothing before. The
step that finishes a handler maps to `Serve`, `Reply` to `Forget`, every other
step to a stutter. What the library allows is not promised: in `PathFs` an
operation on a file may fail without reason. The size of `/` is not promised
either (see the findings).

### `AdfPerms`

The access word of an entry as the set of its bits, and the last mode asked for
with chmod. `Masked` is one of the three statements of `adfimage_setperm`:
`access &= !MASK` clears the whole word, since `!MASK` is 0.

### `FuseadfArgs`

`argv` is a function from indices to words, `argc` and `optind` are the code's,
`rest` and `skipped` are getopt's own: the letters of the word it is in, and the
operands it has passed. A word is its option letters and the value written with
them; getopt takes a whole word for a value, and an option's word read as one is
just a text with a dash (`Text`). `Getopt` gives the result of one call of the GNU C
library's getopt, which moves operands behind options as it goes and starts over
when it finds `optind` 0. `Number` is what strtoul reads and `Volume` what is left of
it in an `unsigned int` of `UInt` values (`src/fuseadf.c:184`), before it is compared
with 10. `Realpath` says which words name a path, and `Resolved` is that path, or
NULL: `main` notes it as the mount point and looks at it no more, while FUSE gets the
word as it was written (`src/fuseadf.c:254-262`). `ParseArgs` is one turn of the loop in `parse_args`: each of its actions is
one case of the switch, with the words it drops. `FuseMain` is the rest of
`main`: `-s` is added if it was not noted. The log and the image in between are
`AdfMount`, the messages are left out, and `--` is not among the words.

### `FileIO`, `AdfMount` and `ImageStore`

| Variable | In the code |
| --- | --- |
| `file` | the bytes of one file on the volume |
| `answer` | what the last handler returned, with the arguments it had |
| `pc` | the call `main`, `adfimage_open` or `adfimage_close` makes next |
| `logging`, `readOnly` | `options.logging_file`, `! options.write_mode` |
| `held` | what is open: the log, ADFlib, the device, its mount, the volume, `adfimage` |
| `devRO` | `dev->readOnly`, which ADFlib may set for a device it cannot write |
| `bitmap` | the root block's `bmFlag` is `ADF_BM_VALID` |

An action is one call that acquires or gives back a resource, with its success
and its failure as disjuncts; the labels `undo_vol`, `undo_dev` and `undo_lib`
are the clean-up labels of `adfimage_open` and fall through as they do. `Request`
is a handler of `FileIO` from the arguments to the answer: under `-s` nothing
comes between. A request may fail to open its file, a read or write may stop
short, and `Narrow` is the cast to `unsigned`. `Crash` kills the process at any
step, also in the middle of a write or a truncate (`Interrupted`); `Restart` starts it again with any options; `Repair` rebuilds the bitmap of
an image that is not mounted.

Assumed of ADFlib: a seek behind the end goes to the end; a truncate that fails
leaves the file; what a handler has reported is on the image when the process is
killed afterwards; of a write or a truncate that was not over the image has the
first of its bytes, or a size between the old and the new one; a kill while the volume can be written may leave the bitmap
invalid, and nothing else makes it invalid. `RootReadable` says whether the root
block, read when the volume was mounted, can be read again for the check of the
bitmap. Between the error of a read and an answer of 0 bytes the model makes no
difference.

`ImageStore` knows sessions, read-only or read-write, and a file: no process, no
library and no widths. `AdfMount` implements it under the mapping in which a
session lasts from `fuse_main` to the close of the volume and is read-write when
neither the option nor the device says otherwise. An answer of a read is a prefix
of the bytes at the offset asked for, a write changes these bytes and no other, a
truncate leaves the size asked for. A write behind the end of the file goes to its
end, as ADFlib's seek does: this much of the library is in what is promised. Only
the crash of a session that could write leaves a request half done.

### `PathStr` and `PathNames`

A string is a sequence of `Chars`; a name is one that is not empty, not `.` or `..`,
and has no slash (`Names`), as the kernel sees to. `str` is the string a handler is at work
on: dirname of the path, what is left of it to walk, or the copy of `cwd` it
walks back to. `Request` is a handler's beginning: by the way it comes to a
directory it is `absolute`, `relative` (mkdir, create and remove skip the leading
slashes and so never reset `cwd`), `list` (readdir) or `rename`. `Parents`, `Shift`
and `LastParent` are the two loops of `pathstr_dirparent_u2a`, with the pointer
that does not move. `Chdir`, `EnterDir` and `EnterFails` are `adfimage_chdir` with
`append_dir`; whether a name can be entered is left open, since that is what
`Adffs` is about.

Of the two paths of a rename one is converted here, the other is treated the
same. FUSE's paths hold no `//`, so `pathstr_remove_double_slashes` finds
nothing; the walk to `.` that dirname gives for a name in the root, or in `cwd`
for a relative path, enters nothing.

`PathNames` is the same walk on sequences of names. `PathStr` implements it under
the mapping `Split`; the conversion and the skipping of slashes are stutters.

## Runs

| Run | States | What it shows |
| --- | --- | --- |
| `Adffs` | 393 000 | two threads under `-s`, `/a` and `/a/a`, five paths, three renames, at most four entries: `TypeOK`, `OnPath`, `RightFile`, `CwdAgrees`, `CurDirLive`, `ChangesNamedDirs`, `ImplementsPathFs`, `Answered` |
| `AdffsLinks` | 1 350 000 | the safety properties on three volumes with hard links, soft links and names that differ in case |
| `AdfPerms` | 2 900 | all access words of a file and a directory, all chmods |
| `Args` | 110 000 | plain lines, with up to three options anywhere around the operands, and any four of eleven words, such as `-si`, `-p1` and `-llog`: `LineServed`, `OptionsRead`, `RefusedForReason`, `Terminated`, `Parsed` |
| `AdfMount` | 16 600 | every failure at every call, crashes between requests and within one, restarts with other options, and requests on a file of up to three bytes: `TypeOK`, `Nested`, `Released`, `DamagedNotWritable`, `ImplementsImageStore` |
| `PathStr` | 215 000 | all paths of up to three of four names, two of which begin with dots and one of which ends with them: `CwdRendered`, `ImplementsPathNames`, `Ends` |
| `ClaimRootSize`, `ClaimSingleThreadEnforced`, `ClaimUsageServed`, `ClaimDamagedNotWritable`, `ClaimTruncateSize`, `ClaimPathConverted` | | each refutes one statement of the repository (below) |

The properties of `Adffs`:

- `OnPath`: while a handler walks to a directory that exists, it stands where
  the names it has entered lead from the root, whatever state it began in.
- `RightFile`: a file that was opened is the one the path names.
- `CwdAgrees`: where a handler has entered by an absolute path, `cwd` and the
  current directory agree until it ends, even if the walk failed or the
  directory to go back to has been renamed or removed; the exceptions are the
  places where the handler moves the volume behind the back of `cwd`.
- `CurDirLive`: the volume stands in a directory that is in use, wherever failed
  requests have left it: the directory to walk back to may be gone, and nobody looks
  at the result of that walk.
- `ChangesNamedDirs`: a step changes a directory only under a request that names
  it. (That a failed request changes none at all is part of `ImplementsPathFs`.)
- `ImplementsPathFs`: the refinement above.
- `Answered`: every request is answered.

Bounds, and why they are enough. A walk enters at most two names, so a walk can
fail at its first and at its last name, an empty directory can be listed, a
directory can be renamed under a stale `cwd`, and a removed sector can be used
again by a later mkdir or create. `CwdBound` is the length of the string `cwd`,
which mkdir, create and remove extend without bound (a hazard of its own): with
2, `cwd` can name a directory that never existed, which is the case that
matters for the walks back. Two threads are enough for `MayBegin`: with `-s` a
third would be idle, and `Threads` is symmetric. Every property has a variant of
the code, in the module next to the definition it replaces, under which TLC
finds the property violated: without `-s`, without `adfToRootDir`, without the
reset of `cwd`, with `adfChangeDir` accepting anything, with the parents of a
rename swapped, with a walk that retries.

Of `FuseadfArgs`: `LineServed`, `OptionsRead` and `RefusedForReason` compare what
FUSE and the image get with the line as it was given, word by word (a word goes
to its place among the words of its kind). They are about plain lines (`Plain`): one
option to a word, the values of `-p` and `-o` in words of their own, `-l` without a
value. Not all lines of the usage text are: `-l logfile` is in two words there, and
`RefusedForReason` counts the word behind `-l` as an operand, as getopt does; that
such lines are refused is `ClaimUsageServed`. `Terminated` says that `argv` always is
`argc` words and a NULL; `Parsed` that the loop ends. `UInt` is 16, so that the
partition 16 is 0 after the cast, 1 is itself and 11 too large. Three options are enough
for every pair of edits to be neighbours, with and without an operand that
getopt has to move between them, and for a third word to be wrongly dropped.

Of `AdfMount`:

- `Nested`: nothing is given back before what uses it, at any failure, close or
  crash, and the library never runs without the log it writes to.
- `Released`: a process that exits after a failed open or an unmount holds nothing.
  Where FUSE returns without having served (label `unserved`) `main` closes
  nothing; the property does not cover this exit.
- `DamagedNotWritable`: a bitmap a crash has left invalid keeps the volume from
  being served for writing until it is repaired.
- `ImplementsImageStore`: the refinement above.

With `Word` 4 and a volume of three bytes every offset and size of this run fits
the word, and an offset at, before and behind the end of the file, a write over
its end, a write cut short and a full volume all occur; with offsets that do not
fit, `ClaimTruncateSize` shows what the cast does. `Block` 2 lets a file have a
part of a block.

Of `PathStr`:

- `CwdRendered`: `cwd` is always absolute, with one slash before each name, so that
  it can be walked again.
- `ImplementsPathNames`: the refinement above.
- `Ends`: a handler ends if the directories of a rename neither begin with two dots
  nor, above another, end with them.

`CwdBound` 3 lets `cwd` grow by a relative walk from a `cwd` that an earlier one
has extended.

Deadlock is checked in the runs of `Adffs`, `AdfPerms`, `AdfMount` and `PathStr`,
where there is always a next request or start; the runs of `FuseadfArgs` stop
where the program exits or FUSE takes over.

Fairness: `Adffs` assumes `WF_vars(Handler(t))`, `PathStr` `WF_vars(Handler)`, and
`Args` that the loop of `parse_args` runs on. All three are sequential code that
takes no lock and waits for no event, so it takes its next step as long as the
process runs; nothing is assumed of the arrival of requests, or of which branch
a step takes. `AdfMount` assumes nothing: its process may be killed or stay
mounted for ever.

### Disagreements found

| Run | Statement | What happens |
| --- | --- | --- |
| `ClaimRootSize` | the size of `/` is counted in the main directory (`src/adffs.c:156`) | it is counted in the current directory, which a failed read leaves elsewhere |
| `ClaimSingleThreadEnforced` | single-threaded mode is enforced (`README.md:62`) | with `-si`, or `-s -lfile`, the `-s` is noted and then dropped, and none is added |
| `ClaimUsageServed` | `-l logfile` enables logging (`src/fuseadf.c:153`, `README.md:22`, and the example of the manual, `doc/fuseadf.1:62`) | getopt takes the value of `-l` from the same word only: the line has an operand too many and is refused |
| `ClaimDamagedNotWritable` | no read-write mount of a volume with an invalid bitmap (`ChangeLog:16`) | if the root block cannot be read, the check returns an error code that as a `bool` means valid |
| `ClaimTruncateSize` | truncate changes the size of a file (`src/adffs.c:626`) | a size of 2^32 is cast to 0: the file is emptied and 0 is returned |
| `ClaimPathConverted` | the conversion replaces `../` by `//` (`src/util.h:49`) and a `/..` at the end (`src/util.h:58`) | for a directory `..a`, or one below `a..`, its loop does not end, and a rename hangs the mount |

`ClaimSingleThreadEnforced` matters for the whole of `Adffs`: without `-s`,
`RightFile` and `ChangesNamedDirs` fail. `ClaimRootSize` is what a user can see of
a more general one: `cwd` is called the current working directory
(`src/adfimage.c:1041`) and is not always that of the volume, because
`adfToRootDir` at the end of a handler leaves `cwd` behind and a read whose file
cannot be opened (line 493) does not go back. Otherwise this is harmless: `OnPath`
and `ImplementsPathFs` hold in its presence, because every handler starts from
the root.

Two more have no run of their own. chmod can set and unset permissions, `chmod u-w`
(`README.md:86`), and does not touch group and others (`README.md:70`); but
`access &= !MASK` (`src/adfimage.c:351` on) clears the whole word, so a permission
that is granted after one was withheld in the same chmod takes back the withholding,
and the bits of group and others with it. The property `Withheld` of the run
`AdfPerms` says exactly what is left: a permission is withheld unless one translated
later is granted. And a partition is to be 0 to 10 (`src/fuseadf.c:152`); 2^32 is
accepted, as 0, and `OptionsRead` says so with its cast.

## Proofs

`AdffsProofs` proves, for all sectors, names, paths, volumes and threads that
satisfy the assumptions of `AdfVolume` and `Adffs`:

- `TypeCorrect`: `Spec => []TypeOK`;
- `CurrentDirectoryLive`: `Spec => []CurDirLive`.

`CurDirLive` is not inductive. A removal frees a sector while `curDir` stays
where it is for part of a step, so one needs to know that the entry removed is
not the root, that the removing handler returns to the root in the same step,
and that a directory block is only entered through a table that names it. The
invariant `Ind` adds, in named parts: `TreeTypeOK`, the types of the tree;
`Places`, those of `curDir` and `cwd`; `FramesOK`, those of the frames, with
what a frame in each phase may hold (a handler looking something up has a path
with a last name, a frame that walks back holds a copy of `cwd`); and
`RootSafe`, the root is a directory and in no table. One lemma per action shows
that it preserves each part it can disturb; a few lemmas about `Front`, `Last`,
`Head` and `Tail` and about the tree operators are stated once and cited.
In the model a removal and the `adfToRootDir` after it are one step: under `-s`
no other handler can see between them.

`AdffsPathProofs` proves, when FUSE serves one request at a time
(`SingleThreaded`):

- `WalksOnPath`: `Spec => []OnPath`;
- `FindsRightFile`: `Spec => []RightFile`;
- `WorkingDirectoryAgrees`: `Spec => []CwdAgrees`;
- `OnlyNamedDirsChange`: `Spec => ChangesNamedDirs`, assuming `KernelChecked` too.

The argument is about trails: the trail of a path is the sequence of sectors
passed on the way from the root along its names, and `Leads(p, d)` says that a
trail of `p` ends at `d`. The invariant `PathInd` has two parts about everything:
`OneServed`, at most one frame is not idle, which is what `-s` gives and why
nothing moves the current directory, or changes the tree, under a walk; and
`FoldUnique`, no directory has two names that differ in case only. The others are
about a frame: `OnTrack`, a walk has entered the first `k` names of its path and
stands where every trail of that path passes at `k` (whether the path has a trail
is known only where a failed walk is not ignored); `CwdOK` and `FileOK`, the
properties `CwdAgrees` and `RightFile`; `RenameOK`, the directories a rename has
found are those its paths name; and `CountOK`, only `getattr` counts. A frame is
alone (`OneMoves`), so one lemma per handler looks at its own frame, before and
after. Without `-s` every one of these fails, and so do the properties
(the variant `MayBeginAnytime`). `KernelChecked` is needed for renames only: their
lookups ignore a failed walk.

`AdffsRefinement` proves `HandlersImplementPathFs`, `Spec => ImplementsPathFs`,
from `SingleThreaded` and `KernelChecked`. To `PathInd` it adds what a frame has
found, in terms of paths: `StatOK`, for getattr, that `cwd` and the names to enter
make up the path walked on the way into the directory, back, and into the path
itself, that the entry found is the one the path names, and that the directory
counted is the one this entry stands for; `LinkOK` for readlink, `PermOK` for
chmod, `UseOK` for open files; and `Held`, every entry has a block in use that no
other entry has (a removal frees the block of one entry only). A path leads to
one sector at most (`LeadsUnique`, by the first place where two trails part): so
wherever two walks of one request agree on the path, they agree on the directory.
`Served` and `Silent` say which steps answer and which stutter, and one lemma per
group of handlers shows that its answer is one `PathFs` gives (`Right`).

`AdfPermsProofs` proves `AccessTyped`, `NothingGrantedIsLost` and
`WithheldUnlessGrantedLater` for any set of entries, of further access bits and
of initial words; each is inductive with the types, by the lemma `SetPermBits`
about three masks in a row.

`AdfMountProofs` proves, for any word, block, volume, file and requests:

- `MountTyped`: `Spec => []TypeOK`;
- `ReverseOrder`: `Spec => []Nested`;
- `NothingLeftOpen`: `Spec => []Released`;
- `NoDamagedVolumeWritten`: `Spec => []DamagedNotWritable`, assuming `RootReadable`.

`Nested` and `Released` say nothing of where the process is, and no step
preserves them by themselves. `HeldByLabel` and `LogByLabel` say for each
label which resources are held there, and imply both. For the bitmap, `Checked`
extends the property back to the labels between the check and `fuse_main`; the
assumption is needed in the one step `CheckBitmap`, and
`ClaimDamagedNotWritable` is the counterexample without it. For the types,
`FileTyped` is preserved by requests because a write and a truncate keep within
the capacity, by the lemmas on `Overwritten` and `Resized`.

`AdfMountRefinement` proves `MountImplementsStore`: `Spec => ImplementsImageStore`,
for any file, block, capacity and requests, assuming `Fits`: offsets, sizes and
lengths of buffers are below `Word`, and `RootReadable`. Without the first the
cast changes the number (`ClaimTruncateSize`), without the second a damaged
volume is mounted for writing. One lemma per request shows that its answer is one
the store gives: what is read is a prefix of the bytes at the offset
(`ReadPrefix`), a write is front, data and rest (`WriteParts`), with lemmas about
parts of sequences stated once. `WrittenInStore` and `ResizedInStore` say it of any
number of bytes and any size on the way, so that a kill in the middle of a request
(`InterruptedInStore`) leaves what the store allows. `UnseenStutters` covers the calls outside a
session; `Checked` is needed where FUSE begins to serve, `Unanswered` where a
process is killed before it does.

`FuseadfArgsProofs` proves, for any command lines, whatever paths there are, and
whatever numbers strtoul reads and however many fit an unsigned int
(`NumberAssumption`: they are natural numbers, and no text that begins with a dash
is one):

- `VectorTerminated`: `Spec => []Terminated`;
- `LineIsServed`: `Spec => []LineServed`;
- `OptionsAreRead`: `Spec => []OptionsRead`;
- `RefusalsHaveReasons`: `Spec => []RefusedForReason`.

`Terminated` alone is not inductive: to
drop the words before getopt's, there must be as many. `GetoptInside` says that
getopt's index never passes the words, and stays below them while it is in one;
`Room`, that there is a slot for `-s` when `main` writes it, since the image's name
has gone by then. `NextWordInside` is about getopt's exchange of operands and
options, and the search for the next option (which finds one or the end:
`NextOption`); `Returned` says how far getopt has come for each option it returns,
and so that the words dropped for it are there.

The other three relate the end of the loop to the whole line, and need an account
of where its words are at each turn. `Standing` is that account, when the first k
words of the line have been read: the words not read yet lie from `optind` on as
the line has them (`Unread`); the operands read lie together, in order, where
getopt has put them (`OperandsAt`); FUSE's own words lie in order around them,
each at its `Place` or behind it by the number of operands (`OwnAt`); everything else
has been dropped. `Noted` says what `options` holds after k words.
`NextStanding` shows that getopt's exchange of operands and options keeps
`Standing`, in its three cases (operands to move, none, operands to skip), and
`PlainFound` that getopt then returns the next option of the line, although
parse_args has edited `argv` and `optind` under it since. `KeepReading` and
`DropReading` are the two things parse_args does with it. Once the words are all
read, `OperandsReady` takes the two operands and `PlainFuseMain` adds the mount
point and `-s`. The three hold of lines that are `Plain`; of others, where one
word holds several options or a value of its own, only `Terminated` is claimed.

`PathStrProofs` proves, for any characters, any paths and names however long:

- `PathInvariant`: `Spec => []PathInv`;
- `CwdIsPath`: `Spec => []CwdRendered`;
- `StringsImplementNames`: `Spec => ImplementsPathNames`.

It assumes of paths only what the kernel guarantees, that they are made of `Names`
(`PathAssumption`): with an empty name, or one that has a slash, `Split` would not
undo `Rendered`. That it does is the core of the proof (`SplitRendered`): a slash
and a name put behind a string are one name more (`SplitAppend`), for which the names
in a string's beginning do not depend on what comes after (`WordsOfPrefix`). Joining
and splitting are recursive, and the library's theorems of induction take an operator,
which the provers cannot instantiate; so induction is stated twice as a fact about
sets (`AllNumbers`, `AllSequences`: a set with the first and with the next of each it
has, has all), from the well-foundedness of the naturals, and used with the set of
those for which the claim holds. From there on the operations of the code are facts
about names: dirname drops the last one (`DirnamePath`), the leading slash skipped
leaves the names (`RelativePath`), the first slash ends the first of them
(`FirstOfPath`), `append_dir` adds one (`AppendDirPath`).

`CwdRendered` by itself is not inductive: what `append_dir` adds must be a name, and
so what is left of the string must be the rest of a path (`IsRest`), at each turn of
the loop. `PathInv` says so, and what the string is at each step before
(`StringByStep`): while a rename converts its path, that path's dirname as it came,
because the loops that would change it do not end, once there is something to change
(`ShiftKeeps`), or leave it, since no path ends in `/..` (`NoParentAtEnd`); then what
the handler gives to `adfimage_chdir`, be it `.`, or the copy of `cwd`. One lemma per
action preserves it; one per group of actions shows the step of `PathNames` it is.

Only model-checked: `Answered`, `Parsed` and `Ends`, which are out of the prover's
reach as all liveness is, and as ENABLED is.

## Not modelled

- Time conversion (`src/adffs_util.c`): one call of `mktime` on a local record.
- What the log prints (`src/adffs_log.c`, `src/log.c`), and the messages of
  `main` and its check of the user id.
- The counters `adffs_statfs` copies from ADFlib, and the blocks and caches of the
  volume. `adffs_chown` and `adffs_utimens` do nothing.
- The cast of a byte count to `int32_t` (`src/adfimage.c:500`): FUSE asks for far
  less than 2^31 bytes at a time.
- The length of `cwd`: a series of mkdir, create and remove without an absolute
  walk between them appends to a buffer of 1024 bytes without a check.
- I/O errors on the blocks of directories, and the early returns for `/` (see
  `AdfVolume` and the reductions of `Adffs`).
- What chmod and rename do when they arrive for a path whose directory is not there
  (`KernelChecked`).
- `-o ro` in a list of options: the code knows only `-o ro` by itself.
- The functions of `src/util.c`, which nothing calls; tests, packaging, build.

## Plan

1. (done) `AdfVolume`, `Adffs`, `PathFs`: the core, its refinement, its types
   and `CurDirLive` proved. `AdfPerms` with its proofs. `FuseadfArgs`.
2. (done) `PathStr` and `PathNames`: strings, conversions, the walk.
3. (done) `AdfMount`, `FileIO` and `ImageStore`: the process, crashes, the data;
   its invariants and the refinement proved.
4. (done) `AdffsPathProofs` and `AdffsRefinement`: `OnPath`, `RightFile`,
   `CwdAgrees`, `ChangesNamedDirs` and the refinement of `PathFs`, proved.
5. (done) `FuseadfArgsProofs`: `Terminated`, and for plain lines `LineServed`,
   `OptionsRead` and `RefusedForReason`, proved.
6. (done) `PathStrProofs`: `CwdRendered` and the refinement of `PathNames`, proved.
7. What is left: `-o` with a list of options.
