# Specifications of LiveCDFS and lufsd

TLA+ models of the file system that makes a bootable Mandrake CD writable:
LiveCDFS (`livecdfs/src`), a union of the CD with a directory in memory;
lufsd (`livecdfs/lufs/lufsd`), the user space daemon through which the kernel
calls it; and of the boot script that finds and mounts the CD
(`mklivecd/src/linuxrc.in`). TLC checks small instances of the modules; TLAPS
proves some of the results for every instance.

Paths below are relative to the source tree. "rw_tmp" is the writable
directory, "ro_root" the mounted CD; a *name* is a path below the mount point.

## 1. The system

A process of a user calls the kernel; the kernel's LUFS file system sends a
message over a UNIX socket (a *channel*) to lufsd; a thread of lufsd per
channel takes one message at a time, asks the directory cache, calls the
LiveCDFS object, and replies. LiveCDFS answers with system calls on the two
directories.

    user --syscall--> VFS/LUFS --socket--> thread of lufsd --+--> directory cache (shared)
                                           thread of lufsd --+--> LiveCDFS (shared) --+--> rw_tmp, rw_tmp/.whiteout
                                                                                      +--> ro_root

| component | state | operations | what makes it correct |
|---|---|---|---|
| `Path` (path.cpp) | none of its own: the two directories | exists, isDir, mkpath, getDir, recurseMkdir, copyTmp | rw_tmp wins over the CD; a copy is faithful; making directories shows nothing to a user |
| `Whiteout` (whiteout.cpp) | the list of hidden names, and `.whiteout` | load, store, add, erase, find, isVisible, setVisible | file and list agree, or the file at least hides nothing that shows; a hidden name stays hidden until something new takes it, over a restart too |
| `Handles` (handles.cpp) | the list of open files by name | add, find, erase | nothing depends on it: doRead and doWrite open the file again |
| `LiveCDFS` (livecdfs.cpp) | the three above | doStat, doReaddir, doOpen, doRead, doWrite, doRelease, doMkdir, doRmdir, doUnlink, doCreate, doRename, doLink, doSymlink, doReadlink, doSetattr, doMount | users see one tree, which changes only as they ask; an error changes nothing; every request is answered |
| `LiveCDFS::activefs` | the instances and their reference counts | create, destroy | one instance per mount, deleted when, and only when, its last user leaves |
| handlers (filesystem.c) | the request at hand, the listing just read | generic_readdir, _stat, _open, _write, ... | the caller gets what the file system holds; the cache is told of every change |
| directory cache (dircache.c) | buckets of listings with time stamps, under one lock | search, add_dir, readdir, lookup, invalidate, shrink | no listing survives a change of its directory that the handlers tell of; bounds and counts hold |
| messages (message.c) | bytes of a socket, the message at hand | lu_atomic_read/write, lu_recvmsg, lu_sendmsg | handlers run on whole requests, once and in order; each gets its own reply |
| options (options.c) | domains with lists of key=value | lu_opt_parse, lu_opt_loadcfg, lu_opt_getchar | of several values the last given is found, from the command line or the file |
| start-up (daemon.c, fsctl.c) | processes, sockets, the mount | tempsock, fork, lu_fsctl_mount, lu_fsctl_run, mount, usr1Handler | main ends; what is left running or on disk, and when |
| boot script (linuxrc.in) | what is mounted where | createramdisk, bootfromiso, findcloop, copy2ram, hand over | rc.sysinit finds the system that was asked for, or there is a shell |

Interactions. The threads share the cache (locked) and the LiveCDFS object
(not locked). LiveCDFS and the kernel's table of open files are tied by
*names*: doRead, doWrite and doRelease look a file up again by the name it has
when they are called. The list of hidden names and rw_tmp together decide what
a name shows, and are changed one after the other. The cache and LiveCDFS are
tied by invalidation: a handler changes first and invalidates after.

Hard behaviours, with the lines where they bite, are the `hazards` of
PROJECT.json: names reused after they were removed or renamed (sequences of
calls), files copied up by several threads at once, a full disk or a stop in the
middle of a copy, listings read by one channel while another changes the
directory, or in pages while it changes, a connection that opens while another
closes or closes in the middle of a message, a daemon that restarts over its own
`.whiteout`, a mount that fails after the fork.

## 2. The modules

| module | models | code |
|---|---|---|
| `UnionPath` | `Path` as operators on two layers, and the system calls it makes | path.cpp |
| `Whiteout` | `Whiteout` as operators on a record of list and file | whiteout.cpp |
| `LiveCDFS` | the state machine: EXTENDS both, one action per request | livecdfs.cpp, handles.cpp |
| `UnionView` | the abstract specification LiveCDFS implements: one tree of files and the system calls on it | |
| `LiveCDFSProperties`, `MCLiveCDFS` | the properties of LiveCDFS, and small instances: names, CD images, link texts | |
| `WhiteoutFile` | `.whiteout` a system call at a time, with stops: EXTENDS Whiteout | whiteout.cpp, livecdfs.cpp |
| `HiddenNames` | the abstract specification WhiteoutFile implements | |
| `CopyUp` | copyTmp a system call at a time, with other channels and stops | path.cpp, livecdfs.cpp |
| `DirCache` | the calls of the cache as operators on a record | dircache.c |
| `Lufsd`, `LufsdProperties`, `MCLufsd` | channels running the handlers over the cache: EXTENDS DirCache | filesystem.c |
| `Paging`, `MCPaging` | the order of a listing, and reading it in pages | dircache.c, filesystem.c, livecdfs.cpp |
| `Channel`, `MCChannel` | one connection: receive, handle, reply | message.c, filesystem.c |
| `Instances` | create and destroy, an access to activefs at a time, with their threads | livecdfs.cpp:64-160, fsctl.c |
| `Daemon` | main, its child and their signals: EXTENDS Instances | daemon.c, fsctl.c |
| `Options`, `MCOptions` | command line, configuration file, settings of the cache | options.c, daemon.c, dircache.c |
| `Boot`, `MCBoot` | the boot script | mklivecd/src/linuxrc.in |
| `WhiteoutProofs` | lemmas on the list of hidden names, for the next three | |
| `LiveCDFSProofs` | theorems of LiveCDFS: what holds between requests, what a request changes, that it implements UnionView | |
| `WhiteoutFileProofs`, `CopyUpProofs`, `LufsdProofs`, `ChannelProofs`, `DaemonProofs`, `BootProofs` | theorems of the module each is named after; DaemonProofs of Instances too | |

Names of definitions are those of the code where TLA+ allows it. A definition
called "Mutant of X" in its comment is a wrong version of X kept to show that a
property notices it; nothing uses it. A variable said to be something "nothing
remembers" is a history variable: actions write it, no guard reads it.

The same code appears at several grains. LiveCDFS takes a request as one step
and a whole tree as its state; WhiteoutFile and CopyUp take one of its files or
lists and split the request at its system calls. `LoadKeepsFirst` ties the two
grains of `Whiteout::load` together: the loop over a file that is being
rewritten ends as the single step `Whiteout!Load` does. Lufsd interleaves
handlers over the cache; Paging takes a handler as one step and adds the order
and the pages of a listing.

### UnionPath, Whiteout, LiveCDFS

A *layer* maps every name of the model to a node: absent, directory, regular
file, symbolic link, block or character device, FIFO or socket, with an inode, a
content and a link text. `Endless` names what cannot be read to an end: a file of
the CD on a scratch, a device that always has more.
`cd` is the layer at ro_root, `rw` the one at rw_tmp. `wo` is the list of
hidden names together with what is in `.whiteout`. `handles` counts the entries
of the handle list by name: `doOpen`'s `find` compares a mode that is never
0xffff there, so that it never matches and each open adds an entry. `kfile` is
the kernel's table of open files: only the name matters to LiveCDFS, and whether
the name still leads to the file. `reply` is OK, ERROR, or "none" if the
handler never returns.

No property but the type speaks of `handles`. A file renamed while it is open
leaves its entry under the old name, and its release may take the entry of
another file: the comment at livecdfs.cpp:435, that the list "indicates the
number of files we are busy with", is false from then on. But nothing other than
doRelease and a log line reads the list, so nothing else goes wrong.

An action is a `do...` method from the request to the reply, with everything it
calls: copying up, making directories, the calls of setVisible and the store
that follows each. Points at which the translation is easy to get wrong:

- `Path::exists(p, flags)` tests `(st_mode & flags) == flags` and the `S_IFMT`
  values share bits. `HasMode` keeps them as sets of bits, so that a link passes
  for a regular file and a block device for a directory, as in the code.
- `Path` never looks at the whiteouts. `getDir` of a hidden directory of the CD
  is the directory itself, and `recurseMkdir` then makes one in rw_tmp.
- `isDir` looks the relative text of a link up from "/", `stat()` and `open()`
  from the directory of the link; `IsDir` and `Follow` differ accordingly.
- `copyTmp` reports nothing. `CopyTmp` is the *set* of layers it may leave:
  nothing copied, a whole copy, a short one. It never returns when the source is
  a directory a link leads to, a FIFO that open() waits at, or `Endless`
  (`NeverEnds`, `CopyHangs`); open() of a socket fails and leaves an empty copy.
- With `DiskMayFill` any call that adds to rw_tmp may fail, a write may fail or
  come up short with the answer OK (generic_write looks only for an error), and
  `store` may keep the old file or leave the beginning of the list
  (`StoreFails`), which nobody notices. Load then may read more than one line,
  as long as the open() of store fails (`LoadEnds`).
- `doRmdir` hides the directory of the CD after a failed rmdir() too.
- `Whiteout::load` reads the file with the same list it stores to: `Load` keeps
  the first line only.

What the kernel does before it calls is in the guards: it walks a name a
component at a time (`Walkable`), so a request for `/d/f` arrives only when `/d`
is a directory; creates only what it did not find (`Negative`), removes only
what it found (`Present`); does not rename a directory onto a file; refuses to
remove a directory with an open file below it. `Orphan` and `Move` are
d_delete and d_move on open files. These are external to the source, and
are marked so in the map.

Abstractions. Owner, mode and times are not represented (doSetattr is then
copy-up and truncation). A content is one value, written whole, or torn when the
disk fills. What is written to a device is not represented. The mkdir() of
recurseMkdir fails for lack of an inode only, not of blocks. O_EXCL is the case
of doOpen with O_CREAT that fails although the file is there. Names that contain
".whiteout", which `isVisible` never shows, are left out. Links are followed
once, and an absolute link of the CD leads nowhere: what it leads to is outside
of both layers. Requests are atomic.

### UnionView

What users of the mount are promised: `tree`, the node under each name, and
`names`, all the names of the file that a name is one of, so that hard links are
part of the promise. There are no layers, no copies and no hidden names. A
system call has its effect and replies OK, or replies ERROR and has none.

LiveCDFSProperties maps the concrete state to it: `tree` is `View`, what the
kernel gets for each name by walking to it and asking doStat, with its inode
left out; `names` is `Links`, the names seen that are one name or one inode of
rw_tmp. `ImplementsUnionView` says that the mapped states behave as UnionView;
`RequestsKeepPromises` says more, that each request is the step of its own system
call on its own names. The promise is less than that of a file system in four
places, each stated where it is in UnionView, and the code needs each:

- `Mkdir`: with a directory that was removed and is made again, what the CD has
  below it may be back, for doMkdir shows the name and nothing hides what is below.
- `Rmdir`: the directory need not be empty, and may be gone although the call
  fails (livecdfs.cpp:547).
- `Open` with O_CREAT may empty a file that is there: doOpen then makes the file
  in rw_tmp and copies nothing up (livecdfs.cpp:383).
- `Reconnect`: what was removed may be back (whiteout.cpp:165).

A write through an open file whose name was taken away is the fifth: it may be a
write to any file, or to none that is seen.

### WhiteoutFile, HiddenNames

`file` is `.whiteout` as a list of lines, `entries` the vector, `out` the lines
the loop of store has still to write, `todo` the calls of setVisible a request
has still to make after it changed rw_tmp, `pos` what load has read. A request
is *change rw_tmp; setVisible ...*, a setVisible that changes the list is
*truncate; write a line; ...*, a load is *read a line; truncate; write ...*.
`Stop` is usr1Handler's exit(0), or a kill, between any two of these; `Create`
reads the file, in a new daemon or for a new instance after the last connection
closed. A write() of a line is one step: a stop inside it is not represented.

`HiddenNames` is what the file promises: requests hide and show names, restarts
may lose hidden names but never make one up. `HidesOnlyOnRequest` is the
refinement: the abstract set is the daemon's list while it serves, and the
file together with the list while it is down or loading. That a request takes
its two calls of setVisible apart, and that a load rewrites the file, are
stutters or restarts of the abstract module.

### CopyUp

One file of `Size` buffers. A buffer holds what the CD has ("cd"), what a user
wrote, or zeros ("hole"); `scratched` are buffers of the CD that cannot be read.
Opens of a file are not serialised by the kernel, writes and attribute changes
are (i_sem, `SemIsFree`), so two copies of the file, or a copy and a write, may
overlap. copyTmp is *open with O_TRUNC; a turn of the loop per buffer; close*.
A turn whose read() fails changes nothing and does not end the loop: it is the
absence of a step, and `CopyEnds` excludes it by name. A stop leaves the copy as
it is.

### DirCache, Lufsd

`cache` is `struct dir_cache`: for each bucket the listings, most recent first,
and the count. A call holds the lock throughout and is one operator; a handler
is a sequence of steps, and the channels interleave between them:
generic_readdir is *lookup; read; add; lookup again*, a change is *call;
invalidate (; invalidate)*. Time is a `Tick` that makes every time stamp older;
an age saturates at the ttl. Both settings may be negative, as atoi() may make
them: then every listing is expired at once, or the loop of dircache.c:283 never
ends and its channel stays at "shrinking", with the lock (`ShrinkEnds`,
`Unlocked`). LiveCDFS is reduced to what directories show: `fs[d][n]` is 0 for no
entry, else a version of its attributes, and `DirAt` says which directory an
entry is the name of. Such a directory can be removed and made again; with what
in it is left open (`Remade`: any files, which is more than doMkdir can do). `Holds` is the
semaphore of a directory (i_sem) under which the VFS of Linux 2.4 calls readdir
and every operation on entries; it is what keeps a listing that was read before
a change from being added after it. setattr, write and open take no such
semaphore.

Three changes reach no lu_cache_invalidate, or not that of the right directory,
and the cache goes on serving what it has. `untold`, a history variable, is the
set of directories with such a listing, until they are read or invalidated:

- a rmdir that fails and hides the directory of the CD all the same
  (livecdfs.cpp:541-550): generic_rmdir returns without invalidating
  (filesystem.c:203-206), so that the listing of the parent still has the name;
- a directory that is removed or made (filesystem.c:185-208): only the listing of
  its parent is invalidated. A listing of itself stays, and is served again once a
  directory of that name is made;
- a reconnection (fsctl.c:373-394): LiveCDFS reads `.whiteout` again, which
  brings names back, and the cache of the daemon outlives the instance.

Such a listing ends like any other: `dir_cache_ttl` seconds after its last use,
which, when somebody keeps using it, is never.

### Paging

The kernel has `got` entries so far and asks for what follows (`Offset`: the
request holds 16 bits of the count). The reply is cut from the cached listing,
or from one that doReaddir merges anew: rw_tmp's entries first, then those of
the CD that rw_tmp has not (`Merged`), with "." and ".." moved or added by
check_dir (`CheckDir`, two passes over a list it changes). Between two pages the
cached listing may be dropped, and the directory changed; `CopyUp` moves an
entry from the second part to the first and invalidates nothing. The counters
`removed`, `added` and `moved` are history.

### Channel

A socket is a sequence of units: the four header fields, then the data. A
read() returns the next unit: returning several at once makes no new order of
events. `hdr` and `buffer` are the m_hdr and m_buffer of one struct message,
used for requests and replies alike, so what an earlier message left in them is
in the model; `ran` records what the handlers were called with. The kernel is
external: it sends a request at a time, in pieces, and may close after any of
them.

### Instances, Daemon

create and destroy are split at each access to `activefs` (find, read count,
write count, test), since `lu_fsctl_run`'s thread runs the one and the threads
of the channels the other, and nothing is locked. An entry erased from the
vector keeps its bytes: `activefs.size` tells whether it is in the vector, and a
late destroy still reads the rest. `lost` counts the references whose thread
could not be created. With `OneAtATime` the kernel opens or closes a connection
only when the last such event is done, as it does when it opens all channels at
mount and closes them all at umount; without it, connections come and go at
any time.

Daemon puts main before that and the signals around it: options, first
instance, bind, listen, fork, mount, each with its failures; the child that
serves (the actions of Instances) from the moment it has installed its handlers;
SIGUSR1 at the unmount, and kills. SIGTERM and SIGINT do nothing to a child that
serves: sig_handler installs itself again. The kernel's side of mount and
unmount is external.

### Options

A text is a sequence of tokens: words, "::", and single characters. `conf` is
the list of domains with their options, newest first; `given` is the history of
what was given, in order, by command line and file. `LoadText` cuts at "#", "="
and "::" in whatever order they come; `Clip` drops the last character of a last
line without a newline. `~/.lufs/lufsd.conf` is never found, since nothing
expands the "~"; a file overrides the command line, since it is read later.
`CacheSettings` is what lu_cache_create makes of both; a negative number is
taken as it is, and Lufsd says what becomes of it.

### Boot

What is mounted where: MNTCDROM is a stack, since bootfromiso may leave an ISO
image on it under the device findcloop mounts. `loop` is the file behind each
loop device, `livecd` the image on MNTLIVECD. printfatal execs a shell: nothing
comes after it. `machine` are the facts of the environment that matter:
whether there is enough memory, whether the loop device has a node, and whether
umount detaches it. A mount of a
loop device or a tmpfs that the script does not check may fail. Modules, device
nodes, the medium check and all output are left out.

## 3. The runs

Passing runs, and why their bounds are large enough:

| run | instance | shows |
|---|---|---|
| `files` | "/", a CD directory /d with a CD file /d/f, an unused /n; 2 inodes, 2 contents, 1 open file, a symbolic link of a user whose absolute text doSymlink rewrites | every request on every name and on every pair, in any sequence to any length. Three names that exist on the CD or not, at two depths, give each of the four cases of a name (CD only, rw_tmp only, both, none), each hidden or not. Two inodes: a copy and a new file, then ENOSPC, and two names of one inode, one of them renamed over the other file or removed. Two contents: contents are only ever moved, so that of the CD and another tell a lost write, a torn copy or a stale file apart |
| `links` | /d, /d/e, a relative link /d/l on the CD that leads to /d/e but that isDir looks up as /e, a character device /e that always has more, a block device /b that ends; users may make a relative and an absolute link | the paths through isDir, getDir and doLinkAll that need links or devices, and requests that never return: for the link and for the device without end, not for the one that ends |
| `full_disk` | "/", a CD file /f, an unused /n; 1 inode, any write or store that may fail or come up short, 2 open files, a writable ro_root | partial failure: copies that are torn or missing, an open file whose copy is gone, a `.whiteout` that kept a line too many or lost one. Two names make lists of two lines, of which a store can leave none, one or both; a name on the CD and one that is not are what its lines may be |
| `whiteout_file` | 3 names, 2 of them on the CD | lists of up to three lines: a load that must skip more than one, a rename between any two kinds of names, a stop at every point of each |
| `copy_up` | 3 channels, a file of 2 buffers, one of them scratched or not | two copies and a write at once, in the buffer before, at and behind each offset |
| `cache` | 3 directories in one bucket of 2 listings, one of them the entry of another, 2 channels taken as alike (symmetry), one name to a directory, ttl 1 | eviction, expiry, invalidation, and a directory removed, made or hidden by a failing rmdir between any two steps of another channel |
| `paging` | directories of 3 to 6 entries in 3 orders ("." and ".." first, late, missing), 2 or 3 names to a page, 2 changes, offsets modulo 7 | every change before, in and after the part already read; a directory that reaches the modulus |
| `channel` | 3 requests of 0 to 3 units, 2 of which fit, or without a handler; replies of 0 or 1 unit | a close after any unit of the first, second and third request, with leftovers of both kinds in the buffer |
| `daemon` | 4 connections, 5 instances, threads that may fail to start, every step of main that may fail | every order of arrival, departure, failure, unmount and kill |
| `options` | 6 command lines, 3 lines out of 9, values of up to 5 tokens | each key given by both sources, twice, empty, negative, commented out, without "::", with "=" before "::", and clipped |
| `boot` | up to 3 devices, each of 15 kinds; 8 combinations of boot codes, 8 machines | every first, second and third device of every kind, and the ISO image on any of them |

What they check:

- `WhiteoutsStored`: no name is in the list twice, nor in the file, and the file
  is the list unless the disk fills. setVisible(true) erases one entry, so a
  duplicate would leave a name hidden. `ListedNotSeenOnCD`: a store that failed
  leaves a file that is not the list, and may hide fewer names than the list, but
  never one that shows a file of the CD. (It may list a name that has a new file in
  rw_tmp: that one is hidden by the next reconnection.)
- `ListingAgreesWithStat`: doReaddir merges two directories in two loops and
  doStat looks in one layer; they agree for every directory.
- `OpenFilesReachable`: a file that still has its name is found when doRead and
  doWrite open it again, and in rw_tmp if it is open for writing.
- `OnlyNamedChange`: the frame condition. What is seen at a name changes
  only by a request that names it, a directory above it or another name of the
  same file. Copy-up, mirrored directories and whiteouts show nowhere else.
- `ErrorsChangeNothing`: copy-up and mirrored directories of a request that
  fails later are invisible. rmdir is the exception (see below).
- `CopyUpTransparent`: open without creating or truncating, attribute changes,
  listing, reading and closing show nothing to a user, though they change rw_tmp.
  `CopyUpKeepsOrTears` is what is left of it on a full disk: what was seen is seen,
  or is torn, and only if it was not in rw_tmp before.
- `RenameMoves`, `WritesAreSeen`: what moved and what was written is what is seen;
  on a full disk what was written may be torn, or not be there with an error.
- `ImplementsUnionView`, `RequestsKeepPromises`: two layers, hidden names and
  copies look like one tree of files with hard links (section 2). The properties
  above say what may not happen to the view; these say what must: mkdir, creat,
  link, symlink, rename, unlink, truncate and write have all of their effect when
  they reply OK, under every name of the file, and none when they fail.
- `OnlyUnlinkedFilesReachRoot`: where ro_root can be written, only a file whose
  name was removed is written there.
- `HangsOnlyWithoutEnd`: the exact condition of a request that never returns. It
  copies up what leads to something that cannot be read to an end, which is no
  matter of links and directories alone; or it is for an open file without a
  name, and the name leads now to a device or a FIFO.
- `StoredInOrder`: what is on disk and what is still to be written make up the
  list: a stop in the middle of a store loses the end of it and nothing else.
- `OnlyRequestVanishes`: no stop and no reload makes a name vanish that the
  request cut short was not about. Names may come back: a stop between unlink()
  and setVisible, or inside store, shows what the CD holds.
- `LoadKeepsFirst`, `Settles`, `HidesOnlyOnRequest`: load ends, with the first
  line; the file implements HiddenNames.
- `Settled`: when no copy is being made, the file reads as the requests left it.
  Three exceptions are stated, and only these: a daemon that stopped inside
  copyTmp leaves a torn copy that hides the file for good; a write that overtook
  a copy is overwritten by the CD, a buffer at a time; where one shortened the
  file there are zeros. `CopyEnds`: copying ends, unless the CD cannot be read.
- `CacheWellFormed`, `NamesCurrent`, `ListingsCurrent`: counts, bound and no
  duplicates; a valid listing names what the directory holds unless a handler is
  about to invalidate it; what a readdir returns is right at that moment. The
  directories in `untold` are the exceptions, and no others.
- `ListedOnce`: a directory nobody changes is listed in full and each name once,
  over any number of evictions; each entry removed or copied up can make the
  reader miss one name that was there all the time, each added or copied up can
  repeat one. `DotsFirst`: "." and ".." come first, the rest keep their order.
  `ReadingEnds`: unless the directory outgrows the offset.
- `WholeOrLast`: handlers run on whole requests, in order and once. A request
  the kernel closed on is taken for whole if any of it came; its handler runs on
  what the buffer held before, and that is the last thing the thread runs.
  `OwnReply`, `Answered`, `Released`: replies are not mixed up; each request that
  was written is answered or the connection ends; the thread ends after a close.
- `CountsUsers`: between connections the count is the number of threads that use
  the instance and of those that never started; the last to leave deletes it.
- `OrphanOnlyByFailedMount`, `SocketLeft`, `StartEnds`: what main and the child
  may leave behind, and when.
- `LastGivenWins`: a lookup finds what was given last, a file after the command
  line, and the cache gets the numbers asked for.
- `SysinitHasImage`, `FirstMediumDecides`, `MediumFreed`: the system that is
  started is of the image asked for, unless copy2ram took it away; the first
  device with an image decides, good or bad, and a shell has one of five causes:
  too little memory (linuxrc.in:530), an ISO file that holds no image or is none
  (592), no device with an image, no loop device, or a bad image on the first
  (429); what copy2ram frees. That the script ends is plain from its text, which
  has no loop but those over the devices, and is no property.

`links`, `channel`, `paging`, `daemon`, `options` and `boot` run without TLC's
deadlock test, because there the system may really stop: a request that never
returns, a thread, a reader, two processes or a script that have ended.

Where the code disagrees with what is said of it (`findings` of PROJECT.json).
All but the last row are stated as the exception in a property that holds:

| code | run, property | what happens |
|---|---|---|
| path.cpp:108 | `links`, `HangsOnlyWithoutEnd` | renaming a CD link that leads to a directory keeps copyTmp in its read loop, as read() returns -1 and the loop waits for 0; so does a device without end |
| livecdfs.cpp:547 | `files`, `ErrorsChangeNothing` | rmdir of a CD directory that is not empty fails with an error, and the directory is gone from view |
| whiteout.cpp:165 | `whiteout_file`, `LoadKeepsFirst` | after a reconnection only the first hidden name is hidden; the rest of `.whiteout` was truncated while it was read |
| linuxrc.in:455 | `boot`, `MediumFreed` | copy2ram unmounts the CD while the loop device still has it open: it stays mounted unless umount detaches loop devices |
| livecdfs.cpp:135, 148-152 | `instances_race`, `InUseNotDestroyed` (violated) | a connection made while another closes is given an instance that is then deleted |

The last needs connections that come and go independently; where the kernel
opens and closes them one at a time, `CountsUsers` in `daemon` shows that it
cannot happen. The stale listings of `untold` are what `NamesCurrent` and
`ListingsCurrent` state as exceptions; no text of the repository promises
otherwise. One more disagreement is visible in DirCache without a property of
its own: `search` and lu_cache_readdir give a listing a new time stamp at
each use (dircache.c:141, 327), so that `dir_cache_ttl`, which
`livecdfs/lufs/README:339` calls the "number of seconds a directory cache entry
is valid", is the time since the last use.

Fairness. Only what the program does by itself is fair, weakly: a daemon thread
that has something to do is scheduled (WhiteoutFile, CopyUp, Channel), the
processes of start-up run (Daemon). Paging's ReadPage is
fair because a reader that has begun goes on: readdir(3) in a loop; if it does
not, `ReadingEnds` says nothing. Nobody has to send a request, mount, unmount,
stop or start anything, and the kernel's side of a connection is not fair.
LiveCDFS, Lufsd, Instances, Options and Boot state no fairness: their properties are
safety properties, and a request that is never answered is seen as a state
(`reply = "none"`), not as an absence of progress.

## 4. The proofs

TLAPS checks every step; nothing is assumed but the named assumptions of the
modules, and none of the proofs uses fairness. Each invariant below was checked
by TLC on the instance of a run before it was proved.

**LiveCDFS: what holds between requests** (`LiveCDFSProofs`), for every set of
names, every CD image, links and devices included, every number of inodes and
open files, full disk or not:

- `TypeCorrect`: Spec => []TypeOK; `WhiteoutsAreStored`: Spec => []WhiteoutsStored.
- `OpenFilesAreReachable`: Spec => []OpenFilesReachable.
- `ListingsAgree`: Spec => []ListingAgreesWithStat.
- `WritesShow`: Spec => WritesAreSeen.
- `CDWrittenByUnlinkedOnly`: Spec => OnlyUnlinkedFilesReachRoot.
- `OnlyEndlessHang`: Spec => HangsOnlyWithoutEnd.

The first two need `Inv == TypeOK /\ Kept(wo, DiskMayFill)`: that erasing or adding an entry
leaves a list without duplicates needs the list to be a sequence, and the types
of the layers are needed for `Follow` and `CopyTmp` to end in names and nodes.
That a store which fails leaves no duplicates in the file either follows from
what it can leave: the file it found, or a prefix of the list.

The others rest on `TreeInv == Inv /\ Sound(cd, rw) /\ Burnt(cd) /\ Files(...)`.
`OpenFilesReachable` is not inductive, since a request for one name may change
what another leads to. `Sound` says that both layers are trees and that names of
one inode of rw_tmp have one node. `Burnt` says that the CD has the kinds and link
texts it was made with: only contents of its files change. `Files` adds to
OpenFilesReachable that the kernel can walk to the name of an open file, a
component at a time. Most requests first let rw_tmp *grow* (`Grown`): directories
are mirrored and files copied where nothing was, no file of the CD is covered by
a directory, no directory by a file. That keeps the tree and the open files, and
leaves one lemma for the change each request makes at the end.

**LiveCDFS: what a request changes** (the same module):

- `OnlyNamedChanges`: Spec => OnlyNamedChange, the frame condition, for every CD
  image, links included, and a disk that may fill. A request prepares (mirrors
  directories, copies up) and then ends with a change of its own. `OnlyAt` says
  of a layer that it differs from another at some names, and elsewhere only by
  directories where nothing was and the CD has one; `Ends` says how the change
  at the end shows.
- `ErrorsAreInvisible`: Spec => ErrorsChangeNothing;
  `CopyingUpIsTransparent`: Spec => CopyUpTransparent;
  `RenamesMove`: Spec => RenameMoves. These three assume `CopiesFaithful`: the
  disk does not fill in the middle of a copy, and the CD holds directories and
  regular files only. The condition is needed: a copy that comes up short does
  show, and copying a link up yields what it leads to. The run `full_disk`
  does not list these properties for that reason; `files` is an instance.
  `Alike` says that what was made in rw_tmp looks like what the CD has there.

**LiveCDFS implements UnionView** (the same module, its last part), under
`CopiesFaithful`:

- `LooksLikeOneTree`: Spec => ImplementsUnionView, the refinement.
- `RequestsAsPromised`: Spec => RequestsKeepPromises.

The invariant is `TreeInv` and `Numbered`, that each regular file of rw_tmp has
an inode of its own or shares one: without it a link to a file would not be seen
as a second name of it. As for the frame condition, a request prepares and then
ends. The preparations must be no step of UnionView (`PreparedSame`): they are
`Alike`, and they have the hard links rw_tmp had (`Linked`), because a copy is
given an inode nobody has. Then there is one lemma for each system call, for
what its end does to `View` and to `Links`: `AddKeeps` for the calls that give a
name to something, `GoneByParts` for those that take names away, `DataShows` for
those that change a content, `RenamedNames` for the one that does both. Two
directions were needed that the frame condition had not: that a name which
should be seen is (`FaceSeen`: the directories above it are still walked to), and
that where nothing is seen the node is the same Absent in either layer
(`NothingSeen`). On a CD with links the promise is not kept, as copying up makes
a file of a link (`links` has no property of UnionView for that reason), and with
a disk that fills it is not kept either, as a torn copy shows.

Assumptions of all: `PathsAssumption` (names are closed under prefixes),
`DataAssumption`, `ImageAssumption` (the CD is a tree of nodes in normal form:
what is absent or a directory carries no content or text), `RequestsAssumption`.
`WhiteoutProofs` has the lemmas on lists: `SetVisible` and `Load`, and what they
can end in when a store fails, keep list and file free of duplicates, and equal
if no store fails; setVisible hides or shows its name and no other, which, with
duplicates, would not be so.

**Copying up** (`CopyUpProofs`), for any number of channels and size of the file:

- `FileSettles`: Spec => []Settled.

`Settled` speaks of a file nobody copies. `CopyInv` adds what holds meanwhile.
Until a request races a copy, either nobody copies and the file is what the
requests made of it, or one channel does, the requests have changed nothing, and
the file is a prefix of the CD's. After a race each buffer is what the requests
made of it, or the CD's, or a copy that is still being made will come to it.
Before the file is in rw_tmp nobody can write or truncate it. What a race or a
stop may leave behind is thus exactly the exceptions of `Settled`.

**Cache and handlers** (`LufsdProofs`), for any channels, directories, names,
hash, bounds and ttl, negative ones included:

- `CacheStaysWellFormed`: Spec => []CacheWellFormed.
- `NamesStayCurrent`: Spec => []NamesCurrent.
- `ListingsAreCurrent`: Spec => ListingsCurrent.

`LufsdInv` has four parts. `CacheOK`: each bucket is a list of listings that hash
there, no directory twice, with its count. `ChannelOK`: what a channel has read
and has still to do, by where it is. `Apart`: two channels never hold the same
directory (the kernel's semaphores). `CacheCurrent`: a valid listing is that of
the directory *unless a channel that holds the directory has still to invalidate
it*, or the directory is in `untold`. `NamesCurrent` says less, that some channel
will invalidate it, and is not enough: the handler that reads and adds a listing
must know that no other handler is between its change and its invalidation, which
only the semaphore gives; and that the directory it has read is still there
(`Shown`), for which rmdir holds the semaphore of the directory it removes.
`Accounted` says of a step that every directory it changes is either about to be
invalidated or in `untold`. What the calls of the cache do to a bucket is one
relation, `Thinned`: some listings gone, the order kept, time stamps changed.

**Messages** (`ChannelProofs`), for any requests, buffer and replies, closes at
any point included:

- `RepliesAreOwn`: Spec => []OwnReply.
- `HandlersGetWholeRequests`: Spec => []WholeOrLast.

`ChannelInv` says that the socket holds the units from the next to be taken to
the last written (`StreamInv`), and names the eight places the thread can be in
(`Phase`): in a header, in data, before a handler with all of a request or with
what there was of it, in a reply, at rest, at the end. The header that the
thread holds at rest is that of its own last reply, whose type has no handler:
that is why a connection closed before the type field arrives runs none.

**Start-up and instances** (`DaemonProofs`):

- `OrphansAreReported`: DaemonSpec => []OrphanOnlyByFailedMount;
  `SocketsLeft`: DaemonSpec => []SocketLeft, from `StartInv`, which relates where
  the two processes are to what exists: a mount, a socket, an exit status.
- `CountIsRight`: DaemonSpec => []CountsUsers, under `OneAtATime`, for any finite
  set of connections. `CountInv`: at most one thread is inside create or destroy,
  there is at most one instance, and its count is that of its users and of the
  references whose thread never started, give or take the one that is being
  counted. Nothing in livecdfs.cpp makes threads go one at a time, and without it
  the count is wrong: `instances_race` shows an instance deleted in use.

**The boot script** (`BootProofs`), for any number of devices, whatever they hold:

- `SystemIsMounted`: Spec => []SysinitHasImage.
- `FirstDeviceDecides`: Spec => []FirstMediumDecides.
- `DeviceIsFree`: Spec => []MediumFreed.

The three speak of the end of the script. `BootInv` says for each place of it
(`AtIso`, `AtFind`, ..., `AtShell`) what has been mounted by then and what was
found: nothing yet (`Fresh`), the ISO image (`FromIso`), the image of device i
through loop0 (`OnDevice`) or in memory (`InMemory`), or none (`NoneFound`).
What makes it inductive is what bootfromiso leaves when it gives up: `part`,
`cdrom` and two loop devices are exactly those of the ISO image that could not
be mounted (`Under`, `LoopsWith`), and the search then goes over these devices
and over that mount; and that each device passed has no image or is the one
still in use at /part (`Passed`). The only assumption is `BootAssumption`.

**`.whiteout`** (`WhiteoutFileProofs`), for every set of names and every CD, with
stops between any two system calls:

- `StoredAlways`: Spec => []StoredInOrder.
- `LoadIsOneStep`: Spec => LoadKeepsFirst, which justifies `Load` as one step
  in LiveCDFS.
- `Implements`: Spec => HidesOnlyOnRequest, the refinement of HiddenNames.
- `VanishOnRequest`: Spec => OnlyRequestVanishes, with the names in rw_tmp as well.

The inductive invariant is `IInv == Types /\ Unwritten`. `StoredInOrder` speaks
of a daemon that serves; to keep it over a restart `Unwritten` must say what a
daemon that loads has: nothing read yet, or exactly one line read, with the
list, the file and what is still to be written all made of that line. That is
what rules out a second turn of load's loop. For the refinement each action is
shown to be a step of HiddenNames or to leave its two variables alone; the
lemmas on `Range` (of an append, of a list without an entry, of a prefix) carry
it: a store in progress only ever holds a prefix of the list, so that a stop
loses names and adds none. `VanishOnRequest` adds `CallsAbout` to the invariant:
what a request has still to call setVisible for are its own names, so that no
step hides another, and only the request itself takes a name from rw_tmp. The
proofs use no assumption on the constants, not even `NamesAssumption`.

Only model-checked, as it is out of the prover's reach: liveness (`Settles`,
`CopyEnds`, `Answered`, `Released`, `ReadingEnds`, `StartEnds`), ENABLED, and
what recursive definitions and folds compute for every input (`CheckDir` and the
merge in Paging, `OptParse` and the rest of Options). Hence `ListedOnce`,
`DotsFirst` and `LastGivenWins` are left to TLC. `ListedNotSeenOnCD` and
`CopyUpKeepsOrTears`, about a disk that fills, are within the prover's reach but
not proved yet (section 6). Every other property of a passing run is stated by a
theorem.

## 5. Not modelled

- A data race on the vectors of LiveCDFS (the handle list and the list of hidden
  names) by two channels: it has no outcome a model can state.
- Texts: a link text of 2048 bytes (path.cpp:196), lines of a configuration file
  of more than 1023 characters, the mount options that sprintf writes from the
  same buffer (daemon.c:208).
- A lack of memory in lufsd; timeouts of messages, which are all 0.
- Credentials (their result is not used by LiveCDFS), the upstream originals
  (`*.orig-c`, not compiled), the test program.
- rc.sysinit, halt.local, hardware detection, mklivecd: sequences of external
  tools; livecd-install, remaster_gui, the web pages: user interfaces.

## 6. Plan

What could be added:

1. UnionView for a CD with symbolic links. Copying up would have to be a step of
   its own there: a link becomes the file it leads to, or the request never ends.
2. Requests in several threads: LiveCDFS interleaves nothing, CopyUp one file.
   Doing both needs a model of `Path` whose operations are not atomic.
3. Attributes: owner, mode and times, with the listing and the stat cache of the
   kernel, which doSetattr and generic_write leave out of date.
4. Proofs of `ListedNotSeenOnCD` (every request keeps what rw holds or hides what it
   removes) and of `CopyUpKeepsOrTears`, request by request.
