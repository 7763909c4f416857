# A verification project for zune-sync

zune-sync is Android File Transfer for Linux with support for the Zune: an MTP stack in C++
(`mtp/`), three front ends on top of it (`cli/`, `fuse/`, `qt/`) and a Python tool that keeps a
player in step with a Jellyfin server (`tools/jellyfin-sync`). This directory holds TLA+ models of
the parts of it whose correctness depends on the order of events, the TLC runs that check them,
and proofs of what matters most about the music library, the records of jellyfin-sync, the caches of
the file system, the search for a device, the PTP session, the USB transfers and the session of the
Qt window. Paths below are relative to `src/`, the repository's root; `PROJECT.json` maps every
definition to the lines it models.

## 1. Inventory

| Component | State it keeps | Operations | Talks to | What is hard | What makes it correct | Module |
|---|---|---|---|---|---|---|
| Zune music library, `mtp/metadata/Library.cpp`, and the `zune-*` commands of `cli/Session.cpp` | root folders, caches of artists, albums (with references and tracks) and playlists; the library object of the session | constructor (folders, listing), import, playlist clear / add / add by id | MTP session; its lines of output are read by jellyfin-sync | an import is up to seven writes and can end after each; whole reference lists are written from caches; one process per batch, restarted after a failure | references point to complete tracks, one object per name, additions only add, what is printed is true | `ZuneStore`, `ZuneCli` |
| jellyfin-sync engine, `sync.py`, `device.py`, `state.py` | the state file (what is on which player, under which object id) | upload in batches, retry one by one, record, save, rebuild playlists | runs `aft-mtp-cli` | interruption between upload and record; ids remembered across runs and players; results recovered from text | the state file is truthful, runs converge, playlists hold their own members | `JellyfinSync` |
| Jellyfin client, metadata and staging, `jellyfin.py`, `metadata.py`, `formats.py`, `prepare` of `sync.py` | downloads and staged files, which outlive a run | walk lists, merge, download, transcode or pass through, look up, tag | HTTP, MusicBrainz, ffmpeg | lists that change between pages, runs killed in a download, answers in any order | every item once with all its playlists; whole, playable files that keep their own tags | `JellyfinStage` |
| FUSE file system, `fuse/fuse.cpp` | listings, attributes, serialised directories, edit sessions, object cache | one handler per kernel request | MTP session | no cache is ever refreshed from the device; reconnect and retry of a request half done | listings mirror the device, reads return what was written, rmdir deletes nothing but an empty directory | `FuseCache` |
| File commands of `cli/Session.cpp`, the command line (`arg_lexer`, `CommandLine.cpp`, `Tokenizer.cpp`), tab completion | current directory and storage | `cd`, `pwd`, `ls`, `get`, `put`, `mkdir`, `mkpath`, `rm`, `rm-id`, `rename`, `storage`, Tab | MTP session | deletion before sending, names that quotes and encodings change, two storages | paths resolve to what `ls` shows, a put replaces only what had its name, names survive | `CliFiles`, `CliText` |
| PTP messages and streams, `mtp/ptp/Messages.*`, `InputStream.h`, `OutputStream.h`, `JoinedObjectStream.h` | – | encode, decode | session | sizes at a transfer's boundary, characters beyond the basic plane | what is decoded is what was encoded | `Wire` |
| PTP session, `mtp/ptp/Session.cpp`, `PipePacketer.cpp` | transaction counter, current transaction, current stream, parser of one message | one transaction per operation, abort from another thread | USB backend | timeouts in the middle of a message, stale answers, abort racing the end of a transaction | an answer belongs to its question and is whole; the session recovers | `PtpSession` |
| Linux USB transfers, `mtp/backend/linux/usb/Device.cpp`, `BufferAllocator.h` | URBs in flight, 16 transfer buffers | submit, reap, discard | kernel | completions of discarded URBs, told by address; buffers running out | packets in order, without repetition; no buffer is lost | `UrbQueue`, `BulkChannel` |
| Finding and opening a device, `mtp/ptp/Device.cpp`, `Context.cpp`, `DeviceBusyException.cpp`, `qt/devicesdialog.cpp` | claimed interfaces, rows of the dialog | scan, probe, claim, list the processes in the way, kill them | kernel, `/proc` | one of several devices is busy or breaks while others must still be tried | no claim is left, no usable device is overlooked, the processes offered for killing are the users of that device | `DeviceOpen` |
| MTPZ, `mtp/mtpz/TrustedApp.cpp` | keys, challenge, session | handshake in five requests | session | order of the steps, answers of an earlier challenge, end of the session | only a verified player is trusted with the keys | `Mtpz` |
| Qt window and its device, `qt/mainwindow.cpp` | device, session, model, library, dialog | open, reconnect, release for jellyfin-sync, install keys | MTP session, jellyfin-sync | several owners of one session, whose destructor speaks to the player | the window works with the session the player has open | `QtDevice` |
| Qt transfers, `qt/commandqueue.cpp`, `fileuploader.cpp`, `mtpobjectsmodel.cpp` | queue of commands, abort flag, cached rows of a folder | upload, download, import | MTP session from two threads | the queue's thread against the window's | files go where the path says, an abort ends one job and only that | `QtUpload`, `Formats` |
| Other USB backends (`libusb`, `darwin`, `haiku`, `posix`) | – | as the Linux backend | system libraries | – | – | – |
| Python bindings, packaging, documentation | – | – | – | – | – | – |

The components meet in four ways. jellyfin-sync starts `aft-mtp-cli` processes and reads what they
print. The commands, the FUSE handlers and the Qt queue call `mtp::Session` and keep caches of what
it returned. The session runs over two bulk pipes that the kernel multiplexes. The Qt window starts
jellyfin-sync, and gives up its device meanwhile.

The behaviours that are hard to test are listed one by one under `hazards` in `PROJECT.json`, each
at the line where it bites, with the properties that watch it or the reason why none does.

## 2. Plan

Written, in this order:

1. `ZuneStore`, the abstract library, and `ZuneCli`, the commands with caches and failures, which
   implements it; `ZuneCliProofs`.
2. `JellyfinSync`, the state machine of a run over players that behave as `ZuneStore` says, with
   its operators (`Device == INSTANCE ZuneStore ...`); `JellyfinSyncProofs`.
3. `FuseCache` and `PtpSession`; `FuseCacheProofs` and `PtpSessionProofs`.
4. `BulkChannel`, what the protocol relies on in one direction of a pipe, and `UrbQueue`, which
   implements it twice (`In == INSTANCE BulkChannel`, `Out == ...`); `UrbQueueProofs`.
5. `DeviceOpen`: the search for a device, with its three callers; `DeviceOpenProofs`.
6. `Formats`, what a local file is taken for, and `QtUpload`: the window and its worker; `Mtpz` and
   `QtDevice`, which extends it; `QtUploadProofs` and `QtDeviceProofs`.
7. `Wire` and `CliText`, pure operators, and `CliFiles`, the commands on files that use both.
8. `JellyfinStage`: the first half of a jellyfin-sync run, ahead of `JellyfinSync`.

Left:

* Proofs: the invariants of `CliFiles` and `JellyfinStage`.
* Runs in which a document of the repository is contradicted, beside `ZuneCliDuplicate`: the
  candidates are named under "Where the properties make exceptions".
* The object cache of `fuse.cpp` for devices without `GetPartialObject`, and requests of another
  thread between an exception and `Connect`.
* A file system without caches as the abstract specification of `FuseCache`; a transfer of
  `PtpSession` as what `BulkChannel` delivers.

## 3. Modules

### ZuneStore, ZuneCli

`ZuneStore` is what the commands promise: a track appears in the library in one step and never twice,
a playlist is cleared, or extended at its end by an id it does not hold; what the user deletes goes from
the library and from every playlist. There is one thing it promises less than a user would expect:
`misread` are the playlists a process failed to read without noticing, and such a playlist may be
replaced by the one entry added to it (`ReplaceList`), or have a double (`LoseLists`).

`ZuneCli` has the device (`obj`, `refs`, `lists`), one process (`pc`, `cmds`, `loc`, `out`) and the
fields of `Library` (`artists`, `albums`, `plists`, ...). `pc` names the MTP call that comes next.
Each call that writes is an action; a call that only reads is part of the action that uses what it
read, since nobody else changes the device during a session. Every writing call may fail before it
took effect, or take effect and lose its answer; in batch mode both end the process, at the prompt
the command, with the caches as the exception left them (a reference list the code changes before
the write stays changed). Between processes the owner deletes tracks and empty folders, and the
device may drop a track whose data never arrived.

`Library::Library` is `BeginInit`, `CreateRoot`, `QueryArtists`, `LoadArtist`, `QueryAlbums`,
`LoadAlbumArtist`, `LoadAlbum`, `LoadPlaylists`. `Session::ZuneImport` is `NeedArtist`,
`ArtistFolder`, `ArtistObject`, `AlbumFolder`, `AlbumObject`, `SkipTrack`, `CreateTrack`,
`SendObject`, `AddCover`, `AddTrack`. The playlist commands are `CreatePlaylist`, `ClearPlaylist`,
`AddToPlaylist`, `NotOnDevice`. `LoadPlaylists` swallows two failures (`Library.cpp:437` and `446`):
of the name of a playlist, which is then not known, and of its references, which then count as none.
Both may happen to any playlist in any process. `unnamed` is the history of the first, `whole` in the
cached playlist says that the second did not happen. `MCZuneCli` gives each `user` a set of command
lines and a device with room for a number of objects; who has playlists deletes tracks and playlists,
and has at most two of these.

### JellyfinSync

`phase` follows `Syncer.run` from the connected device on: `batches` (`import` and `retry` inside
one), `save`, `lists`. `disk` is the state file, `mem` its copy in memory, `shown` and `playlist` the
players. A command changes a player the way `ZuneStore` allows, which is what `ZuneCli` is shown to do.
The players exclude what `ZuneStore` calls `misread`: of the tool's command lines those that add to a
playlist clear it first, in the same process, so that nothing is left to be lost by a list read as empty.

Which line of output is taken for which file is kept: `Mentions` says whose name occurs in whose line
(`device.py:220`), `ErrorLike` whose line reads like an error (`device.py:148`), `Hanging` which import
does not come back before its timeout (`device.py:125`). `Order` is the order in which tracks are
listed, and a list of tracks still to be prepared or added (`todo`, `adds`) is a set of positions in
it. A `scene`, chosen at first, says how the tracks are named, how many a run takes, whether runs may be
forced and whether the owner deletes tracks; `deleted` is the history of what was deleted.

### JellyfinStage

`collect` is a walk: `Selected` says for a configuration and a library what it should find, the
actions ask for one page at a time while the library may change. `prepare` makes one file after the
other: look up (`Candidates`, the release), download, convert or keep, tag, cover. The MusicBrainz
entries are constants, their order in an answer is chosen anew each time. What a killed run leaves in
the directories is there in the next one.

### FuseCache

One request is served at a time, as `_mutex` makes it. An action is one call on the session and the
bookkeeping after it; `op.at` says where the handler is. A call may be refused, carried out without
an answer, or find the device gone; then `WRAP_EX` reconnects, which empties the caches, and serves
the request again from its start, once. A second exception, or an edit session whose destructor meets
the dead connection, ends the process (`Dies`), as the code does. `doubted` collects the directories
and files on which a fault struck: the code does not promise to know them afterwards and the
invariants leave them out, all others must still be right. A listing on the device is a whole or what
an exception leaves of it; a deletion takes the least set along that is closed under children (`Below`). The storage is directory `Top`; its
listing is made and cached as that of any directory. `Open` and `StatFS` are handlers of their own:
they change no cache, but they call the session and take part in the retry.

### PtpSession

Messages are sequences of chunks (transfers). The host parses them as `MessageParsingStream` and
`HeaderParserObjectOutputStream` do: `parser` is `fresh` at a header, then `data`, `foreign` (a
message of another transaction, dropped), or `endless` (a size that will not be reached). A call that
timed out leaves chunks of its answer to the next one. `AbortBegins`, `AbortCancels` and `AbortTells`
are the three steps of `AbortCurrentTransaction` in another thread. The device may stop in the middle
of a message when told to abort; `truncated` remembers that it has.

### BulkChannel, UrbQueue

`UrbQueue` is `WriteBulk` and `ReadBulk` under `usbfs`: a transfer is a loop of URBs that live in the
frame of the caller, `inflight` and `reapable` are the kernel's two lists. A reaped completion is
taken for the current URB when its address is, whichever transfer it was submitted for; that a
discarded URB is reaped like a completed one is why this matters. `BulkChannel` says what may come
of it: gaps in what was transferred, at most one for each transfer that was given up, and never a
packet twice or out of order. The queue implements it in both directions. Nothing in it depends on
the size of a transfer: any number of packets may go in with a step.

### DeviceOpen

The scan gives a list; for each device `Open` reads the descriptors, looks at one interface after
the other, claims one, and makes its pipe. What fails in between is an exception that the callers
treat differently: `FindFirst` and the dialog go on with the next device, `--device-list` too, and a
busy device is remembered with the processes that use it. `DeviceBusyException` goes through
`/proc/*/fd` and names every process that has the node of the device open, whether it has claimed an
interface or not, and skips those it may not read (`FindUser`); processes open and close devices
meanwhile (`OtherOpens`, `OtherCloses`), and one that closes a descriptor as it is read may be named
whatever it had open (`FindRaced`). `holders` says who has claimed each device, `users` who has it open;
`early` and `ever` are the history of `users` since the list was begun.

### Formats, QtUpload

`Formats` says what a local file is taken for: its format, by `libmagic` or by its extension, and how
good a cover its name makes it. `QtUpload` uses it to tell the music, the images and the rest of a job
apart.

Two threads: the window (`gui`) with its dialog, and the worker (`work`) that takes commands off the
queue. Both call `MtpObjectsModel`, whose cached rows belong to the folder on show; a worker that
enters another folder changes what the window sees. A signal is a step of its own where Qt queues it.
An abort is the flag and the cancellation, at any moment; a transaction that was cancelled in time
fails. `sent` remembers where each file of a job has gone. Between two jobs, and while the worker
runs, the user enters folders, deletes, renames and makes new ones. A selection of several
directories is a job for each, one after the other (`rest`, `NextSelected`), also after the dialog of
the one before closed. The covers of an import are collected file by file (`Scored`, `Pictured`) and
set when all files are through (`Finish`, `ChooseCover`, `SetCover`): `covers` holds what the worker
found, `maps` which album's files lay in which folder, `art` what the player has.

### Mtpz, QtDevice

`Mtpz` holds the requests of `TrustedApp::Authenticate` and of the destructor; a message is a record
of which challenge it answers and what is wrong with it. `QtDevice` extends it with `openDevice`,
`reconnectToDevice`, `releaseDevice` and the download of keys. `ref` says which session each of the
window, the model and the library holds; when the last reference goes, the session says
`CloseSession`, through the claim it has, if that is still the one the kernel honours. Keys are
installed wherever the menu can be reached, and `back` says where that was; the window goes on from
there when the handshake with the new keys is over.

### Wire, CliText, CliFiles

`Wire` are the encodings, byte by byte where a property can tell them apart: strings in UTF-8 and
UTF-16 with the code's own conversion, datasets, and the read of a container's header and payload as
one stream. `CliText` is the lexer, the quoting and the escaping. In `CliFiles` a command is a stack
of steps (`prog`), an action the step on top; `val` is what the last lookup found. The device answers
as the three kinds of `MCDevices` do: with property lists, with `GetObjectInfo` only, or refusing.
A `put` looks up, deletes, opens the local file (`OpenLocal`), announces it and sends it; each of these
may fail, and when the path had to be looked up, the failure leads to the second attempt, which makes
the path as new folders. A local file may be unreadable, a local folder may not be listable
(`FillDirectory` then sends nothing and says nothing, as `opendir` does). `clean` says that nothing
went wrong since the command began, `before` what the device held then, `gone` what its owner deleted
since.

## 4. Runs

| Run | Question | Bounds | Distinct states, about | Expectation |
|---|---|---|---|---|
| `ZuneCli` | Does the library stay sound, and implement `ZuneStore`, when imports and changes of playlists fail, are killed and are repeated? | an album of two tracks in two command lines on a device with 11 handles; a playlist in three command lines with 9; any failure to read a playlist | 270 000 | pass |
| `ZuneCliPrompt` | Is `CachesInv` an invariant where a failed command leaves its caches behind, on a device without artist objects, and does each session end? | two files without artist or album with 9 handles; the album of two tracks with 8 | 105 000 | pass |
| `ZuneCliDuplicate` | Is a file on the device at most once? | the album of `ZuneCli` | – | violation |
| `JellyfinSync` | Is the state file truthful, do playlists hold their own members, do repeated runs bring everything over? | three tracks, batches of two, two players, three faults, and one of six scenes: `--limit 2`; `--force`; a song called "Error" with `--limit 1`; a file that hangs; a name within another; two tracks staged under one name and an owner who deletes | 300 000 | pass |
| `JellyfinStage` | Does a collection have what is selected, and is each file whole, playable and stably tagged? | four tracks, pages of two, six scenes, one change of the library, one fault, runs without end | 120 000 | pass |
| `Fuse` | Do listings mirror the device, and do reads return what was written? | two names, two directories and a third object with one fault; one name, three directories within each other with two; one file, one write, truncation with two | 2 130 000 | pass |
| `PtpSession` | Is what succeeds whole, and does the session recover? | data of two chunks, two timeouts or aborts, five ids | 75 000 | pass |
| `UrbQueue` | Is each direction a `BulkChannel`, and do buffers come back? | transfers of two packets, three packets in each direction, two frames for reads, two buffers, two faults | 240 000 | pass |
| `DeviceOpen` | Is a usable device found, without a claim left behind? | two devices, the first of five kinds, three filters, two other processes, one of which claims and one of which has devices open, any opening and closing by them, two faults | 820 000 | pass |
| `QtDevice` | Is the session of the window the one the player has, and trusted? | three pipes, six challenges, two faults | 23 000 | pass |
| `QtUpload` | Do files go where they belong, and does each job end? | two small trees, seven selections (two of them of several directories), two in a row, one fault, an abort at any moment | 980 000 | pass |
| `CliFiles` | Do the file commands do what they say? | two commands in a row of 34, ten lines to complete, three kinds of devices, two contents, two storages, one fault, an unreadable file and folder, transfers of 8 bytes | 330 000 | pass |

Why the bounds are enough to be interesting. A handle of the device is taken again as soon as it is
free, the lowest first, so that a cache that holds the handle of a deleted object meets another
object under it. The number of handles lets one import leave its orphans and be repeated in full.
In `JellyfinSync` a batch of two of three tracks gives a full and a partial batch, and a limit below
three gives runs that differ in what they upload. The song called "Error" and the file that hangs are
the first in the order, so that they can hold up all others. Pages of two split every list of `JellyfinStage` of more than
two entries at a point where an entry can come or go. A directory within a directory, two names and a
third object are what creation, renaming onto a name and removal need in `Fuse`; one fault there
reaches each call of each handler, and the second one of the other two loads the retry. Three levels
of directories are what a removal needs whose directory is itself gone from the device. Two chunks are the
least that has a middle of a message; five transaction ids outlive what two faults leave in the pipe.
In `UrbQueue` a transfer of two packets can end short or full, and two faults leave two stale URBs at
one address. A second device in `DeviceOpen` is what the first one may hide, and what a list of
users may be mixed up with; the two processes are one that may be read in every world and one that may not. Two jobs in a row show
what an abort of the first does to the second. Three pipes are the first, one handed over and one
reopened, with two faults in the middle. The files of 3, 4 and 5 bytes of `CliFiles` put the end of a
container of 8 bytes' transfers before, at and after a boundary; their names have characters of one, two
and four bytes. The run passes with two faults as well, in about 1 800 000 states.

`UrbQueue` and `CliFiles` may stop for good: all packets are transferred, or the two commands are
done. All other runs check for deadlock.

### Properties

A property with parts is a conjunction; its parts have comments of their own in the module.

* `ZuneCli`. `RefsComplete`: an album references only tracks whose data arrived completely.
  `NamesUnique`: never two folders, artists, albums or playlists of one name, whatever was
  interrupted. `PrintedIsOnDevice`: an id that `zune-import` printed is a complete track of that
  title, in its album. `ProcessOnlyAdds`: although `AddTrack` writes the whole list from a cache, no
  album loses a track. `AddKeepsEntries`: adding to a playlist keeps what is in it, in order, and all
  other playlists, unless this process could not read the list it adds to.
  `ImplementsStore`: `ZuneCli` refines `ZuneStore`; the mapping shows what albums reference.
  `CachesInv`, with `RefsInv` in it: the invariants of the proofs. `Terminates`: a process comes to an end.
* `JellyfinSync`. `RecordsTrue`: a track on record was put on that player, and is there unless the owner
  deleted it; its id, if any, is its own or that of a file whose line contains its name
  (`StateTruthful`); and a playlist of the tool holds only such ids of its members (`PlaylistsOwn`).
  `IdsKept`: ids are not forgotten by a run. `Converges`: once faults stop, everything arrives and is
  recorded, but what keeps being in a batch with a file that hangs or reads like a failure, and what
  the limit leaves behind such files. `PlaylistsRebuilt`: each playlist whose ids the player still has is
  complete again and again.
* `JellyfinStage`. `CollectionRight`: a collection has every track selected when it began, and none
  that never was, if nothing was removed meanwhile (`CollectsSelection`), each with all its playlists
  (`PlaylistsUnited`). `FilesRight`: files handed over were downloaded whole (`WholeAudio`), can be
  played (`PlaysOnZune`), lose no tags of their own (`OwnTagsKept`), and a track without an album is
  tagged alike in every run (`UntitledStable`). `CollectionEnds`: also on a server without counts.
* `FuseCache`. `CachesMirror`: the cached listing of a directory no fault struck is the device's
  (`Mirror`), and the serialised directory is the listing (`DirCacheCurrent`). `ReadsCurrent`: a read
  returns all that was acknowledged. `RmdirOnlyEmpty`: `rmdir`, which deletes recursively, meets an
  empty directory, unless its listing is in doubt.
* `PtpSession`. `AnswersWhole`: what succeeds has its own data, all of it (`WholeAnswer`).
  `Recovers`: calls succeed again after the faults.
* `UrbQueue`. `NothingPilesUp`: no more URBs are behind than there were faults (`LagBounded`), every
  buffer is returned (`BuffersReturned`), and what was given up is accounted for (`GivenUpOnce`).
  `ReadsAreChannel`, `WritesAreChannel`: the refinements.
* `DeviceOpen`. `SearchFinds`: what is opened is wanted (`OpenedIsWanted`), and nothing is found only
  if nothing could be (`NoneIsNone`). `ClaimsAccounted`: no exception leaves a claim. `UsersNamed`:
  the processes the dialog offers for killing are the users of that device, all that have had it open
  since the list was begun and may be read, and none that has not had it open since. `SearchEnds`.
* `QtDevice`. `SessionsRight`: the window's session is the one the player has open (`WindowLive`), the
  player trusts it (`TrustedWhenOpen`), a handshake is about the newest challenge (`HandshakeSound`), and
  no session of the window has the interface while the tool runs (`HandedOver`). `TrustIsEarned`: the mode is turned on only for a session that verified the
  answer to its own challenge. `OpeningEnds`.
* `QtUpload`. `FilesInPlace`: what is replaced has the name and folder of the file
  (`ReplacedInPlace`), folders are where a path of the upload says (`FoldersInPlace`; see the note on
  `createDirectory` below), no two files of a folder share a name
  (`FilesUnique`, unless the user renamed one to that name), and the folder on show is the one of the
  history unless music was imported (`LocationKept`). `JobsComplete`: a job without abort or failure has sent every file
  (`NothingForgotten`), and an album it imported has the best image of its folder as cover
  (`CoversRight`). `Uninterrupted`: nothing comes between `SendObjectInfo` and `SendObject`.
  `JobEnds`: every job ends; the window is idle, begins the next one, or the application has crashed.
* `CliFiles`. `PutLands`: what a put that reports success says it has sent is there, whole, whatever
  failed on the way: a file where the path says (`FileLands`), the files of a folder in one folder of its
  name (`FolderLands`). `PutReplaces`: without a failure, a put leaves no second object of the name
  (`PutOnce`), and however a put ends, it deleted nothing but what had the name of the new file
  (`PutKeeps`). `DeletesThat`: what `rm` and `rm-id` delete. `ReadsTrue`: what `get` writes, `ls` lists and
  `pwd` prints. `NamesSurvive`: an offer of the tab key is one argument and leads to the object it stands
  for (`TabNames`), and a line quoted by jellyfin-sync is read as one name (`QuotedWhole`). `TypeOK`.

### What the violation shows

`ZuneCliDuplicate`: `CreateTrack` and `SendObject` come before `AddTrack`, and only the album's
references are searched for a track that is already there. An import that dies between them is
repeated in full; `state.py:53` says that nothing will be duplicated.

### Where the properties make exceptions

These are behaviours of the code that a comment or a README of the repository, or a user, does not
expect. The models have them; the property they concern names them as an exception.

* `Library.cpp:446`: `LoadPlaylists` swallows a failed `GetObjectReferences`; the playlist counts as
  empty and the next addition overwrites it. `AddKeepsEntries` and `ZuneStore` (`ReplaceList`) except
  that playlist in that process.
* `Library.cpp:437`: it swallows a failure to read a playlist's name as well; the playlist is then made a
  second time. `NamesUnique` and `ZuneStore` (`LoseLists`) except playlists of a name in `unnamed`.
* `device.py:125`: a batch that times out is not retried file by file, as
  `tools/jellyfin-sync/README.md:103-104` says of a failed batch; what shares a batch with a file that
  always hangs never arrives, nor does what `--limit` leaves behind it. `Converges` ends at such batches
  (`Stuck`).
* `device.py:148`: the line that reports an import contains the file's name, hence the title; a title
  with "error", "failed" or "exception" in it turns the success into a failure, in every run
  (`Stuck` again).
* `device.py:220`: a name that is contained in another of its batch can be given the other's id, and a
  playlist the other's song. `StateTruthful` and `PlaylistsOwn` admit that (`Given`).
* `sync.py:294`: the tool does not learn that a track was deleted on the player. It stays on record, and
  `PlaylistsOwn` and `PlaylistsRebuilt` except what was `deleted`.
* `metadata.py:180`: for a track that names an album, the first release of that title in the answer
  is taken, which the comment at `metadata.py:187-191` means to avoid; `UntitledStable` is about the
  tracks without an album.
* `cli/Session.cpp:918`: `MakeDirectory` takes a parent and makes the folder in the current directory;
  `mkpath a/b` and the upload of a folder into another one put it beside its parent, against the help
  at `cli/Session.cpp:125` and `166`. Nor does `put e q/x` put the file where the path says if there is no
  `q`: it makes folders `q` and `x` in the current directory, and puts the file into `x` under its own name.
  `FileLands` then asks only for a folder of the path's last name, `FolderLands` for a folder of the
  name, wherever it is.
* `cli/Session.cpp:909-913`: any exception of the first attempt, after its deletion too, leads to the
  second one, which takes the path for one to be made. A request that failed while looking up a folder
  makes `put` take the folder for a file, and delete it with all that is in it: `PutKeeps` excepts it
  when a request has failed (`Strays`), and `FileLands` admits those places.
* `cli/Session.cpp:849-854`: what has the file's name is deleted before the file is opened; if it cannot be
  opened, the object is gone. `PutKeeps` says that nothing else is.
* `cli/Session.cpp:823-828`: a folder that cannot be listed is sent as an empty one, and the put reports
  success. `FolderLands` is about folders that can be listed.
* `OutputStream.h:101-107`: a character of four bytes is sent as question marks. The file is not found
  under its name again, so `PutOnce` is about names that arrive; `FileLands` expects the question marks.
* `cli/Session.cpp:245` (`EscapePath`, `CompletePath`): an offer with a space is put in quotes even where
  the line has an open quote, which the offer then closes: after `cd "A/q` the tab key offers
  `"A/q r/"`, and the line becomes two arguments. And where the word that readline
  completes is not the last argument (after a space, an escaped space, or a space in quotes) the offers
  are for something else. `TabNames` excepts these lines.
* `DeviceBusyException.cpp:96-122`: a process that may not be read is not named, and any that has the
  device open is, whether it claimed it or not; `UsersNamed` says so. If the link of a descriptor cannot
  be read (line 42), an uninitialised buffer is compared: `UsersNamed` excepts the process that closed one
  just then (`raced`).
* `mainwindow.cpp:429`: the library keeps the session it was made with after the device was released,
  although `mainwindow.cpp:1171-1173` drops the others for the reason given there; `HandedOver` makes
  an exception for it.
* `commandqueue.cpp:317`: the folder of an image is compared with that of an album by the beginning of
  its path; a folder "M" without images is given those of "MM" (`StartsWith`). `CoversRight` is about
  albums whose folder has images of its own.
* `mtpobjectsmodel.cpp:250`: `createDirectory` looks a folder up by its name in the folder on show,
  not in the parent it was given, as `uploadFile` takes care to (`commandqueue.cpp:127`, "needed for
  overwrite protection"). A selected folder "A" that holds a folder "A" is merged with it, and so are
  "A/B" and "A/C/B" once a file of "A" was sent; files of one name then meet, and the user is asked
  whether the later is to replace the earlier. The run has such a folder; `FoldersInPlace` asks only
  that the folder is where one of its paths says.
* `mtp/ptp/Session.cpp:577`: an abort that cut a message short may let a transaction succeed without data;
  `WholeAnswer` exempts it.
* `fuse.cpp:257`, `763`, `812`: what a fault struck stays in doubt (`doubted`), and the properties of
  `FuseCache` do not judge it: that a listing is incomplete, a target gone or an object there twice
  after a failed request is what the code does. They say that the doubt goes no further.
* `jellyfin.py:136`: an item may be missed when another is removed between two pages; `CollectsSelection`
  is about collections from which nothing was removed.

Behaviours that contradict a document, as the timeouts of batches, the folders of `put` and
`metadata.py:187-191`, could each be shown by a run of their own, as `ZuneCliDuplicate` does for one.

### Fairness

A transaction is answered or times out, a subprocess has a timeout, a thread that holds no lock runs
on: this is what the fairness below rests on. Nothing is assumed of users, of the moment of a fault,
or of when a process is started, but where it says so.

| Module | Weak fairness of |
|---|---|
| `ZuneCli` | the steps of the process; where `MCSpec` bounds the objects, of those that fit (in `ZuneCliPrompt` every step does) |
| `JellyfinSync` | the steps of a run, and the start of the next one ("the user keeps running the tool"); faults are bounded, which is what "once faults stop" means |
| `JellyfinStage` | the steps of a run that was begun |
| `PtpSession` | the caller's next call, the end of a read, the device's answer, the end of an abort |
| `DeviceOpen`, `QtDevice` | the steps of the search, and of opening |
| `QtUpload` | the worker's steps, what the window does when a job is over, and the answers of the dialog the user is asked in |
| `FuseCache`, `UrbQueue`, `CliFiles` | none: no liveness property |

## 5. Proofs

`ZuneCliProofs` proves, for all values of the constants that satisfy the assumptions of `ZuneCli`:

* `TypeCorrect`: `Spec => []TypeOK`;
* `RefsInvHolds`: `Spec => []RefsInv`;
* `RefsAlwaysComplete`: `Spec => []RefsComplete`.

`RefsComplete` is not inductive. `AddTrack` writes the cached references and the new track to the
device, so the cache must hold complete tracks only (`CachesComplete`), and so must the local that
names the new track: it is a track since `CreateTrack` and complete once `SendObject` was answered
(`SongSent`). The caches are filled from the references of what the constructor found, which are
albums (`UnreadAreAlbums`). The owner deletes objects only while no process runs, and then there are
no caches that could refer to them (`NoProcessNoCaches`). `ImportUnderWay` and `ConstructorUnderWay`
say which commands the intermediate values of `pc` belong to. `RefsInv` is the conjunction;
`ZuneCliPrompt` checks it with TLC, as a part of `CachesInv`. The proof has one lemma for each action of `Next`, and lemmas on
`Without` and `Remove` that say what a deletion leaves of references and playlists.

It goes on from there to

* `CachesInvHolds`: `Spec => []CachesInv`;
* `PrintedAlwaysOnDevice`: `Spec => []PrintedIsOnDevice`;
* `ProcessAlwaysAdds`: `Spec => ProcessOnlyAdds`, for `Interactive = FALSE`.

`SetObjectReferences` overwrites the list of an album with what the cache holds, so both need that cache
and device agree. `CachedIsListed`: a cached album is the one of that artist and name (two entries are
thus two objects, `AlbumsApart`), and the device shows what the cache holds. `PrintedIsCached`: a track
that was printed is in the cache, so a later import writes it back. `LoadedIsWhole`: the cache holds
all the device shows. The last one holds only where a failure ends the process. At the prompt the
answer to `SetObjectReferences` may be lost; the device then shows a track the cache does not know,
and the next import to that album drops it from the list (`Library.cpp:409`). That import had
failed, so nothing printed is lost, and `PrintedAlwaysOnDevice` holds there too. `LoadAlbum` uses that
every album has an artist (`AlbumsHaveArtists`), `AddTrack` that the song has its title (`SongNamed`).

The second half of the module builds on both:

* `StoreInvHolds`: `Batch => (Spec => []StoreInv)`;
* `CommandsImplementStore`: `Batch => (Spec => ImplementsStore)`.

Most steps must be shown to show nothing: objects keep what they are known by (`SameObject`), a new album
has no references and a new playlist no contents and no namesake (`NothingShown`). `AddTrack` is a
`Publish`. For that the album must not show such a track yet, and whether it does was decided at
`SkipTrack` or `CreateTrack`, some calls earlier, from the cache. `TracksKnown`: the tracks of an album
that was read are cached with the device's titles and numbers; `SongNew`: the song of an import in
progress is in no album, and none of its album is like it. One album to an artist and name
(`AlbumsUnique`) needs that no album of the device is unknown when `AlbumObject` makes one
(`AlbumsKnown`, which goes through the constructor's loop by way of `unread`); likewise
`PlaylistsKnown` for playlists, whose cached contents are what `ExtendList` appends to. A deletion is a
`Withdraw`, or, of a playlist, a `DropList`, which no run of this size meets with the playlist inside
another one: the proof does. `Batch` says that a failure ends the process and that track numbers are below
`TrackModulus`. Each is needed: at the prompt a lost answer makes the next import drop a visible track; a
track whose number was cut is not recognised and shown twice. Reading playlists may fail unnoticed: a
process that starts may lose sight of some (`QuietlyLost`), and what it then adds to one replaces it.

It also proves `NamesAlwaysUnique`: `Batch => (Spec => []NamesUnique)`, and
`AdditionsKeepEntries`: `Batch => (Spec => AddKeepsEntries)`. Names stay unique because what the code
looks up before it creates is never missing there. `CachesNamed`: a root the device has is known once
the constructor has passed it, an artist the device has is in the cache or still to come in the
constructor's loop, and the listings that loop looks folders up in, made at its start, still show
every folder (`ListingsHold`), for only the owner deletes, and only between processes. `NewArtist`
and `AlbumsListed` carry this over the calls between the lookup and the creation. `NamesInv` is these
and `StoreInv` together. Both theorems hold with every failure to read a playlist, and make the exceptions
`NamesUnique` and `AddKeepsEntries` name (`Spared`).

The assumptions are that the folders' names and the defaults of missing tags are names, that `Meta`
gives tags or `NoMeta` for each file, that a fresh handle is one that is not in use, and that the
track number's modulus is positive. TLC evaluates them in every run of `ZuneCli`.

`UrbQueueProofs` proves `NothingEverPilesUp`: `Spec => []NothingPilesUp`, for every size of a transfer
and number of buffers, packets and faults, and for all sets of addresses in which reads and writes
are apart. `NothingPilesUp` is inductive. That no URB of a direction is taken for one of the other
(`MineIsOfMyDirection`) needs the addresses apart; that the buffer is given back needs only that
every way out of a transfer ends in the destructor (`EndCallFrees`); that no more URBs stay behind
than there were faults follows because only a timeout leaves one, and a stale completion taken for
the call's own changes places with it. The lemmas before are about a sequence without one of its
elements and the first element with a property.

It goes on to `ReadsAlwaysChannel`: `Spec => ReadsAreChannel`, and `WritesAlwaysChannel`:
`Spec => WritesAreChannel`, the two refinements of `BulkChannel`. The order is one half: packets that
came out are before those still to come (`Passes`), a URB holds packets in a row and the URBs hold
them in the order they are served in (`RowsOrdered`), and an endpoint fills one URB at a time
(`FillsFirst`). That what is missing was given up is the other half. A read that nobody waits for
is harmless while it lies there; it is a later transfer that drops it, with no fault of its own. So
the invariant counts ahead: the runs of lost packets and the reads left behind together never
exceed the transfers given up (`LossesPaid`), and the read of a transfer that waits is not one of those, for
some URB of its address is still with `usbfs` (`OwnIsThere`). What a write has not delivered is lost
at once, when its URB is discarded or fails. `OrderInv` is the conjunction; each action is shown to
be a step of both channels (`OrderStep`). The gaps the abstract channel counts are no more than the
runs lost (`GapsAreLosses`).

`QtDeviceProofs` proves `TrustAlwaysEarned`: `Spec => TrustIsEarned`, for all natural numbers of
challenges and faults and any bound on pipes. `TrustIsEarned` speaks of one step and needs an
invariant, `HandshakeInv`: the state has its type and `HandshakeSound` holds. The challenges with which a
handshake was completed are never newer than the last one; a handshake that waits for an answer is about
the last one; and once `VerifyResponse` let an answer pass, it echoes that challenge. The step that
turns the mode on is then the only one left to look at (`OnlyHandshakeTrusts`): the tool, another
program and a replug change the player too, but make it trust no session of the window. What a message
contains and who can make it is what `Mtpz` assumes of the cryptography, not something proved.

`QtDeviceProofs` goes on to `WindowIsRight`: `Spec => []WindowInv`, and `SessionsAlwaysRight`:
`Spec => []SessionsRight`. The window, the model and the device's own reference come and go together
wherever the window is (`RefsRight`), a claim of this process belongs to a pipe somebody refers to
(`ClaimHeld`), and the `TrustedApp` with keys is that of the window's session (`AppRight`); as long as
nothing fails the claim, the session and the trust are the window's (`LiveRight`, `TrustRight`). The
proof found what the model lacked: where the window was when keys were installed (`back`), and that
a failed opening can leave a session behind in the `TrustedApp`, which `HandedOver` now names.

`JellyfinSyncProofs` proves, for all tracks, playlists, devices, batches and faults,

* `RunsAlwaysKeep`: `Spec => []KeepingInv`, and from it `IdsAlwaysKept`: `Spec => IdsKept`;
* `RecordsAlwaysTrue`: `~SwapMidRun => (Spec => []RecordsTrue)`.

`RecordsTrue` speaks of the state file and the players; between an upload and the save the truth is in
the output of a process, the ids read from it, the set of files done and the copy in memory. `TruthInv`
says of each of them what `RecordsTrue` says of the file (`OutputTrue`, `BatchAccounted`, `RecordTrue`).
It does so in terms of what each player has given out: the ids it gave for a file (`Held`), those that can
be read for it from its own line and the lines that contain its name (`Lent`), those of a playlist's
members (`Owned`). These sets only grow (`MoreIsRemembered`): what the owner deletes is remembered by
`deleted`, so deletions, names within names and tracks staged under one name need no assumption.
`KeepingInv` is what holds whatever the output says: only files
with tags are uploaded, what a playlist is given is on record and its own, nothing on record is
dropped. The one assumption, that players are exchanged between runs only, is needed: otherwise a
track is recorded for the wrong player.

`PtpSessionProofs` proves `SessionIsSound`: `Spec => []SessionInv`, `AnswersAlwaysWhole`:
`Spec => []AnswersWhole`, and `IdentifiersAlwaysFresh`: no call takes an identifier of which a request or
a chunk of an answer is still on its way. That a call that succeeds was given its own answer and all of
it follows from the order of what is on the line. `LineSound`: the line consists of answers, each
whole unless an abort has cut one. `OwnSound`, `GotSound`: the answer to the current call is the
last one, and what was received of it is its beginning, the rest coming next. `ParserSound`: data of
the call itself is lost only to a message that was cut. `AgeSound` accounts for identifiers: each call
that was left without its answer was paid for by a fault, so no answer on the line is older than the
faults allow. The assumption `IdsOutlive`, that there are more identifiers than the faults of a run
can leave unanswered, then excludes that an identifier comes round while its last answer is on the
line; the code has 2^32 of them.

`DeviceOpenProofs` proves `SearchIsSound`: `Spec => []SearchInv`, and from it `SearchAlwaysFinds`,
`ClaimsAlwaysAccounted` and `UsersAlwaysNamed`, the three invariants of the run. They say nothing of
what a probe or a list has already passed, which is what they follow from: `ProbeSound` says that no
interface before the current one ended the probe, `Searched` that a device that is wanted and can be
used is still in the list, is being opened, has failed or is held by another process. `BlameSound` is
about the walk through the processes: who has been looked at and had the device open all along is
among the users found, and nobody found was never a user of it, unless a descriptor was closed just then;
and the history is what it says (`users` within `ever`, `early` within `users`). The assumptions are
that the processes are distinct from `Nobody` and from this one (`ProcessesAssumption`), that who has claimed
a device has it open (`WorldAssumption`), and that the number of faults is a number.

`FuseCacheProofs` proves, for trees of any depth, any number of objects, names, writes and faults and any mixture
of requests,

* `CachesAlwaysMirror`: `Spec => []CachesMirror`, and `OnlyEmptyRemoved`: `Spec => RmdirOnlyEmpty`,
  both assuming `NoNamesakes`;
* `ReadsAlwaysCurrent`: `Spec => ReadsCurrent`.

They rest on one invariant, `CacheInv`, in parts. `TreeInv`: the device holds a tree, and what the
caches and the kernel believe of an object that still exists is true of it: its directory
(`EntriesOwn`), its kind (`KindsTrue`, `KnownTrue`); attributes come with a listing (`AttrsListed`).
`NamesInv` is `Mirror` in the middle of a request: an object being made is not in its listing yet
(`Pending`), its name is free (`NameFree`), and no directory outside doubt has two objects of one name
(`NamesApart`). `StepInv`: a directory being serialised or changed may be behind its listing
(`Behind`), handles are left for a creation and its repetition. `SizeInv`: an edit session
without an owner is of a file in doubt (`DraftsAccounted`), all others are at the size the
attributes show (`SizesTrue`), so a read, which ends the session first, is not cut short. Faults are
handled once: `Settles` says what a handler must leave in doubt at the point where it may end, and
`EndsKeep` that it then may end in each of the ways it can. `NoNamesakes` says that the device has no
two objects of one name in a directory when it is mounted: `_files` keeps one of them (`fuse.cpp:286`), and
`rmdir` would then take an object along that no listing shows. The other assumptions are that what is
stored is a tree and that bounds are numbers. The proof found what the model had wrong: a directory
that is gone from the device (another request had it deleted, or the answer to its creation was
lost) met requests for which the model had no step, and `RmdirOnlyEmpty` blamed a removal for
what lay below the removed directory.

`QtUploadProofs` proves, for any device, any jobs the window can make of a selection, and any number of
turns and faults,

* `TypesOK`: `Spec => []TypeOK`, and `UploadsUninterrupted`: `Spec => []Uninterrupted`;
* `OldFilesReplacedInPlace`: `Spec => []ReplacedInPlace`, and `LocationAlwaysKept`: `Spec => []LocationKept`;
* `FoldersAlwaysInPlace`, `FilesAlwaysUnique` and, all of these together, `FilesAlwaysInPlace`:
  `Spec => []FilesInPlace`, assuming `KindsApart`;
* `JobsAlwaysComplete`: `Spec => []JobsComplete`, assuming `ListedInOrder` and `FilesToldApart`.

The invariants build on each other. `Inv1`: the command at work is where its handler can be, the queue
ends with `FinishQueue` (`QuietOK`), and no view is on the model during an upload (`ViewInv`). `Inv2`: the
rows are of objects of the folder on show and have their names or none (`RowsOK`); a file that was looked
for is for that folder, and what is to go for it was found there (`StageOK`); the job began in the
folder the history names, and `FinishQueue` leads back there (`LocOK`). `Inv3`: the folders of a
job hang together below the one it began in (`TreeOK`); what is new on the device is one of them or a
file (`MadeOK`), and each is made once (`OnceOK`), so that a folder found under the name looked for is
one a path of the job says. `Inv4`: as long as nothing failed, was aborted or renamed (`Clean`), the rows
are all there is in the folder on show but the file just being sent (`WholeOK`), so what `findFile` does
not find is not there, and what is replaced has gone before it is made anew (`FileOK`). `Inv5` follows a job
through the queue: what is queued is what is left of it, and an abort is one of this job (`FlowInv`); as long
as nothing failed and abort was not pressed, each command that is done with has left what it is for
(`ServedOK`, `MidwayOK`), the maps hold the best image and the album of each folder seen so far (`SourcesOK`),
and the cover of an album is still to choose, chosen or on the device (`ArtOK`).

`KindsApart` says that no folder has the name of a file that is sent. Names do not tell what an object
is, and neither `findObject` nor `createDirectory` asks (`commandqueue.cpp:245`, `mtpobjectsmodel.cpp:96`): a
folder "a" would be put into a file "a", and a file "a" would replace the folder. `MCQtUpload` satisfies
it. `ListedInOrder` says that a folder is made before what is in it is sent, the order in which `upload` lists
them (`fileuploader.cpp:101`); a file whose folder comes later would be dropped (`commandqueue.cpp:119`).
`FilesToldApart` says what the files of an import are: music or an image if libmagic says so or, where it does
not know, if the extension does. Without it no statement about the tracks and images of a directory could be
derived from what the application takes them for. TLC evaluates both on the selections of `MCQtUpload`. The
proof of `JobsComplete` found `NothingForgotten` wrong about a folder selected elsewhere than the first file,
as `X/D` next to `f`: it is dropped (`commandqueue.cpp:247`), and so is all that is in it, whereas the property
had expected its content to be sent. `Folders` now says which folders an upload reaches, and a selection of
that kind is among those of the run.

The other assumptions are that names are strings that stand for no missing name, that devices hold trees
without two files of a name in a folder, that a directory is selected once, and that bounds are numbers; TLC
evaluates them.

`SelectSeq` and overlapping arms of a `CASE` mean nothing to the prover: `JellyfinSync` has sets of
positions where the code has lists, and alternatives are disjuncts or `IF`.

Only model-checked: liveness under fairness, which is out of the prover's reach (`Terminates`, `Converges`,
`PlaylistsRebuilt`, `CollectionEnds`, `Recovers`, `SearchEnds`, `OpeningEnds`, `JobEnds`); the invariants and
action properties of `CliFiles` and `JellyfinStage`. `CliFiles` and `CliText` take lines apart character by
character; what such a definition computes for every input needs induction over data.

## 6. Not modelled

* `ZuneCli`: MTPZ at `zune-init` (a session without it cannot read the library), dates, genres, other
  programs that change the device during a session, track numbers above 65535 (`LoadTrack` compares
  the uncut number, such a track would be taken for another one).
* `JellyfinSync`, `JellyfinStage`: `--dry-run`, `--prepare-only` and `--list` (no player is touched),
  playlists whose membership changes between runs, players exchanged during a run (`SwapMidRun` is
  off in the run and excluded by `RecordsAlwaysTrue`: ids are then recorded for the wrong player), the work of ffmpeg, the text of queries,
  the options.
* `FuseCache`: the object cache for devices without
  `GetPartialObject`; requests of another thread between an exception and `Connect`; several storages;
  handles that change with a reconnection; a rename onto the same name, which the kernel filters.
  Rename onto a directory deletes it with its content, as the code does; `RmdirOnlyEmpty` speaks of
  `unlink` and `rmdir`.
* `PtpSession`: data sent to the device (its framing is in `Wire` and `CliFiles`, its transfers in
  `UrbQueue`), error codes, events, the wrap of the transaction counter at 2^32 and id 0, which
  accepts any message.
* `UrbQueue`: control requests, the interrupt endpoint, the allocation of mapped memory.
* `DeviceOpen`: `--file-descriptor`; the bytes of descriptors.
* `Mtpz`: cryptography; a message is what who has the keys can make.
* `QtDevice`, `QtUpload`: menus and widgets, thumbnails, covers set by hand, firmware; the loading of
  the music library is in `QtDevice` only.
* `CliFiles`: readline, progress bars, test commands, the guess of a format from an extension.
* The other USB backends, which are wrappers of system calls behind the interface of `UrbQueue`; the
  Python bindings, a table of declarations without state; packaging and documentation.
