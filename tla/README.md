# fineFTP server: specifications and proofs

TLA+ models of the fineFTP server library (`src/fineftp-server`), the TLC runs that check
them on small instances, and proofs about them for every value of their constants.
The source is the reference: definitions are named after the functions and members they
stand for, and `PROJECT.json` ("map") gives the lines of each.

## 1. The system

A `FtpServer` owns an `asio::io_context`, a pool of threads that run it, an acceptor and a
user database. Every accepted client gets a `FtpSession`, which lives as long as some
pending operation or posted handler holds a `shared_ptr` to it.

| Component | State | Operations | Interacts with |
|---|---|---|---|
| `FtpServerImpl` (`server_impl.cpp`) | acceptor, thread pool, `open_connection_count_` | `start`, `stop`, accept loop, `getOpenConnectionCount` | creates and starts sessions; a session's destructor calls back to count down |
| `FtpSession`, control connection (`ftp_session.cpp:94-291`) | command socket, input buffer, `command_output_queue_`, `shutdown_requested_` | read a command, run its handler, queue replies and write them, QUIT | on `command_strand_`; replies also come from the data side |
| `FtpSession`, data connections (`:407-481, 1075-1610`) | `data_acceptor_`, `data_buffer_`, `data_socket_weakptr_`, one socket per transfer | PASV, accept and validate, send a file, receive a file, write a listing | on `data_socket_strand_`, but `data_acceptor_` is used on both strands; posts replies |
| `FtpSession`, login, working directory and renaming sequence (`:293-399, 839-904, 1612-1705`) | `logged_in_user_`, `username_for_login_`, `last_command_`, `rename_from_path_`, `ftp_working_directory_` | USER, PASS, QUIT, CWD, CDUP, RNFR, RNTO | user database, path mapping, file system |
| `FtpSession`, file commands (`:604-805, 839-1061`) | none of its own: what a handler knows between two system calls | STOR, STOU, APPE, DELE, MKD, RMD, RNTO and their checks of permissions and status | the file system, shared by all sessions |
| Path mapping (`filesystem.cpp` `cleanPath`, `toAbsoluteFtpPath`, `toLocalPath`) | none | `cleanPath` and its variants | login state, file commands |
| `UserDatabase` | map of users, the anonymous user, a mutex | `addUser`, `getUser` | PASS |
| `ReadableFile`, `WriteableFile` (`unix/file_man.*`) | a global map of weak pointers to mapped files, a mutex | `get`, the destructor, write, close | downloads of all sessions, uploads |
| Permissions, `FileStatus` | none | bit masks; `stat`, `opendir` | file commands |
| Windows variants, samples, tests | | | not part of the models |

What makes each hard, and what it has to guarantee:

- **Server.** The count is raised in the handler of an accept and lowered in a destructor on
  another thread, and must balance through every error path. By its documentation it is the
  number of open connections, which it is not always. There must be one accept loop, however
  often `start` is called; waiting clients are accepted.
- **Control connection.** Three sources post replies while one of them may be under way. One
  read, one write, no reply lost, doubled or overtaken; nothing runs after QUIT; QUIT closes.
- **Data connections.** Two strands share `data_acceptor_` without a lock; handlers posted
  earlier act on state that has changed (`data_buffer_.front()` without a check, an accept
  that is late for its port); a peer may connect, stall, reset or never come; the control
  connection may end in any state, and may be one over IPv6, for which PASV has no address.
  Each transfer gets at most one completion reply, a port does not outlive its transfer, foreign
  peers are not served, an ended session is destroyed unless a peer keeps it.
- **Files.** A destructor runs outside the lock that guards the cache it erases from, and
  files are replaced while they are mapped. No use after `munmap`, no dead entry, no stale file.
- **Login and directory.** PASS and RNTO depend on the previous command, a second login follows
  a first one on the same connection, paths are kept as they were given and resolved again
  later. A session is only who its last USER named, its working directory and the path of a
  renaming belong to that login, and no path leaves the user's root.
- **File commands.** Check-then-act on a file system shared by all sessions: STOR, STOU, APPE,
  DELE and RNTO ask for the status of a path and act on it in a later system call. What a
  command does is what the permissions promise; where another session comes between, what is
  lost is bounded.

`PROJECT.json` ("hazards") lists these one by one with their lines and the properties that
cover them, or the reason why none does.

## 2. The modules

| Module | Models | Composed with |
|---|---|---|
| `DataConnection` | the data connections of one session | `MCDataConnection` for TLC, `DataConnection_proofs` |
| `ControlConnection` | the control connection of one session | `MCControlConnection`, `ControlConnection_proofs`, refines `ReplyStream` |
| `FtpSession` | both connections of one session together, and its lifetime | composes `ControlConnection` and `DataConnection`, and implements each; `MCFtpSession`, `FtpSession_proofs` |
| `ReplyStream` | abstract: replies are delivered in the order they were posted | |
| `FtpServer` | the server around the sessions | `MCFtpServer`, `FtpServer_proofs` |
| `ReadableFiles` | the cache of mapped files over a changing file system | `MCReadableFiles`, `ReadableFiles_proofs` |
| `Paths` | the path arithmetic of `filesystem.cpp`, with a reference definition of clean paths | used by `UserSession` |
| `UserSession` | what one connection remembers between commands: login, working directory, renaming; the user database | `MCUserSession`, `UserSession_proofs` |
| `FileCommands` | the commands of several sessions that change files and directories, over one file system | `MCFileCommands`, `FileCommands_proofs`, implements `FileStore` while undisturbed |
| `FileStore` | abstract: what the permissions promise, one atomic step per operation | |
| `HandlerQueues` | lemmas on strands, used by the proofs of both connections and of the session | |

**How asio is modelled.** A strand is the FIFO queue (`strand`) of the handlers posted to it;
its head is the one that runs. A handler is an action, since no other handler of its strand
can interleave with it, except where it touches state that another thread touches too:
PASV and the transfer commands are cut at each access to `data_acceptor_` (`command` is the
program counter of the command strand's one handler). The end of an asynchronous operation
whose handler is `wrap`ped appends that handler to the strand; closing an acceptor appends the
handlers of its pending accepts with an error. The handler of a file's `async_write` is not
wrapped (`ftp_session.cpp:1467`), so it is an action on no strand that any thread takes at any
time. A pool of several threads is assumed, whose behaviours include those of one thread.

**`DataConnection`.** `command`, `pasvs` and `announced` are the command strand's side; the
acceptor is `data_acceptor` with its `backlog` and pending `accepting`; each transfer has its
`kind`, `peer`, `port`, `data_socket`, pending `io` and posted `replies`; `data_buffer` and
`weak` are the members of those names. A handler in `strand` is named after the lambda:
`accepted` is the handler of `acceptDataConnection`, `add`, `write` and `listed` are the chain
`addDataToBufferAndSend`, `writeDataToSocket` and its completion, `chunk` and `endrecv` the
receive loop, `close` what `readFtpCommand` posts on an error. STOU and APPE run as STOR, NLST
as LIST; reasons for which a command is refused are one choice. PASV throws out of a pool thread,
hence `"terminated"`, where the control connection is one over IPv6, whose local address has no
`to_v4()` (`ftp_session.cpp:468`), and where the acceptor it asks for its port is closed (`:469`).
`ipv6` is chosen once: a server whose address is an IPv6 one (`server_impl.cpp:50`) ends at the
first PASV that could open its port. `io` is the operation pending on a data socket, and also an
accept that was completed and whose handler is not posted yet (`"accepted"`, `AcceptPosted`): the
handlers of the control connection, the `close` among them, may come in between. The end of a read
or of a listing's write posts its handler in the same step. The other order would only let that handler come after
`close`: it would then begin one more operation, which fails, or reply as it does now. An accept may
also fail while its port listens (`AcceptErrs`).

**`ControlConnection`.** `strand` holds the handlers of the command strand; `posted` is the
history of replies, which the queue, the pending pushes and `wire` refer to by number. NOOP
stands for every command with one reply, RETR for those with a 150 and a later completion
reply, which comes from elsewhere at any time. `start()` posts the read before it queues the
greeting, so both orders exist.

**`FtpSession`.** `Control` and `Data` are instances of the two modules over one state; a step of
both is a step of each: a PASV handler replies with its last step and blocks the command strand
until then, a transfer command replies 150 as it starts the accept, the ends of transfers post their
reply to the command strand, QUIT and the end of the reading are the same step in both, and the
socket that `ControlConnection` closes is the one `DataConnection` asks for its peer. The number of
transfers that `ControlConnection` knows is mapped to those for which an accept, a handler or an
operation is left. NOOP is PASV here, the only command with one reply that concerns the other side.
The session is destroyed when neither side has a handler or an operation left.

**`FtpServer`.** The API is called by one thread of the application; an accept handler is cut
into its counting, the start of its session and the next accept, since the session may end on
another thread in between. A connection may close before its session is destroyed
(`ConnectionCloses`, the end of a write after QUIT): what keeps the session then is in
`DataConnection`. `started`, `failures` and `errors` are histories for the properties.

**`ReadableFiles`.** `get` is one step, being under the mutex as a whole (a change of the file
system between its `open` and its `mmap` has the effect of one just before or after it); the
destructor is two, `munmap` and the erasure under the mutex. A `get` that fails changes
nothing. The commands that change the file system act on paths and inodes as their system
calls do; the checks before them are those of `FileCommands`.

**`Paths`.** A path is the sequence of its parts between slashes, so that joining two strings
with a slash is concatenation. `cleanPath` is the code's loop over the parts: `Stacks` is the stack
of components after each number of parts, a recursive function so that it can be proved about;
`ReferencePath` says without a stack which parts remain: `Depth` counts how deep the first parts
lead, and a `..` takes back the name from which on the path has been deeper than it is behind the
`..`, as a bracket closes a bracket. The Unix branch only.

**`UserSession`.** The variables are the members of the session and of `UserDatabase` (the
anonymous user is the slot `"anonymous"`). The commands of one session run one after the
other, so a command is one action; the answers of `stat`, `opendir` and `rename` are choices, and
`AddUser` may come at any time. `last_command` is only ever compared with `"USER"` and
`"RNFR"`; the other names are one. `entered`, `checked` and `renamed` are histories: the local
paths that the last CWD found, that the last RNFR found and that the last step renamed.

**`FileCommands`.** `op` is the handler of each session between two system calls, with what its
`stat` saw; `entry`, `kind`, `filled` and `uploads` are the file system: which inode is at a
path, of which kind it is, whether it holds data, and which files a session writes to. A command
that is refused changes nothing and is no action; a call may fail. Uploads go on while
their session runs other commands. Paths are flat: that a directory is missing or not empty is
a failure of the call. The ten attempts of STOU at a name are one choice of a name that was not
there. Devices and pipes are not modelled.

## 3. The runs

| Run | Expect | Shows |
|---|---|---|
| `data_connection` | pass | `ListingChain`, `OneCompletion`, `SequentialClient`, `PortClosedAfterTransfer`, `NoAcceptAfterEnd`, `ForeignNotServed`, `FileTransferCarriedOn`; live: `EndDestroysSession`, `FileTransferAnswered` (if the peers go on) |
| `control_connection` | pass | `OneWrite`, `OneRead`, `RepliesInOrder`, `ConnectionGoesOn`, `StreamSpec` (refinement); live: `RepliesSent`, `QuitCloses` |
| `ftp_session` | pass | `NothingOwed`, `ControlSpec` and `DataSpec` (the composition implements both parts: what each assumes of the other holds); live: `GoneDestroysSession` |
| `ftp_server` | pass | `CountBalanced`, `OneAcceptLoop`; live: `ClientsServed` |
| `readable_files` | pass | `HeldLives`, `EntriesEnd`, `FreshWhenAlone` |
| `session_state` | pass | `LoggedInAsNamed`, `WorkingDirectoryEntered`, `Confined`, `CleanPathIsReference`, `RenameAsChecked` |
| `file_commands` | pass | `Permitted` (against `FileStore`), `UploadKeepsWhatItSaw`, `RenameKeepsWhatItSaw`, `NewFileNeedsWrite` |
| `listing_answered` | violation | a listing whose write fails has no completion reply, and its end mark stalls later listings (`Command return codes.txt:87-90`) |
| `quit_answered` | violation | the 221 is lost behind an earlier reply (`ftp_session.cpp:396`, `Command return codes.txt:39-40`) |
| `count_of_open` | violation | the count is not the number of open connections: a failed start leaves it at -1 (`server.h:165`) |
| `started_serves` | violation | `start` after `stop` returns true and serves nobody (`server.h:152`) |
| `fresh_file` | violation | a download gets a file that was deleted or replaced (`file_man.h:29`) |

The violation runs check what a comment or document of the repository says against what the
code does; `PROJECT.json` ("findings") describes them.

**Bounds.** Each module names its bounds as constants.

- `DataConnection`: two transfers of any kind, two PASV commands, over IPv4 or IPv6, one waiting
  connection. Two transfers are what two accepts on one port, overlapping listings, an older
  data socket and a late accept handler need; two ports are what a handler closing the wrong one
  needs. A connection that was accepted makes room for the next. 294,804 states. The whole
  run was also checked with a backlog of two (411,428 states), the invariants with three transfers
  (20,048,458 states).
- `ControlConnection`: three commands, so that a QUIT has something queued before and behind
  it and two transfers post their completion replies at any time. 346,995 states.
- `FtpSession`: three commands of two PASVs, a transfer and QUITs, one waiting connection, which is
  the client's (foreign peers are in `DataConnection`): a transfer on the first port while the
  second PASV closes it, and a client that closes, is reset or quits at any point. The client
  of this run sends its first command after the greeting was posted (`WaitingSpec` of
  `MCFtpSession`; the module and its theorems allow any time, and so does the run of
  `ControlConnection`): this leaves 295,052 of 1,744,952 states. All four properties were also
  checked without it; the invariant and both refinements also with two transfers and any three
  commands (one PASV among them), 9,202,919 states.
- `FtpServer`: five sessions, one created by each start that succeeds or fails and one by each
  accept; two waiting clients. When all are used up, no further one is accepted: `ClientsServed`
  excludes those states. 14,423 states.
- `ReadableFiles`: two paths, three downloads, one upload, three objects, two inodes, lengths
  0 and 1: a dying object, its successor, and one more after the successor's entry was erased.
  1,431,873 states. Paths and downloads are symmetric; there is no liveness in this run.
- `UserSession`: paths of up to three parts out of two names, `..`, `.` and the empty part, given
  in working directories of one component or none: `..` twice and a name in every order, above
  and below the root; also checked with working directories of two components. Two names besides the anonymous user's, three accounts with different
  passwords, permissions and roots: one root with a part to clean, one relative and one empty. With an empty root everything on
  the server is below it: `Confined` says there only that a path is absolute and has no `..` left.
  11,480 states, each of which checks all the paths.
- `FileCommands`: two sessions of every pair of three kinds of users (one appends and renames
  files, one writes files and handles directories, one replaces and deletes files and renames
  everything), two paths, three inodes: the file that was checked, the one that takes its place, and one more. 365,879 states;
  sessions, paths and inodes are symmetric, there is no liveness in this run.

**Deadlock** is not checked: a client that sends nothing more, or a bound that is reached,
ends a behaviour. Where something has to happen, a liveness property says so.

**Fairness.** Only what the server and its system do by themselves is fair. Pool threads run the
handlers that are posted, and a command handler that was begun is continued (weak fairness on the
strands' steps, on the posting of an accept that completed and on the unwrapped handler of
`sendFile`). The system completes an accept that has a connection to accept and ends what is
pending on a closed socket (`OperationAborted`). Nothing obliges a client to connect, send,
quit or close, an application to call anything, or the peer of an open data connection to read,
write or go: the server has no timeouts, and the default build no timers (`DELAY_226_RESP_MS`
is 0). `FileTransferAnswered` and `ListingAnswered` need more of the peers and have it as a premise
that can be read in the property, `PeersGoOn`: they read what they are sent, or are gone, and do not send an upload for
ever. In `ControlConnection` the peer of the control connection reads or is gone. `FtpSession` needs that the server does
something as long as it can and that uploads end; `GoneDestroysSession` is about a client that
is gone, and its data connections with it.

**What the passing runs do not hide.**

- `SequentialClient` holds for a client that waits for the answer of a transfer before its next
  transfer or PASV (`~pipelined`); one that does not can close a port that was just announced,
  have several connections accepted on one port, or end the process (`PasvTerminate`).
- Over IPv6 no client is safe: the first PASV that opens its port ends the process, as `SequentialClient`
  says. It is no violation run because no document of the repository speaks of IPv6.
- `EndDestroysSession` excepts data connections that are `Loose`: the control connection closes
  only the newest data socket (`ftp_session.cpp:188`), so an older transfer, or one whose
  accept had completed when the control connection ended, keeps the session for as long as its
  peer says nothing. After a QUIT nothing is closed at all: an accept that waits, or an open
  data connection, keeps the session and its count though the control connection is closed.
- `RepliesSent` and `QuitCloses` except connections the client closed.
- `FileTransferAnswered` is about transfers whose data connection was accepted, and not about
  listings, for which it is false.
- `FreshWhenAlone` is about a download that has its path to itself.
- `CountBalanced` says what the count is: sessions accepted and not destroyed, less the failed
  starts. This is the documented number of open connections only without failed starts (each
  leaves it one too low: the session it created was never counted, and its destructor counts
  down) and without sessions that outlive their connection. `count_of_open` shows the first.
- `OneAcceptLoop` and `ClientsServed` say nothing after an accept that failed: the loop ends there
  (`server_impl.cpp:129`).
- `Permitted` excepts steps of a command whose path another session changed after its check;
  `UploadKeepsWhatItSaw`, `RenameKeepsWhatItSaw` and `NewFileNeedsWrite` say what still holds
  then. What does not: an upload may truncate a file that came after its check without the
  permission to delete (`permissions.h:10` has no such exception), RNTO may replace a file that
  came to its target (`ftp_session.cpp:865` wants to prevent it), and APPE may create anew, with
  the permission to append only, a file that has gone.

## 4. The proofs

TLAPS checks these for every value of the constants, from the named assumptions of the
modules: bounds are natural numbers, and the paths of `UserSession` are sequences of parts with at
least one part, as the split of a string at its slashes has.

| Module | Theorems | Argument |
|---|---|---|
| `ControlConnection_proofs` | `TypeCorrect`, `OneWriteAtATime`, `OneReadAtATime`, `InOrder`, `NoStepLost`, `ImplementsReplyStream` | The types are plain here, so the theorem alone states them and the run leaves them out. In the strand there is at most one continuation of the write (none while a write is pending) and at most one of the read; the pushes in the strand are, in order, exactly the replies that were posted and have not reached the queue, and the queue holds those after `wire`. Each step is a step of `ReplyStream` or a stutter. `NoStepLost` is the safety half of `RepliesSent` and `QuitCloses`: while both ends are open, the write of a queue that is not empty, the end after a QUIT and the reading each have a pending operation or a posted handler that goes on with them. That a reply pushed behind others finds the write under way is its first part, and that the end of a write finds the queue not empty is `WriteInv`. |
| `DataConnection_proofs` | `TypeCorrect`, `OneChain`, `EndIsFinal`, `AtMostOneCompletion`, `RefusedPeersNotServed`, `PortClosed`, `SequentialClientSafe`, `NoTransferDropped` | The chain of listing writes has at most one continuation, in the strand or pending, and none when `data_buffer` is empty. The types need it: a step that takes the `Tail` of `data_buffer` keeps its type only because it is not empty. So both are proved as one invariant. `EndIsFinal` is inductive alone: only command handlers open the acceptor or start an accept, and none runs once reading has ended. A transfer that goes on is in one place (an accept, a handler or an operation), has its 150 and no completion, and the step that replies takes it from there (`AtMostOneCompletion`). This needs that the null pointer that ends a listing is posted right behind the data: it joins the chain and starts none. An operation and its handlers are those of a peer that was let in (`RefusedPeersNotServed`); a completion comes after the acceptor of its port was closed, or from the accept that failed because it was (`PortClosed`); of a client that waits, at most one transfer is unanswered, and it is the newest, so that the accepts and handlers there are concern the newest port and no other connection has been accepted on it (`SequentialClientSafe`). This needs that all that is pending or posted for a transfer that was accepted is one thing: an accept that completed and its handler are never both there. `NoTransferDropped` is the safety half of `FileTransferAnswered`: only an accept takes a transfer in hand, and it leaves every hand only when it is answered, when the process ends, or in a listing, of which `ListInv` says that only listings have such handlers. |
| `FtpSession_proofs` | `ImplementsDataConnection`, `ImplementsControlConnection`, `NothingIsOwed` | `SessionInv` joins the invariants of both parts, taken from their own proofs, with `Coupled`: as long as commands are read, a read is pending or a handler that goes on with it is posted; as long as the command socket is open, the front of a queue of replies is being written, and after a QUIT there is one to write. So nothing refers to the session only when the reading has ended, which is when `DataConnection` may destroy it: every step is a step of each part or leaves it. A step that posts a completion reply ends exactly one transfer in hand, and of the others only an accept adds one, so the number of transfers that `ControlConnection` knows counts as it assumes. A file transfer without its completion is in hand (`OwedInv`), and the replies not yet queued are those the strand has to push: of neither is any left when nothing refers to the session (`NothingIsOwed`). |
| `FtpServer_proofs` | `TypeCorrect`, `CountCorrect`, `LoopCorrect` | Each session is still to be created, waits in the one pending accept, is in the handler of the accept, or has left it. Each step opens one session, closes one or leaves them, and counts accordingly. The range of the count in `TypeOK` is a consequence. |
| `ReadableFiles_proofs` | `TypeCorrect`, `NoUseAfterUnmap`, `NoEntryLeft`, `AloneIsFresh` | An object lives exactly as long as a download refers to it, and an entry is about an object of its own path that is not gone. `AloneIsFresh` is an action property: an entry that is followed has a referrer, which is another download of the path. |
| `UserSession_proofs` | `TypeCorrect`, `LoginCorrect`, `RenameCorrect`, `DirectoryEntered`, `ClientConfined`, `CleanPathIdempotent`, `CleaningCorrect` | The user of a login is the slot of the name that was given, and has an account; a slot that is taken is never changed. Between an RNFR that succeeded and the next known command, the path that is kept stands for the place that was found, since all that resolves it only changes under other known commands. Paths: each stack of `cleanPath` is clean, and of a clean path the stack after `n` parts is its first `n` parts, so cleaning twice is cleaning once. A path that is given is cleaned as an absolute one before the root is put in front, and a clean path behind a root only pushes names: what is resolved is the root or below it (`ClientConfined`). `DirectoryEntered`: of the working directory and root together, `entered` keeps the place that was found. `CleaningCorrect`: after `n` parts the stack holds the parts at some ascending positions (`Placed`). Since a name among them the path has been as deep as behind it, and it is just as deep again before the next and at the end; so the `..` that pops it takes it back in the sense of the reference. Names at other positions were taken back already, and so in a relative path a `..` that is pushed takes nothing back. At the end the positions are those that remain, and the k-th of them has k up to it, which is how the reference picks it. All inductions run over the number of parts, through the least number that would fail. |
| `FileCommands_proofs` | `TypeCorrect`, `UploadsKeep`, `RenamingsKeep`, `NewFilesPermitted`, `UndisturbedPermitted` | `Knows`: between two of its system calls, a handler has the permissions its checks asked for, for the kind of thing they saw. It is about what was seen, so no step of another session disturbs it. Where the path is as it was seen, the act of the handler is then a step of `FileStore`. |

`HandlerQueues` has the lemmas on the queues: that at most one (or no) handler with a
property is left after taking the head, appending a handler or appending the aborted accepts.

Only model-checked: the liveness properties, which are out of reach of the prover (fairness and
`ENABLED`): `EndDestroysSession`, `FileTransferAnswered`, `RepliesSent`, `QuitCloses`,
`GoneDestroysSession` and `ClientsServed`. `NoAcceptAfterEnd`, `FileTransferCarriedOn`,
`ConnectionGoesOn`, `NothingOwed` and `OneAcceptLoop`, which are proved, say for them that nothing
that has to go on is left without somebody who goes on with it. Every invariant, action property
and refinement of a passing run has its theorem.

## 5. Not modelled, and the plan

Not modelled for good: the texts of replies and listings; the commands that only read (SIZE,
MDTM, FEAT and their like change no state); the contents of `FileStatus` beyond the kind of a
path; the Windows variants of the files and of paths (`cleanPathNative` with drives and backslashes);
the data in files and the pages behind a mapping; the delay of the 226 (off in the default
build, `CMakeLists.txt:101`); undefined behaviour of concurrent accesses to one asio object beyond
the order of the calls (an acceptor used from two threads is a choice of the order of its
calls); a data write that fails and is still answered with a 226; the log line of a debug build that
asks an accepted control connection for its peer, which throws if the client has reset it already
(`server_impl.cpp:138`).

Still worth writing: the delayed 226 as a variant of the download (one timer shared by all
transfers).

A theorem on the delayed 226 would go with it.
