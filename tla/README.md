# TLA+ models of cppbase's network server core

These modules model the event-driven server core of this repository: the chunked byte buffer (`PacketBuf`), the connection object (`Conn`), the TCP server's event loop (`TCPServer::start` and its handlers) with its signals and timers (`SysTimerFd`), the HTTP adapter (`HTTPServer`), the process-wide logger (`ik_logger.cpp`) and the command runner `SysCmd::get_result`. Each module is translated from the source it names. The `.cfg` files check them with TLC.

## The system and how its parts interact

| Part | Source | State | Operations |
|---|---|---|---|
| `Buffer` / `PacketBuf` | `src/src/core/net/conn.cpp`, `src/inc/core/net/conn.hpp` | a deque of fixed-size chunks with `head_`/`tail_`, the index `avail_write_buf_` of the chunk being written, `total_bytes_` | `get_left_space`, `append_bytes`, `peek_cur_data`, `consume_bytes` (a drained front chunk is recycled to the back), driven by `Conn::read_bytes` and `Conn::write_bytes` |
| `Conn` | same files | fd, `force_close_`, `local_fin_`, `remote_fin_`, a receive and a send `PacketBuf` | `read_bytes` (one `recv`), `write_bytes`, `send_bytes` (a `send` loop), `close`, `grace_close`, `force_close` |
| `TCPServer` loop | `src/src/base/server/task_server.cpp`, `src/inc/base/server/task_server.hpp` | `conns_`, `wait_read_conns_`, `wait_write_conns_`, the epoll registrations, the signal fd, the periodic timer, `oneshot_timers_` | `init`, `start` (the `while (!exit())` test, epoll_wait, then dispatch of every ready fd, then `process_signals`, `process_msgs`, `process_timer`), `accept_new_conn`, `conn_read_data`, `conn_write_data`, `process_msgs`, `close_conn`, `add/remove_conn_wait_write`, timers and signals |
| HTTP adapter | `src/src/base/server/http_server.cpp`, `src/inc/base/server/http_server_impl.hpp` | `conn_reqs_` (one request per connection), the request accumulator | the connection and message callbacks given to `TCPServer` |
| `TaskServer`, `UDPServer`, `ServerSet` | `task_server.hpp` | `exit_cb_`; one server per thread | `exit()`, which `TCPServer::start` tests once per iteration; the rest is declarations or thread plumbing |
| `SysTimerFd` | `src/src/base/utils/sys_utils.cpp`, `src/inc/base/utils/sys_utils.hpp` | a timerfd, its interval and whether it started | `start`, `set_interval`, `set_timer_interval`, `get_expired_cnt` |
| Logger | `src/src/base/utils/ik_logger.cpp`, `src/inc/base/utils/ik_logger.h` | `fp_`, `log_level_`, `log_idx_`, `locker_`, the log directory | `Logger()`, `log_init` with `check_dir`, `log_base`/`write_log` with `check_size` rotation, `reset_log_level`, `sig_handle`, the timer thread's `delete_old`, `~Logger` at `exit()` |
| `SysCmd` | `src/src/base/utils/sys_utils.cpp`, `src/inc/base/utils/sys_utils.hpp` | the process's SIGCHLD disposition, a pipe, an intermediate child and the command | `get_result`: pipe, fork, `signal(SIGCHLD, SIG_IGN)`, a `select`/`read` loop with a timeout and a size limit, the restore of the saved disposition; `close()` and the destructor |
| Other utilities | `src/src/base/utils/*` | file descriptors, strings | synchronous wrappers |

The loop is a single thread. One iteration waits in `epoll_wait` and then handles every ready descriptor. An OUT event runs `conn_write_data`. Otherwise the listening socket runs `accept_new_conn`, the signal and timer descriptors set flags or run a oneshot timer, and any other descriptor runs `conn_read_data`. After the dispatch, the iteration runs `process_signals`, then `process_msgs` (the message callback for every connection in `wait_read_conns_`), then `process_timer`.

The application's callbacks run inside this loop. They can write a response with `Conn::write_bytes`, call `grace_close()` (close once the send buffer drains) or call `force_close()`. The loop's tables and the epoll registrations then follow from what the callback did: `add_conn_wait_write`, `close_conn`, or the deferred close through `remote_fin_`.

Peers and the kernel act concurrently with the loop. They connect, send, shut down their write side, reset, and read (or stop reading) what the server sends.

## Modules

### `ByteStream.tla`: the abstract buffer

A sequence `stream`. `Put` appends bytes and `Take(n)` removes the first `n`. This is the promise `PacketBuf` makes to `Conn`: bytes come out in the order they went in, none lost or duplicated.

### `PacketBuf.tla`: the chunk buffer

- **State.** `bufs` is the deque, each chunk a record of `head`, `tail` and its `data`. `avail_write_buf` and `total_bytes` are the code's fields. `written` and `peak` are history variables: the bytes written so far (each byte is its sequence number, so order and loss are visible) and the peak fill.
- **Actions.** `AppendBytes(n)` is one `Conn::read_bytes`: `get_left_space` (`LeftSpaceOf`: allocate or advance when the write chunk is full), then `append_bytes` of at most the space it returned. `AppendBytes(0)` is a `recv` that fails after the allocation. `WriteBytes(n)` is a whole `Conn::write_bytes` of `n` bytes: the RECURSIVE `WriteLoop` repeats `WriteStep` (`get_left_space`, copy `min(left_size, size)`, `append_bytes`) until the message is in, so a message longer than a chunk spans several, one step, as the loop thread runs it. `ConsumeBytes(n)` is `consume_bytes` of at most what `peek_cur_data` returns, with the reset and recycling of a drained chunk.
- **Buffer.** `BufAppend`, `BufConsume` and `BufEmpty` are `Buffer`'s `append_bytes`, `consume_bytes` and `empty`; `RemoveFrontBuf` is `remove_front_buf`, which moves a non-zero `avail_write_buf_` down with its chunk.
- **Refinement.** `Content`, the concatenation of the unread bytes of the chunks in deque order, is the refinement mapping: `Stream == INSTANCE ByteStream WITH stream <- Content`, and `StreamRefinement == Stream!Spec` is checked as a property.
- **Not modelled.** `MSG_BUF_MIN_SIZE` and the chunk capacity are constants (`MinSize`, `C`); the code's values are 0 and 1024. The capacity only scales the chunk count, and 2 makes chunk boundaries and recycling happen within a few bytes.

### `TCPServer.tla`: the event loop with its connections

- **`conn[c]`, one record per connection.** It holds the `Conn` fields (`fd`, `force`, `lfin`, `rfin`, the receive and send buffers as byte counts `rcv`/`snd`) and the connection's place in the server: `reg` (its epoll registration), `tbl`/`rd`/`wr` (membership of `conns_`, `wait_read_conns_`, `wait_write_conns_`).
- **Composed helpers.** `Close`, `Release`, `CloseConn`, `AddWaitWrite`, `RemoveWaitWrite` and `Callback` are record transformers, composed in the order the handlers call them.
- **The loop's position, `pc`.** `"init"` comes before `TCPServer::init` (`ServerInit`, which may fail: `"failed"`). `"poll"` is the `while (!exit())` test followed by `epoll_wait`; `LoopExit` is `start()` returning (`"stopped"`) when `exit()` is true, that is when an exit callback is set (`ExitCb`) and returns true (`exitReq`, set once by the owner's `RequestExit`). Merging the test with `epoll_wait` loses no behaviour: the owner's flag and the kernel's readiness do not depend on each other. `"io"` works through the snapshot `ready` in any order, since epoll does not specify one. `"send"` is the `do { } while (1)` of `send_bytes`. `"msgs"` is `process_msgs`, with `todo` the connections it has still to visit.
- **Loop actions.** `Poll`/`PollIdle`, `ConnWriteData`, `Accept`, `ConnReadData`, `SendStep`/`SendDone`, `EndIO`, `MsgStep` and `EndMsgs`. Each models its whole handler: every early return, every error outcome of `accept4` (EAGAIN on an empty backlog, or EMFILE/ENFILE with the connection left queued), `epoll_add_fd`, `recv` and `send`, and the trailing `close_conn`/`add_conn_wait_write`.
- **Readiness.** `Readable`, `Writable` and `ReadyList` are level-triggered readiness as the kernel reports it: IN for queued bytes, EOF or reset; OUT for an IN|OUT registration with room in the send queue; ERR/HUP for a reset socket.
- **Peers and kernel.** `peer`, `kin`, `kout` and `sent` model the clients and the kernel queues. `KCap` is the kernel send-queue capacity.

The application callbacks of `TCPServer.tla` are nondeterministic. At connect and at each message they may write up to `MaxResp` bytes in total, `grace_close()` and/or `force_close()`. The message callback consumes at least one byte, as `BUG_ON(data_len == 0)` and the HTTP adapter do.

### `TimerFd.tla`: `SysTimerFd` over a kernel timerfd

Record operators, not a state machine. A timer record holds `fd_`, `nsecs_`, `period_` and `start_`, and the kernel's setting of the fd (armed, next deadline, interval). `SetInterval` keeps the code's split of a deadline into `tv_sec` and `tv_nsec` over a clock of `NS` units per second. It models the missing carry and the kernel's EINVAL for `tv_nsec >= 10^9`. `Start`, `SetTimerInterval` and `GetExpiredCnt` follow their functions, including EMFILE, EBADF and the EAGAIN of a non-blocking read with nothing expired.

### `LoopTimers.tla`: signals and timers in the loop

- **Setup phase.** The owner's calls before `start()`: `add_signal`, the callback setters, `set_period_timer_interval`, `add_oneshot_timer`.
- **Loop.** `start()` runs `create_signal_fd` and `create_timer_fd`. Then each iteration is `epoll_wait`, the dispatch of the ready signal, timer and oneshot descriptors, `process_signals`, `process_msgs` and `process_timer`.
- **Callbacks.** Every callback may call the timer API, as the code allows from inside the loop. A connection event only makes a poll non-empty here.
- **Errors.** An exception escaping `start()` ends the loop (`pc = "stopped"`, `tm.err` its cause).
- **Environment.** `Tick` is the clock. `Raise` makes a signal pending. `OtherReader` is another thread taking a pending signal, which the code allows because the mask is set only in `start()`'s thread.

### `HTTPServer.tla`: the HTTP adapter over the loop

- **Composition.** It reuses `TCPServer`'s record operators through `TCP == INSTANCE TCPServer WITH ...`. `conn[c]` is the same `Conn` record, but the receive buffer holds tokens instead of a byte count.
- **Tokenizer.** The alphabet is `U` (a request line), `B` (body bytes), `E` (end of message) and `X` (a byte the parser refuses), each tagged with its request number.
- **`Step` and `Execute`.** `Step` is the callback contract of http-parser (`on_uri_cb`, `on_body_cb`, `on_message_complete_cb`). `Execute` is a RECURSIVE run of it: it stops at the end of the input or at the first error.
- **The accumulator.** `conn_reqs_[c]` holds `bytes_`, `unread_pos_`, `left_bytes_`, the URI, the body and `is_completed_`.
  - `ParseMsg` is `parse_msg`: append, execute from `unread_pos_`, advance.
  - `Clear` is `clear()`, which keeps the byte log and both cursors.
  - `ProcessMsg` is `process_msg`, including the `catch` that returns before `consume_bytes`.
  - `ProcessConn` is `process_conn`.
- **The loop's handlers.** `Accept`, `ConnReadData`, `ConnWriteData`, `ProcessMsgs` and `EndMsgs`. Each models its handler from `task_server.cpp` and calls the adapter where the code calls its callbacks.
- **Clients.** They connect, send requests (one at a time unless `Pipelining`), split them across `recv()` calls in any way the kernel does, and shut down their write side. Clients in `Malformed` may send a request the parser refuses.
- **History.** `served[c]` is the sequence of URIs `req_cb_` has seen. `consumed[c]` counts the tokens removed from the receive buffer.

### `SysCmd.tla`: `get_result` on several threads

- **State.** `sigchld` is the process's SIGCHLD disposition, shared by every thread. Each calling thread `t` has its own `SysCmd` object and may call `get_result` on it up to `MaxCalls` times, one call after another (`Turn`). Per object: `pipefd[t]` is `pipefd_`; each entry is the number of the call whose `pipe()` filled it, or 0 for `-1`. `fds[t]` is the set of descriptors the object's calls opened in the calling process and nobody has closed. Per call `k = <<t, i>>`:
  - `pc[k]` is its place in `get_result`;
  - `old[k]` is the `old_handler` it saved;
  - `result[k]` is what it returns (`"true"`, `"false"` or `"throw"`);
  - `child[k]` and `cmd[k]` are the intermediate child and the command;
  - `writers[k]` is the set of processes holding the pipe's write end;
  - `pipe[k]` is the bytes in the pipe, and `got[k]` the bytes in the stringstream;
  - `deadline[k]` is when `select`'s timeval runs out.

  `now` is the clock.
- **Caller actions.**
  - `PipeFails`: `pipe()` fails and `Errno` is thrown; `pipefd_` keeps its old contents.
  - `Start`: `pipe()` overwrites both `pipefd_` entries. Then `fork()` either fails, throwing with both ends open, or starts the child.
  - `IgnoreSigchld`: `old_handler = signal(SIGCHLD, SIG_IGN)`, after the fork.
  - `CloseWrite`: close `pipefd_[1]`, set it to `-1`, set the timeval.
  - `Select`: one step of the loop. It covers a read, end-of-file, the size limit, the timeout, and EINTR. On EINTR, `if (ret)` takes -1 as ready and the thread blocks in `read` (`pc = "read"`) with no timeout, until data or end-of-file. The "Fail to get result" branch is never reached.
  - `Return`: restore `old_handler`.

  `get_result` never closes `pipefd_[0]`.
- **Owner action.** `Close` is `SysCmd::close()`, which the destructor also runs. It closes whatever `pipefd_` holds and sets both entries to `-1`.
- **Child actions.** `ChildFork` (the `if (pid)` branch is also taken when `fork` fails), `ChildExit` (reaped if SIGCHLD is ignored at that moment, otherwise a zombie), `Exec` (dup2 and execve, which may fail), and the command's `CmdWrite` and `CmdExit`.
- **Abstraction.** Output is a byte count. The `'\0'` termination, the error texts and the process names are left out. The constructor only builds `argv_` and `env_` from strings; it gives the initial state.

### `Logger.tla`: the process-wide logger

- **State.**
  - `fp` is what `fp_` points to: NULL, stdout or the open log file.
  - `dir` is the log directory: `Full` (`log_full_`) and the rotated files, named by timestamp and `log_idx_`. Each name maps to its record count.
  - `level`, `idx` and `mutex` are `log_level_`, `log_idx_` and `locker_`.
  - `th[t]` is each writer thread's position.
  - `now` is the clock. `wake` is when the timer thread's `sleep` ends. `Tick` may pass `wake`: the timer thread runs when it is scheduled, and each `delete_old` adds its own run time before the next `sleep`.
  - `proc` says whether the process is running, inside `exit()`, or gone.
- **Writer actions.**
  - `LogBase` is the level test, made before the lock.
  - `WriteLogLock` takes the lock, falls back to stdout and runs `check_size`, which may close, rename and reopen the log.
  - `WriteLogPrint` is the `fprintf`, the unlock, and the `exit()` of a `D_DEAD` record. On NULL it is a segmentation fault.
- **Other actions.**
  - `ResetLogLevel` logs and then sets the level.
  - `SigHandle` is SIGHUP. When it runs on the timer thread it also cuts the timer's sleep short.
  - `DeleteOld` is one pass of the timer thread.
  - `Exit` is `~Logger` running in `exit()`, and `Terminate` is the end of the process.
- **Starting point.** `Init` is `Logger::Logger` at process start: level `D_DBUG`, `fp_` NULL, the default `log_size_` (`DefaultSize`), an empty log directory and no timer thread. Threads may log (to stdout) before `log_init`.
- **`LogInit`** is `Logger::init` with `check_dir`. A failed `mkdir` returns at once. Otherwise it sets the level and size, assigns `fp_ = fopen(...)` without taking `locker_`, and starts the timer thread; `pthread_create` may fail. `size`, `phase` and `timer` hold `log_size_`, how `log_init` ended and whether the timer thread exists. `DeleteOld` needs the timer thread, and `SigHandle` needs a successful `log_init` (it installs the handler last).
- **Abstraction.** Records are counted, not formatted. A clock unit stands for the second in a rotated file's name, and `U` units make a day.

## Runs

| Run | Config | Checks | Expect |
|---|---|---|---|
| `packetbuf` | `MCPacketBuf.cfg` | `TypeOK`, `TotalIsUnread`, `PeekSeesData`, `ChunksBounded`, `StreamRefinement` | pass |
| `tcp_safety` | `MCTCPServer.cfg` | `TypeOK`, `TablesConsistent`, `InputAwaitsCallback`, `WriteInterestExact`, `NoDataDroppedOnClose` | pass |
| `tcp_liveness` | `MCTCPServerLive.cfg` | `ResponseFlushed`, `GraceCloseCompletes`, `ExitHonoured` | pass |
| `tcp_drain_skipped` | `MCTCPServerDrain.cfg` | `InputEventuallyDelivered` | violation |
| `timers` | `MCLoopTimers.cfg` | `TypeOK`, `OneshotAfterDelay`, `OneshotFiredOnce`, `OneshotEventuallyFires`, `SignalEventuallyHandled` | pass |
| `timer_nsec_overflow` | `MCLoopTimersEinval.cfg` | `SetIntervalAccepted` | violation |
| `http` | `MCHTTPServer.cfg` | `TypeOK`, `ServedInOrder`, `FedIsConsumed`, `RequestAnswered` | pass |
| `http_parse_error_unconsumed` | `MCHTTPServerParseError.cfg` | `FedIsConsumed` | violation |
| `logger` | `MCLogger.cfg` | `TypeOK`, `LogSizeBounded` | pass |
| `logger_null_write` | `MCLoggerNullWrite.cfg` | `NoNullWrite` | violation |
| `syscmd_sigchld` | `MCSysCmdSigchld.cfg` | `SigchldRestored` | violation |
| `tcp_send_spin` | `MCTCPServerSendSpin.cfg` | `ExitHonoured` | violation |

Every property of a passing run has a mutant in `PROJECT.json`. A mutant is an operator beside the definition it replaces: a dropped guard, an off-by-one, a stale read or a wrong unit. With the mutant substituted, TLC finds the property violated.

### What the passing runs show

- **`packetbuf`.** Whatever sequence of reads (including reads that fail after `get_left_space` allocated a chunk), whole writes of up to `2C+1` bytes and consumes happens:
  - `total_bytes_` equals the unread bytes;
  - `peek_cur_data` sees data whenever there is any, so recycling never leaves an empty chunk in front of data;
  - the deque holds at most `2 + (peak-1) div C` chunks, where the extra chunk is the one allocated before a failed `recv`;
  - the buffer implements `ByteStream`.
- **`tcp_safety`.** With two peers that connect, send, half-close and reset at any moment:
  - `conns_`, `wait_read_conns_` and the epoll registrations only ever hold open connections (`TablesConsistent`);
  - bytes in an open receive buffer always wait in `wait_read_conns_` (`InputAwaitsCallback`);
  - outside the send loop, a connection is registered for EPOLLOUT exactly when it has unsent bytes or is grace-closing (`WriteInterestExact`);
  - a connection leaves `conns_` with unsent bytes only if it was force-closed (`NoDataDroppedOnClose`).
- **`tcp_liveness`.** One peer is checked under the fairness below:
  - queued responses are eventually sent, unless `start()` returned first;
  - grace-closed connections are eventually closed, unless `start()` returned first;
  - once the exit callback returns true, `start()` returns (`ExitHonoured`): every iteration under way, its sends and its drain pass included, ends. This holds only with the run's assumption that every peer keeps reading. `tcp_send_spin` drops that assumption, and the same property fails.
- **`timers`.** The owner and every callback may use the timer API, and another thread may take pending signals. Under those conditions:
  - a oneshot timer fires once, and not before its delay;
  - an armed oneshot eventually fires, unless the loop has stopped;
  - a signal that becomes pending is eventually consumed, unless the loop has stopped (`SignalEventuallyHandled`). Consumed means either `process_signals` reads it and hands it to `sig_cb_`, or another thread takes it (`taken`). Two signals can be pending at once, and `process_signals` reads one per iteration, so the second must be reported again by a later `epoll_wait`.
- **`http`.** Two clients send well-formed requests one at a time, split over `recv()` calls in every way the model allows:
  - `req_cb_` sees each request once, alone and in order (`ServedInOrder`);
  - the accumulator's byte log is exactly the bytes consumed from the receive buffer (`FedIsConsumed`);
  - every request sent is answered unless its connection closed (`RequestAnswered`).
- **`logger`.** Two threads log with a rotation on every record. `log_idx_` wraps, SIGHUPs arrive at any time, and `exit()` may follow a `D_DEAD` record. Under those conditions:
  - the open log never holds more than one record beyond the limit (`LogSizeBounded`).

### What the violation runs show

These are the findings in `PROJECT.json`.

- **`tcp_drain_skipped`.** A callback that consumes part of the input leaves the rest in the buffer. When `epoll_wait` then returns nothing, the `continue` skips `process_msgs`, and with no further traffic the bytes are never delivered.
- **`timer_nsec_overflow`.** `set_interval` adds the nanosecond parts of now and of the delay without carrying into seconds. Whenever the sum reaches one second, `timerfd_settime` fails with EINVAL and the caller gets an exception.
- **`http_parse_error_unconsumed`.** When `parse_msg` throws, `process_msg` returns before `consume_bytes`. The bytes stay in the receive buffer and are appended to `bytes_` again on every pass. Spec §4.4 says a parse failure still consumes the bytes that were fed.
- **`tcp_send_spin`.** `Conn::send_bytes` answers EAGAIN with `continue` inside `do { } while (1)`, so it retries at once. TLC's trace: a response fills the kernel send queue, the client stops reading, and the owner asks the loop to stop. The loop thread spins in `conn_write_data` for good: `start()` never reaches its exit test again, and no other connection, timer or signal is served. Spec §5 says would-block means stop for this iteration and resume on the next readiness notification. The run uses `LoopFairSpec`, where only the loop is fair and a client may stop reading.
- **`logger_null_write`.** `write_log` points a NULL `fp_` at stdout under `locker_` and then calls `fprintf(fp_)`, but `fp_` can be NULL again by then. TLC's trace: a thread logs before `log_init` and takes stdout; `log_init` then assigns `fp_ = fopen(...)` without the lock, `fopen` fails, and the thread's `fprintf` dereferences NULL.
  - `check_size` does the same inside the writing thread: it sets `fp_` to NULL before `rename` and `fopen`, and returns with it NULL when either fails.
  - `rename` fails whenever `fp_` is stdout, for example when `log_init`'s `fopen` failed and stdout, redirected to a file, outgrows the limit.
  - `fopen` fails on a process out of descriptors.
- **`syscmd_sigchld`.** `get_result` saves the SIGCHLD disposition it finds, sets SIG_IGN and restores what it saved. The disposition is process-wide. When two threads' calls overlap, the second saves the first's SIG_IGN, the first restores SIG_DFL, and the second then restores SIG_IGN for good: the process ignores SIGCHLD from then on, and its `waitpid` calls for other children fail with ECHILD.

Six defects are reachable in the modules, but their runs were given up for the runs above. Each is listed as a hazard with its property:
- `LoopTimers`' `TimerReadSucceeds`: a callback that re-arms the periodic timer between the dispatch that flagged it and `process_timer` resets the kernel's count, so the read fails with EAGAIN and `start()` throws.
- `LoopTimers`' `TimerFdsReleased`: the misspelt `~SysTimerFd` leaks every oneshot timer's descriptor.
- `HTTPServer`'s `ReqsFreed`: `conn_reqs_` entries are erased only by the CONN_DISCONNECTED callback, so a connection the server closes itself (a `grace_close` after the request callback declined keep-alive) keeps its accumulator and `Conn` for the life of the server.
- `TCPServer`'s `WaitWriteMatchesEpoll`: `close_conn` leaves a grace-closed `Conn` with an empty send buffer in `wait_write_conns_`.
- `SysCmd`'s `PipeFdsHeld`: a second `get_result` on one object overwrites `pipefd_` and leaks the previous call's read end.
- `Logger`'s `RotatedLogsExpire`: `delete_old` removes one date per run, and `Logger::timer` sleeps a full day after each run. Each run therefore lands later than the last, by `delete_old`'s own time and the scheduling delay. A run that crosses midnight skips a date, and that date's rotated logs stay for good. The model's clock has two units to a day, so the trace shows the skipped date but not how slowly the drift builds up.

### Bounds

- **`MCPacketBuf`.** Chunk capacity 2 and 9 bytes written in total. That is enough for four chunks, recycling in both directions, and a write chunk that is not the last one.
- **`MCTCPServer`** (safety). Two peers (so one connection's events can land in a ready list between another's), at most 2 bytes sent per peer, 2 response bytes per connection, and a kernel send queue of 1 byte. With these bounds a response can fill the queue, and every close path is reachable with data both queued and pending. The two peers are symmetric model values.
- **`MCTCPServerLive`** (liveness). One peer with the same bounds. Liveness with two peers is far slower, and every property is about a single connection. The exit callback is set there and in the send-spin run (`ExitCb = TRUE`), not in the safety run, whose invariants are about a running loop.
- **`MCLoopTimers`.** Two signals, each raised once, and one oneshot timer. Intervals are half a second and one second, over a clock of 2 units per second that stops at 4 units. There are 2 free descriptors. With these bounds:
  - deadlines occur both with and without a nanosecond part;
  - a timer can be re-armed from a callback;
  - two signals can be pending together;
  - `timerfd_create` runs out of descriptors once the signal fd and the periodic timer are open.

  A second oneshot timer made the run take more than 13 minutes.
- **`MCHTTPServer`.** Two clients and two requests each (enough for a connection to be reused after `clear()`), with plain and body requests. A request of up to three tokens can be split at every boundary.
- **`MCSysCmd`.** Two threads, one call per object, a timeout of 1 s, a size limit of 1 byte and commands that write at most 1 byte, with `pipe`, `fork`, `dup2` and `execve` succeeding and no EINTR. Two threads are what the race on the process-wide disposition needs; the other bounds only shorten the calls.
- **`MCLogger`.** Two threads and four log calls, with `log_size_` 0 so that every write after the first rotates. `log_idx_` wraps after 2 (999 in the code). A day is 2 clock units, the clock stops at 6 (three days), and logs are kept one day. The default size is 1 record, and `mkdir` and `pthread_create` may each succeed or fail. With these bounds, a rotated file can outlive its retention window when `delete_old` misses its date.

### Fairness

- **`TCPServer`, `WF_vars(LoopNext)`.** The loop is one thread that never blocks except in `epoll_wait`, which returns when a descriptor is ready.
- **`TCPServer`, `SF_vars(SendProgress(c))`.** The model lets `send()` fail with an error other than EAGAIN/ECONNRESET at any time. Strong fairness says such errors do not persist while the socket can take bytes.
- **`TCPServer`, `WF_vars(PeerRead(c))`.** Clients read their responses.
- **`TCPServer`, `WF_vars(ServerInit)`.** The owner calls `init()` once the server is built.
- **`TCPServer`, the drain run.** It uses `FairSpec`. Peers are never obliged to send, so a peer that never sends again is allowed, and that is what the run needs. No exit callback is set (`ExitCb = FALSE`), so the loop never stops.
- **`TCPServer`, the send-spin run.** It uses `LoopFairSpec`, where only `init()` and the loop are fair. A client that stops reading is allowed, as a real client may.
- **Deadlock.** The TCP runs set `CHECK_DEADLOCK FALSE`: `init()` may fail and the owner abandons the server, and `start()` returns once `exit()` is true.
- **`LoopTimers`.** Weak fairness on `StartServer`, the loop and the clock. The loop thread runs, and time passes.
- **`HTTPServer`.**
  - Strong fairness for each connection's accept, read and write handlers, because epoll is level-triggered: a ready descriptor is reported at every `epoll_wait` until it is served, but it is not ready during a pass.
  - Weak fairness on `process_msgs` visiting each connection in `todo`, and on ending the pass.
- **`Logger`.** No fairness is assumed, and the clock may pass `wake`: nothing in the code runs the timer thread when its sleep ends.

## Not modelled, and the plan

1. **An abstract connection-lifecycle specification:** connected, then draining, then closed, with `TCPServer` shown to refine it.
2. **Pipelining in the HTTP adapter** (spec §9). With `Pipelining = TRUE`, two requests in one `recv()` reach `req_cb_` as one merged URI, and a request cut by `clear()` fails to parse. This needs its own run.
3. **Descriptor number reuse.** A connection is closed during a dispatch only while its own ready entry is handled, and epoll reports each descriptor once per `epoll_wait`. A new connection given the same number by `accept4` therefore never meets a stale entry of the old one, and the model gives each peer its own descriptor.
4. **Logger restarts.** Rotated files left by a previous process are not modelled; the directory starts empty. Also not modelled: `dump()` (hex formatting) and the length checks on the path names. Rotation names that collide after `log_idx_` wraps within one second are reachable in the model (a `rename` over an older rotated log) but have no run; the hazard is listed.
5. **HTTP headers** (`on_header_field_cb`/`on_header_value_cb`, `get_http_header`). The tokens stand for whole request lines and bodies. The one-past-the-end read of `at[length]` is listed as a hazard.
6. **`SysCmd` beyond the race.** The model reaches the intermediate child left a zombie (it exits before the parent ignores SIGCHLD), `true` returned when the command's `fork`, `dup2` or `execve` failed, and the EINTR path, where `read` blocks past the timeout and an interrupted `read` returns `true` with partial output, but no run states them: the runs were spent on the defects above. The same holds for `PipeFdsHeld`.
   - With `MaxCalls = 2`, TLC finds it violated: a second `get_result` on one object overwrites `pipefd_`.
   - That loses the first call's read end, and both ends if the first call threw at `fork()`.
   - The leaked descriptors are ones `close()` can no longer release.
   - The `syscmd_sigchld` run keeps `MaxCalls = 1`.
7. **Out of scope.** `UDPServer` (no implementation under `src/`), `ServerSet`/threads (independent loops), and the file, DNS and formatting utilities, which are pure I/O or formatting.
