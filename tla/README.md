# A TLA+ model of neosh / neoshd

neosh is a remote shell over QUIC. `neosh connect` starts `neoshd new` on the
remote host over SSH, gets back a single-use auth token, and attaches to the
session over QUIC; a client may detach, lose its connection and resume. This
directory models the server, where the session lives (who owns it, how long it
lives, which token lets whom in, what happens to the shell's output), the
attached client, the commands that bring it there and back after a loss or a
crash, and the C library.

Paths below are relative to the repository (`src/bin/neoshd.rs`, ...).

## Inventory

| component | state | operations | hard behaviour |
|---|---|---|---|
| session manager, `session/manager.rs` | one `Session`: state, owner connection, attach epoch | create, attach_exclusive, detach, conditional_stale_cleanup, terminate, expire | late cleanups of old connections, saturating epoch |
| token service, `token/service.rs` | token records: type, binding, expiry, consumed, revoked | issue, validate_and_consume_auth, validate_resume, revoke, cleanup_expired | single use although records are deleted and the wall clock may jump |
| dispatcher, `protocol/dispatcher.rs` | protocol state of a connection | on_message | out-of-order messages |
| control plane, `bin/neoshd.rs` | `ServerState` behind one async Mutex, the accept loop, a handler task per connection | handle_connection (HELLO, AUTH, ATTACH, RESUME, RESIZE, DETACH, CLOSE, PING), run_quic_accept_loop, the two timeouts, finalize_connection_cleanup, sweeper | tasks interleave at every await; every `?` is an early return that skips the cleanup; timeouts race requests |
| renew-auth IPC, `bin/neoshd.rs` | the Unix socket server | issue a fresh auth token to the owner | one failed exchange ends it |
| data plane, `bin/neoshd.rs` | PTY reader thread, broadcast channel, replay buffer, the mutex of the PTY writer, two pumps per connection | start_data_plane, append_replay | old and new pumps side by side, lag, the gap between two connections, the end marker, writes that block a worker |
| runtime facade, `runtime.rs` | session manager and token service | new_session, renew_auth | - |
| framing, `protocol/framing.rs`, `client/control.rs` | - | encode, decode | length limits |
| client session, `bin/neosh.rs` | run_session: control stream, terminal bridge, resize, keepalive, detach IPC | select over detach, close, error, disconnect, end of stream | notifications without a permit, tasks that outlive their abort |
| client commands, `bin/neosh.rs`, `client/*.rs` | the session cache on disk | connect, resume with backoff, detach | retries against a server that still holds the old attachment; crash while the cache is written |
| C library, `ffi/neosh-client-c` | one connection | connect, send, receive with timeouts | timeouts in the middle of a frame, buffers that are too small |

On the server the components meet in `ServerState`: handlers, accept loop, IPC server and
sweeper share it under the Mutex; the PTY reader thread shares the `pty_exited`
flag and the broadcast channel; clients reach it only through control messages
and by disappearing. What makes it correct: one owner at a time and no takeover;
a session that waits for an owner always has a running timer, one that is owned
never; a cleanup touches only its own attachment; what is over stays over; an
auth token admits one connection; live output without gaps.

On the client `run_session` races its own tasks (detach IPC, stdin, stdout,
control reader) in one `select!`, and what it returns decides whether the command
resumes by itself. The commands meet the server through a bootstrap over ssh, a
sequence of request and answer, and the cache file. What makes them correct: a
detach is not taken for a loss, nor a loss for a detach; a session that lives on
the server can be found again from the cache; every command ends. `PROJECT.json`
lists the hazards line by line.

## Modules

- `Options`: Rust's `Option`, and `SystemTime::duration_since`, which fails when
  the clock has been set back.
- `SessionManager`, `TokenService`, `Dispatcher`: the libraries as operators. A
  method returning `Result` is an operator for the error and one for the effect.
- `Neoshd`: the control plane. One action is one critical section of the Mutex
  or one step between two awaits. `pc[c]` is where the handler of connection `c`
  is; a failed write or call with `?` goes to `failed`, a `break` to `cleanup`.
  `up[c]` says whether the transport works; writes fail once it is lost, frames
  that had arrived can still be read. `Request` has one action per message and
  outcome, `HandlerStep` what a handler does on its own.
- `ExclusiveSession`: the abstract specification, a lock that is taken and
  released by its owner until it is over. `Neoshd` implements it with the owner,
  the epoch, "Expired or Terminated" and the set of connections that count
  themselves attached as refinement mapping.
- `MCNeoshd`: symmetry for TLC.
- `TokenLifecycle`: every sequence of calls of the token service, for several
  sessions and users, on a clock that jumps; history variables remember what was
  issued, spent and revoked after the records are gone.
- `DataPlane`: the output path. Chunks are numbered; `queue[c]` is what the
  channel holds for the receiver of `c`, and a receiver more than `ChannelCap`
  behind has lagged. The control messages are reduced to what starts and ends a
  data plane.
- `StdinPath`: the input path. A chunk is what one read returns and reaches the PTY
  in `Size` parts, as the terminal's queue of `Room` parts allows; `lock` is the
  mutex of the PTY writer. Lock and write block their thread, so `Free`, which all
  other steps of tasks and handlers need, counts the workers left.
- `StdinFilter`: the search for Ctrl-a d in chunks of input, byte by byte as a
  recursive function, and what it is for, said of the whole input.
- `NeoshClient`: `run_session` from the attachment to its return. `pc` is where it
  is, one action per `select!` branch; `ipc`, `read`, `stdin` and `watch` are the
  tasks it spawned, `signals` the channel they report on. `woken` is the `Notify`:
  it keeps no permit, so a wakeup before `select!` is lost. `net` says whether the
  connection works and who ended it.
- `ClientResume`: connect_cmd, resume_cmd, resume_with_backoff and `run_session`
  up to the attachment, composed with `SessionManager` and `TokenService` as the
  server. Requests and answers travel separately, the client may be killed at any
  step, and the cache file is truncated before it is written. `readers` are the
  stdin tasks that earlier connections of the process left behind. Two variables are
  history, read by properties only: `granted`, the resume tokens neoshd has issued,
  and `deletion`, why the client last deleted the entry and by which token it went.
- `Framing`: encode_frame and decode_frame over units of a byte stream, and
  `Carries`, when a stream is the frames of given payloads one after the other.
- `FfiClient`: the exported calls of the C library, one at a time, each in as many
  steps as it waits; units of the control stream arrive one by one, so a timeout
  can fall between any two.
- `Neoshd_proofs`, `TokenLifecycle_proofs`, `DataPlane_proofs`,
  `StdinPath_proofs`, `NeoshClient_proofs`, `ClientResume_proofs`,
  `FfiClient_proofs`: the theorems.
- `DataFacts`: lemmas about numbers and sequences that several of them use.

Operators named `x_Something` next to a definition `x` are mutants: `x` with a
plausible slip. Replacing `x` by its mutant must violate the property listed with
it in `PROJECT.json`.

### Abstractions

A raw token is a number in the order of issue (0 is a token nobody issued); 32
random bytes and SHA-256 make tokens distinct and unguessable, which the model
takes for granted. A request names the session of this process or another one.
Error codes are not distinguished: each refusal is an ERROR frame and a `break`.
The QUIC handshake of an accepted connection is part of `AcceptBi`. ERROR frames
that the code writes while it holds the Mutex are written in the same step. A
critical section reads the clock once. A chunk of output is a number, and the
replay buffer is measured in chunks; the code cuts it to a number of bytes.

Keys are the ones the hotkey filter tells apart, and a chunk has 1 to `MaxChunk`
of them. In `ClientResume` the server is its session, its tokens and its shell; when one of
its timeouts fires is left open, which includes every clock. Client and server
share one clock there. The four bytes of a frame's length are two units of
`Base` values each, the fewest a timeout can separate; the values of the
constants keep the relation between them (a payload unit can be misread as part
of a length, a payload can exceed the limit).

## Runs

| run | instance | shows |
|---|---|---|
| `control_plane` | 2 connections (symmetric), both timeouts 1, tokens that expire within the run, a resume token TTL shorter than the auth TTL, epoch saturating at 1, one renewal before the first AUTH | all safety and action properties of `Neoshd` and the refinement |
| `clock_set_back` | 1 connection, timeouts 2, time up to 3 and beyond a deadline, two backward clock steps | `UnownedSessionEnds`, `OverStopsServer`, `LostHandlersEnd` |
| `tokens` | 2 sessions, 2 users, 2 tokens, TTLs 0 to 2, clock 0 to 2 | `SingleUse`, `GrantsAreSound` |
| `data_plane` | 2 connections, channel of 2, replay of 2, 4 chunks | `LiveIsContiguous`, `ReplayIsNotRepeated`, `ReplayIsBounded`, `ExitReachesSubscribers` |
| `input_path` | 2 connections, 2 workers, 2 chunks of 2 parts, a queue of 1 part | `ChunksAreWhole`, `InputIsOrdered`, `NobodyStarves` |
| `client_session` | one attachment, 3 keys in chunks of 1 to 3 | `DetachIsNotDisconnect`, `OkIsHonest`, `StdinIsFaithful`, `LostIsNoticed` |
| `client_resume` | a connect and a resume, 2 lost connections, TTLs and time 1, 3 typed chunks, a kill at any step | `LiveSessionIsCached`, `CachedTokenIsHonoured`, `AuthFailsOnlyLate`, `InputLossIsBounded`, `CommandsEnd` |
| `c_client` | 2 frames each way, payloads of 0 to 2 units, limit 5, buffers of 1 and null, 1 chunk of output and its end | `FramesAreReported`, `PostedIsReceived`, `StdoutIsLossless`, `PayloadReadEnds` |

The remaining runs expect a violation: each states what a document says and what
the code does not do.

| run | property | what TLC finds |
|---|---|---|
| `owner_leaks` | `EndedHandlersOwnNothing` | a write or the spawn of the shell fails after the attachment: the session stays attached to a connection that is gone, without a timer |
| `lag_closes` | `OverMeansShellExited` | a receiver that lags ends its pump, STDOUT ends, the client answers with CLOSE and the session is over while its shell runs |
| `hotkey_lost` | `HotkeyDetaches` | the hotkey is read between the start of the stdin task and the `select!`: the wakeup is lost, the task has ended, and the client stays attached without input |
| `resume_denied` | `SameClientIsNotDenied` | the client resumes before neoshd has noticed the loss and is refused because of its own old connection, which it does not retry |

Observations without a run of their own:

- A shell that exited leaves no mark on a detached session: DETACH after the exit,
  then RESUME, attaches to a dead shell (README.md:128 says it terminates and
  cannot be resumed).
- Requests that end by `?` are not answered with an ERROR frame
  (neosh_protocol_v0.1.0.md:188).
- One failed exchange ends the renew-auth server, and with it every later resume
  of a session that is still alive.
- docs/v0.1.0/neoshd_implementation.md:477 stops the pumps of a connection before the
  session is released; the code stops neither. The old output task appends chunks
  to the replay buffer that the next one's appends as well, so a later replay
  holds them twice, and the old input task types what had arrived into the shell,
  perhaps after the next owner's input.
- Output produced while no receiver is subscribed is dropped, not kept for replay.
- The three attempts of resume_with_backoff are never given back, so a third loss
  ends the client however long the session between them lasted; and a failed QUIC
  connection is not retried at all, although
  docs/v0.2.0/neosh_implementation.md:123 says it is.
- recv_control_json reports BUFFER_TOO_SMALL after it took the frame off the
  stream, so the caller cannot read it with a larger buffer.
- The bytes before the hotkey in the same chunk are dropped with it.
- The client treats every end of STDOUT as the end of the shell: it sends CLOSE,
  deletes the cache entry and closes the endpoint at once. When a lagging receiver
  was the reason and CLOSE is lost, the session and its shell live on without an
  entry until the detached timeout.
- SESSION_EXPIRED for the token a `neosh resume` started with deletes the entry by
  session id, and with it the one written for this connection a moment ago, whose
  token neoshd would still take.
- A `?` between the bind of the IPC socket and the teardown leaves the file behind;
  the next attachment removes it.

Two smaller ones. CLOSE on a detached session
leaves `detached_at` set, so the detached timeout may turn Terminated into Expired
before the accept loop notices; the session is over either way (`OverIsFinal`).
And `RESUME_OK.replay_bytes` is read in an earlier critical section than the
replay, so it may be stale; the clients ignore it.

### Bounds

Two connections are enough for one to be late while the other owns the session;
a connection is used once, as in the code, where every connection has a fresh id.
`MaxTokens` stops renewals, not the resume tokens that AUTH issues. `MaxTime`
stops the clock, except that time goes on while a timeout is pending, so no
timeout is out of reach. `MaxEpoch` stands for `u64::MAX`; at 1 the epochs of two
attachments coincide, the hard case. With three keys (`MaxTyped`, `MaxChunk` of
`NeoshClient`) the two of the hotkey can be in one chunk or in two, with a key
before or after them. `MaxChunks` exceeds the channel's capacity
and the replay's, so that a receiver can lag and the buffer overflows.
`MaxLosses` and `MaxCommands` let the loss of the first connection, the loss of the
resumed one and a fresh `neosh resume` follow each other; `MaxTyped` in
`ClientResume` is one more than one left-over task may take. Two frames let one be
torn and the next be misread. Two workers are as many as tasks, so that input can take all of
them. `CHECK_DEADLOCK` is off for `DataPlane`, `StdinPath` and the clients, where users, callers and the shell may stop for good; `Neoshd` is checked for deadlock, and only an exited process stutters.

### Fairness

`LoopFairness`: `run_quic_accept_loop` waits at most a second for a connection,
so it turns for ever; time passes. `HandlerFairness`: quinn returns an error from
every pending operation of a lost connection, and a handler that left its loop
reaches its cleanup. Clients owe nothing. Both rest on the Mutex being released:
an ERROR frame written under it to a peer that does not read could hold it (see
the hazard at `neoshd.rs:696`), which the model does not show. In `DataPlane`
tasks and the reader thread run, and a connected client reads its stream, as
`bridge_terminal` does.

In `StdinPath` tasks run when a worker is free; the program in the terminal owes
nothing, so `NobodyStarves` excepts a queue that stays full for ever:
then the writer keeps its worker, every other input task takes one more, and the
server may stop altogether. Input is finite there; a std mutex promises a task
that waits beside endless input nothing.

In `NeoshClient` tokio runs what is ready (the main task, a read of a connection
that is gone, the IPC task once it has its request), and neoshd closes a
connection over which DETACH or CLOSE came, as `handle_connection` does. It owes
nothing else, the user need not type, and an IPC peer need not finish its
request. In `ClientResume` the client runs, ssh ends, and neoshd answers on a
working connection; whether the network keeps one, when neoshd notices a loss and
when it expires a session is open. In `FfiClient` a call takes what there is, its
timer fires, and what was sent arrives.

## Proofs

TLAPS proves for every set of connections, all timeouts and TTLs, and every bound:

- `TypeCorrect`, `TimerSafe`, `OwnershipSafe`, `OwnersSafe`, `StopsSafe`: the
  invariants of `control_plane`;
- `AttachedNeverExpires`, `OverForGood`, `LateCleanup`: its action properties;
- `Refinement`: `Spec => Lock!Spec`;
- `SingleUseAlways`, `GrantsAlwaysSound`, `TokenTypeCorrect` for `TokenLifecycle`;
- `TypeCorrect`, `LiveOutputIsContiguous`, `ReplayIsNotRepeatedLive`,
  `ReplayStaysBounded` for `DataPlane`;
- `TypeCorrect`, `ChunksAreAlwaysWhole`, `InputIsAlwaysOrdered` for `StdinPath`;
- `DetachIsNeverDisconnect`, `OkIsAlwaysHonest`, `StdinIsAlwaysFaithful`,
  `ClientTypeCorrect` for `NeoshClient`, with input of any length in chunks of any
  length;
- `LiveSessionIsAlwaysCached`, `AuthAlwaysFailsLate`, `CachedTokenIsAlwaysHonoured`,
  `InputLossIsAlwaysBounded`, `ResumeTypeCorrect` for `ClientResume`;
- `FramesAreAlwaysReported`, `PostedIsAlwaysReceived`, `StdoutIsAlwaysLossless`,
  `FfiTypeCorrect` for `FfiClient`, for every unit size, frame limit and number of
  frames.

So every invariant, every action property and the refinement that a passing run
checks is also a theorem.

Assumptions: `None` is no number, connection, stop reason, answer or deletion; durations and bounds
are naturals; `MaxEpoch > 0`; `Absent` and `Torn` are no cache entries; a length
one above the frame limit still fits the header (`MaxFrame <= Base * Base - 2`; in
the code the limit is 64 KiB and the header a `u32`). The last one is needed: the
sender checks no limit, and a longer payload whose length wrapped round would be
read as a shorter frame. The model's callers post up to one unit above the limit;
that nobody posts 4 GiB is taken from them. Every other bound plays no part in any
argument.

The inductive invariant is `IInv` of `Neoshd`. `HoldersOwn` needs
`TimerMatchesOwnership` (no owner exactly when the state is not Attached),
because an attachment must find no other holder, and together with `TypeOK`
they are inductive. `OwnersAuthenticated` needs that tokens are numbered in the
order of issue (a new token has not been accepted before), that the record of an
accepted token, while it exists, says it was consumed, and that an authenticated
handler has a token; deleting a record then cannot hurt, since an accepted token
needs a record. `StopsForAReason` needs that only a session never attached is
Created. The proof first sorts the actions of `Next` into what they do to the
session (`SessionStep`: nothing, attach, release, end) and to the tokens
(`TokenStep`), and shows each part for these few cases.

`DataPlane`: the properties speak of what was written to a client, and hold because
of where each chunk waits. `ConnInv` says of one connection that its snapshot ends
where its subscription starts, that what it was sent live is numbered without a
gap from there, that the chunk in the pump's hand is the next one, and that the
channel continues it up to the last chunk produced, the end marker last.

`StdinPath`: the task that writes holds the mutex, the part before the one it writes
is already in the input, and an incomplete chunk at the end of the input is the
one in its hands or was cut off by the end of the shell.

`NeoshClient`: the flag is raised before DETACH is written and lowered only where
it could not be written, so it is up whenever a DETACH of the IPC task is on the
wire; it is only raised for a request that was read; and a teardown without a
disconnection has its reason. With these `run_session` may read the flag twice,
100 ms apart, while the IPC task runs, and the outcome is still right.
`StdinInv` is the argument about input: while the task reads, what it has written
and the Ctrl-a it holds back are all that was typed, and it holds one back exactly
if the last key was one. One chunk keeps that (`FilterChunk`), by looking at the
first byte after which it would fail. That the filter starts with nothing pending
needs the phases of `run_session` (`TaskOK`): no task runs before the server's
stream was accepted. `TaskOK` also bounds the `control_tx` channel by the tasks
that have ended, since each sends only as it ends.

`ClientResume`: between AUTH_OK and the written file the client holds a complete
entry, and from then until its connection ends the file is there (`IInv`).
`TokenInv` follows the tokens: until neoshd has answered it the auth token of the
last bootstrap is unused, whatever renewals and attempts came before; the record of
a granted resume token says what the grant said and outlives every sweep while the
token is valid; and the token in AUTH_OK, in the entry the client makes of it and in
the file is a granted one, each step dating its expiry no earlier than the one
before. A new neoshd, which knows no earlier grant, is started only while there is
no file yet (`FirstEntry`).
`DeletionInv` is about the missing file. A token is dead when neoshd has issued it
and every record of it has expired. The client deletes an entry it finds expired, whose token is then
dead by `TokenInv`, or on SESSION_EXPIRED, which neoshd answers only for a dead token
or an ended session; and dead tokens stay dead (`DeadStays`), because the clock does
not go back and new tokens get new numbers. The third deletion, at the end of STDOUT,
is the exception the property names. `LossIsCounted` charges every lost chunk to a state change of a
task left behind; each has at most two.

`FfiClient`: `ReportInv` puts what the call under way holds (units of a length, or
a length and units of its payload) back in front of the stream; together they
carry exactly the frames not reported yet, unless a length was torn or the
connection is lost. It needs the types (`TypeInv`): a call holds less than it asked
for. `PostInv` and `StdoutInv` say the same of what the library sends and of
STDOUT.

An argument by induction over data is made by a least counterexample (`NatMin` of
`DataFacts`), since the provers cannot instantiate a predicate in the library's
induction rules. It serves where the recursive definition is unfolded one step at
a time, as in the filter.

Only model-checked: the liveness properties (`UnownedSessionEnds`,
`OverStopsServer`, `LostHandlersEnd`, `ExitReachesSubscribers`, `NobodyStarves`,
`LostIsNoticed`, `CommandsEnd`, `PayloadReadEnds`), which need fairness and ENABLED,
out of the provers' reach; and the violations, which are counterexamples.

## Not modelled

Start-up (TLS material, bind addresses, ports, arguments), logging, the
computation of the certificate fingerprint, the remote shell command of the
bootstrap, the operating system's side of the PTY and the constants of
`transport/quic.rs`: functions without state, or I/O. `NeoshdRuntime` is a facade
over the session manager and the token service that only tests use.
The keepalive and resize tasks of the client ignore every failure. That a C
caller uses a handle from two threads, or after it was freed, is outside the
library's contract.

## Plan

1. The renew-auth exchange step by step, silent peers included, and the Mutex of
   `ServerState` as a resource that a write may hold.
2. The action properties the proofs already contain, such as that `StdinEof` and
   `ReadStdin` only ever extend what was forwarded, stated where a run can check
   them.
