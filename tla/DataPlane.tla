------------------------------ MODULE DataPlane ------------------------------
(***************************************************************************)
(* The output path of neoshd (src/bin/neoshd.rs): the PTY reader thread    *)
(* sends chunks on a tokio broadcast channel; start_data_plane takes a     *)
(* snapshot of the replay buffer, subscribes and writes the snapshot, then *)
(* a pump task per connection receives chunks, appends each to the replay  *)
(* buffer and writes it to the connection's STDOUT stream.                 *)
(*                                                                         *)
(* Chunks are numbered 1, 2, ... as the shell produces them; EOF is the    *)
(* empty chunk of the reader thread.  The pump of a connection that is     *)
(* gone lives on until a write fails, so several pumps may run at once.    *)
(* Control messages are reduced to what starts and ends a data plane.      *)
(***************************************************************************)
EXTENDS Options, Sequences

CONSTANTS
    Conns,
    ChannelCap,   \* capacity of the broadcast channel (64 in the code)
    ReplayCap,    \* --replay-buffer-bytes, in chunks
    MaxChunks     \* bound: chunks the shell produces

ASSUME DataPlaneAssumption ==
    /\ None \notin Conns
    /\ ChannelCap \in Nat \ {0} /\ ReplayCap \in Nat /\ MaxChunks \in Nat

VARIABLES
    produced,   \* chunks read from the PTY so far
    reader,     \* "none" (no PTY yet), "reading", "exited" (pty_exited is
                \* stored), "done" (EOF is sent)
    owner,      \* the connection attached to the session
    over,       \* the session is terminated
    up,         \* up[c]: the transport of c works
    pc,         \* pc[c]: the handler of c
    resumed,    \* resumed[c]: it came by RESUME, not by ATTACH
    snapshot,   \* snapshot[c]: the replay taken at subscription
    since,      \* since[c]: history, chunks produced before the subscription
    queue,      \* queue[c]: what the channel holds for the receiver of c
    pump,       \* pump[c]: the output task of c
    chunk,      \* chunk[c]: the chunk it is working on
    replay,     \* ServerState::replay
    stdout      \* stdout[c]: live chunks written to the STDOUT stream of c

handlerVars == <<owner, over, pc, resumed>>
streamVars  == <<snapshot, since>>
pumpVars    == <<pump, chunk>>
vars == <<produced, reader, up, handlerVars, streamVars, queue, pumpVars,
          replay, stdout>>

EOF == 0

TypeOK ==
    /\ produced \in 0..MaxChunks
    /\ reader \in {"none", "reading", "exited", "done"}
    /\ owner \in Option(Conns) /\ over \in BOOLEAN
    /\ up \in [Conns -> BOOLEAN]
    /\ pc \in [Conns -> {"idle", "attached", "replaying", "live", "closed", "failed"}]
    /\ resumed \in [Conns -> BOOLEAN]
    /\ snapshot \in [Conns -> Seq(Nat)]
    /\ since \in [Conns -> Nat]
    /\ queue \in [Conns -> Seq(Nat)]
    /\ pump \in [Conns -> {"none", "recv", "append", "write", "done"}]
    /\ chunk \in [Conns -> Nat]
    /\ replay \in Seq(1..produced)             \* never the end marker
    /\ stdout \in [Conns -> Seq(1..produced)]

Init ==
    /\ produced = 0 /\ reader = "none" /\ owner = None /\ over = FALSE
    /\ up = [c \in Conns |-> TRUE]
    /\ pc = [c \in Conns |-> "idle"]
    /\ resumed = [c \in Conns |-> FALSE]
    /\ snapshot = [c \in Conns |-> <<>>]
    /\ since = [c \in Conns |-> 0]
    /\ queue = [c \in Conns |-> <<>>]
    /\ pump = [c \in Conns |-> "none"]
    /\ chunk = [c \in Conns |-> 0]
    /\ replay = <<>>
    /\ stdout = [c \in Conns |-> <<>>]

----------------------------------------------------------------------------
(* The broadcast channel *)

\* Mutant: subscribed in the first critical section.
Receivers_FromAttach ==
    {c \in Conns : \/ pc[c] \in {"attached", "replaying"}
                  \/ pump[c] \in {"recv", "append", "write"}}

\* A receiver exists from the subscription until its owner drops it.
Receivers ==
    {c \in Conns : pc[c] = "replaying" \/ pump[c] \in {"recv", "append", "write"}}

\* send reaches the receivers that exist; without any the value is dropped.
send(x) ==
    queue' = [c \in Conns |-> IF c \in Receivers THEN Append(queue[c], x) ELSE queue[c]]

\* The channel keeps the last ChannelCap values: a receiver further behind gets
\* Err(Lagged) from its next recv.
lagged(c) == Len(queue[c]) > ChannelCap

----------------------------------------------------------------------------
(* Mutants *)

append_replay_Unbounded(r, x) == Append(r, x)

Recv_AfterLag(c) ==
    LET q == IF lagged(c)
             THEN SubSeq(queue[c], Len(queue[c]) - ChannelCap + 1, Len(queue[c]))
             ELSE queue[c]
    IN  /\ pump[c] = "recv" /\ q # <<>>
        /\ Head(q) # EOF
        /\ chunk' = [chunk EXCEPT ![c] = Head(q)]
        /\ queue' = [queue EXCEPT ![c] = Tail(q)]
        /\ pump' = [pump EXCEPT ![c] = "append"]
        /\ UNCHANGED <<produced, reader, up, handlerVars, streamVars, replay,
                       stdout>>

Recv_TakesEof(c) ==
    /\ pump[c] = "recv" /\ queue[c] # <<>>
    /\ ~ lagged(c)
    /\ chunk' = [chunk EXCEPT ![c] = Head(queue[c])]
    /\ queue' = [queue EXCEPT ![c] = Tail(@)]
    /\ pump' = [pump EXCEPT ![c] = "append"]
    /\ UNCHANGED <<produced, reader, up, handlerVars, streamVars, replay, stdout>>

RecvEnd_OnlyLagged(c) ==
    /\ pump[c] = "recv" /\ lagged(c)
    /\ pump' = [pump EXCEPT ![c] = "done"]
    /\ UNCHANGED <<produced, reader, up, handlerVars, streamVars, queue, chunk,
                   replay, stdout>>

----------------------------------------------------------------------------
(* The PTY reader thread *)

ReadChunk ==
    /\ reader = "reading" /\ produced < MaxChunks
    /\ produced' = produced + 1
    /\ send(produced + 1)
    /\ UNCHANGED <<reader, up, handlerVars, streamVars, pumpVars, replay, stdout>>

\* Ok(0) or Err from the PTY: the flag first, then the empty chunk.
ReadEof ==
    /\ reader = "reading"
    /\ reader' = "exited"
    /\ UNCHANGED <<produced, up, handlerVars, streamVars, queue, pumpVars,
                   replay, stdout>>

SendEof ==
    /\ reader = "exited"
    /\ reader' = "done"
    /\ send(EOF)
    /\ UNCHANGED <<produced, up, handlerVars, streamVars, pumpVars, replay, stdout>>

----------------------------------------------------------------------------
(* The handler of a connection *)

\* ATTACH or RESUME under the lock: the first spawns the PTY and its reader
\* thread.  (The replay length RESUME_OK reports is left out.)
Attach(c, resume) ==
    /\ pc[c] = "idle" /\ owner = None /\ ~ over
    /\ owner' = c
    /\ reader' = IF reader = "none" THEN "reading" ELSE reader
    /\ pc' = [pc EXCEPT ![c] = "attached"]
    /\ resumed' = [resumed EXCEPT ![c] = resume]
    /\ UNCHANGED <<produced, over, up, streamVars, queue, pumpVars, replay, stdout>>

snapshot_of(c) == IF resumed[c] THEN replay ELSE <<>>

\* The reply is written and the STDOUT stream opened; then, under the lock once
\* more, the snapshot is taken and the receiver subscribed.
Subscribe(c) ==
    /\ pc[c] = "attached" /\ up[c]
    /\ pc' = [pc EXCEPT ![c] = "replaying"]
    /\ snapshot' = [snapshot EXCEPT ![c] = snapshot_of(c)]
    /\ since' = [since EXCEPT ![c] = produced]
    /\ UNCHANGED <<produced, reader, up, owner, over, resumed, queue,
                   pumpVars, replay, stdout>>

\* The replay has been written to STDOUT: spawn the pump.
SpawnPump(c) ==
    /\ pc[c] = "replaying" /\ up[c]
    /\ pc' = [pc EXCEPT ![c] = "live"]
    /\ pump' = [pump EXCEPT ![c] = "recv"]
    /\ UNCHANGED <<produced, reader, up, owner, over, resumed,
                   streamVars, queue, chunk, replay, stdout>>

\* A write fails: handle_connection returns and keeps the session attached.
AttachFails(c) ==
    /\ pc[c] \in {"attached", "replaying"} /\ ~ up[c]
    /\ pc' = [pc EXCEPT ![c] = "failed"]
    /\ UNCHANGED <<produced, reader, up, owner, over, resumed,
                   streamVars, queue, pumpVars, replay, stdout>>

\* DETACH (explicit), or the end of the connection: the session is free again,
\* or over when pty_exited is set and the client did not detach; the connection
\* is closed.  The pump is not stopped.
Leave(c, explicit) ==
    /\ pc[c] = "live" /\ owner = c
    /\ owner' = None
    /\ over' = (~ explicit /\ reader \in {"exited", "done"})
    /\ pc' = [pc EXCEPT ![c] = "closed"]
    /\ up' = [up EXCEPT ![c] = FALSE]
    /\ UNCHANGED <<produced, reader, resumed, streamVars, queue,
                   pumpVars, replay, stdout>>

\* The client reads to the end of its STDOUT stream, takes it for the exit of the
\* shell and sends CLOSE; the handler terminates the session.  A pump that ended
\* on a working connection has finished the stream.
ClientCloses(c) ==
    /\ pc[c] = "live" /\ owner = c
    /\ up[c] /\ pump[c] = "done"
    /\ owner' = None
    /\ over' = TRUE
    /\ pc' = [pc EXCEPT ![c] = "closed"]
    /\ up' = [up EXCEPT ![c] = FALSE]
    /\ UNCHANGED <<produced, reader, resumed, streamVars, queue,
                   pumpVars, replay, stdout>>

ConnLost(c) ==
    /\ up[c] /\ pc[c] # "idle"
    /\ up' = [up EXCEPT ![c] = FALSE]
    /\ UNCHANGED <<produced, reader, handlerVars, streamVars, queue, pumpVars,
                   replay, stdout>>

----------------------------------------------------------------------------
(* The pump: recv; append_replay under the lock; write_all *)

append_replay(r, x) ==
    LET s == Append(r, x) IN
    IF Len(s) > ReplayCap THEN SubSeq(s, Len(s) - ReplayCap + 1, Len(s)) ELSE s

Recv(c) ==
    /\ pump[c] = "recv" /\ queue[c] # <<>>
    /\ ~ lagged(c)
    /\ Head(queue[c]) # EOF
    /\ chunk' = [chunk EXCEPT ![c] = Head(queue[c])]
    /\ queue' = [queue EXCEPT ![c] = Tail(@)]
    /\ pump' = [pump EXCEPT ![c] = "append"]
    /\ UNCHANGED <<produced, reader, up, handlerVars, streamVars, replay, stdout>>

\* Err(Lagged) or the empty chunk: leave the loop and finish the stream.
RecvEnd(c) ==
    /\ pump[c] = "recv" /\ queue[c] # <<>>
    /\ lagged(c) \/ Head(queue[c]) = EOF
    /\ pump' = [pump EXCEPT ![c] = "done"]
    /\ UNCHANGED <<produced, reader, up, handlerVars, streamVars, queue, chunk,
                   replay, stdout>>

AppendReplay(c) ==
    /\ pump[c] = "append"
    /\ replay' = append_replay(replay, chunk[c])
    /\ pump' = [pump EXCEPT ![c] = "write"]
    /\ UNCHANGED <<produced, reader, up, handlerVars, streamVars, queue, chunk, stdout>>

WriteStdout(c) ==
    /\ pump[c] = "write"
    /\ IF up[c]
       THEN /\ stdout' = [stdout EXCEPT ![c] = Append(@, chunk[c])]
            /\ pump' = [pump EXCEPT ![c] = "recv"]
       ELSE /\ pump' = [pump EXCEPT ![c] = "done"]
            /\ UNCHANGED stdout
    /\ UNCHANGED <<produced, reader, up, handlerVars, streamVars, queue, chunk, replay>>

Pump(c) == Recv(c) \/ RecvEnd(c) \/ AppendReplay(c) \/ WriteStdout(c)

Handler(c) == Subscribe(c) \/ SpawnPump(c) \/ AttachFails(c)

Next ==
    \/ ReadChunk \/ ReadEof \/ SendEof
    \/ \E c \in Conns :
         \/ \E flag \in BOOLEAN : Attach(c, flag) \/ Leave(c, flag)
         \/ Handler(c) \/ ClientCloses(c) \/ ConnLost(c) \/ Pump(c)

Spec == Init /\ [][Next]_vars

\* The tasks and the reader thread run when they can, and a connected client
\* reads what is written to it (bridge_terminal always does), so that a write
\* ends or fails; otherwise clients, the network and the shell owe nothing.
FairSpec ==
    Spec /\ WF_vars(SendEof)
         /\ \A c \in Conns : WF_vars(Pump(c)) /\ WF_vars(Handler(c))

----------------------------------------------------------------------------
(* Properties *)

\* What a client sees live is the shell's output from its subscription on, each
\* chunk once, in order, without a gap: a receiver that lagged is cut off
\* rather than carried on behind the gap.
LiveIsContiguous ==
    \A c \in Conns : \A i \in 1..Len(stdout[c]) : stdout[c][i] = since[c] + i

\* Nothing that was replayed to a client is sent to it again live, although the
\* pumps of earlier connections fill the replay buffer while it subscribes: the
\* snapshot and the subscription are one critical section.
ReplayIsNotRepeated ==
    \A c \in Conns : \A i \in 1..Len(snapshot[c]), j \in 1..Len(stdout[c]) :
        snapshot[c][i] # stdout[c][j]

\* The replay buffer never outgrows --replay-buffer-bytes, whatever number of
\* pumps append to it.
ReplayIsBounded == Len(replay) <= ReplayCap

\* Once the shell has exited, the stream of every client that was subscribed in
\* time for the end marker is finished, so that client notices, or its handler
\* had already failed.
ExitReachesSubscribers ==
    \A c \in Conns :
        (c \in Receivers /\ reader = "exited")
          ~> (pump[c] = "done" \/ pc[c] = "failed")

----------------------------------------------------------------------------
(* What the documents promise and the code does not keep *)

\* docs/v0.1.0/neoshd_implementation.md:414, "write output to `STDOUT` stream with
\* backpressure handling", and the comment in run_session that the stream ends
\* when the shell does: a session is over only once its shell has exited.
OverMeansShellExited == over => reader \in {"exited", "done"}

=============================================================================
