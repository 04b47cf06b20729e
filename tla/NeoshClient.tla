---------------------------- MODULE NeoshClient ----------------------------
(***************************************************************************)
(* The attached client: run_session of src/bin/neosh.rs from ATTACH_OK or  *)
(* RESUME_OK to its return, and the tasks it races against: the detach     *)
(* IPC listener, the stdin and stdout tasks of bridge_terminal, and        *)
(* control_watch_loop.  The keepalive and resize tasks send PING and       *)
(* RESIZE, ignore every failure and change nothing here, so they are left  *)
(* out, and with them raw mode and logging.  Control frames are small: a   *)
(* write to a working connection does not block.                           *)
(*                                                                         *)
(* The network may lose the connection and the server close it at any      *)
(* time; the user types in chunks and asks for `neosh detach`.             *)
(***************************************************************************)
EXTENDS StdinFilter, FiniteSets

CONSTANTS
    None,
    MaxTyped,     \* bound: keys the user types
    MaxChunk      \* bound: keys the terminal hands over at once

ASSUME ClientAssumption ==
    /\ MaxTyped \in Nat /\ MaxChunk \in Nat
    /\ None \notin {"Ok", "Closed", "Disconnected", "Protocol", "Io"}

VARIABLES
    pc,           \* where run_session is
    result,       \* what it returned
    disconnected, \* its local variable
    cached,       \* the cache entry of the session exists
    net,          \* "up", "lost", "closed" by the server, "ended" by the client
    wire,         \* control messages written
    ipc,          \* the IPC task
    socket,       \* the IPC socket file exists
    flag,         \* detach_requested_from_ipc
    asked,        \* history: the IPC task took a valid detach request
    woken,        \* notify_detach has completed the future select! waits on
    signals,      \* the control_tx channel
    watch,        \* control_watch_loop
    read,         \* the stdout task of bridge_terminal
    stdin,        \* the stdin task of bridge_terminal
    pending,      \* its pending_ctrl_a
    typed,        \* history: keys it has read
    forwarded     \* bytes it has written to the STDIN stream

mainVars  == <<pc, result, disconnected, cached>>
ipcVars   == <<ipc, flag, asked>>
taskVars  == <<watch, read>>
stdinVars == <<stdin, pending, typed, forwarded>>
vars == <<mainVars, net, wire, ipcVars, socket, woken, signals, taskVars, stdinVars>>

ControlSignal == {"Close", "Error", "Disconnected", "StreamClosed"}

TypeOK ==
    /\ pc \in {"setup", "accept", "spawned", "select", "send_detach",
               "send_close", "teardown", "grace", "done"}
    /\ result \in {None, "Ok", "Closed", "Disconnected", "Protocol", "Io"}
    /\ disconnected \in BOOLEAN /\ cached \in BOOLEAN
    /\ net \in {"up", "lost", "closed", "ended"}
    /\ wire \in SUBSET {"DETACH", "CLOSE"}
    /\ ipc \in {"none", "listen", "reading", "sending", "notify", "done"}
    /\ socket \in BOOLEAN /\ flag \in BOOLEAN /\ asked \in BOOLEAN /\ woken \in BOOLEAN
    /\ signals \in Seq(ControlSignal)
    /\ Len(signals) <= 2                 \* each task speaks once
    /\ watch \in {"none", "reading", "ended"}
    /\ read \in {"none", "reading", "ended", "broken"}
    /\ stdin \in {"none", "reading", "ended", "hotkey"}
    /\ pending \in BOOLEAN
    /\ typed \in Seq(Keys) /\ Len(typed) <= MaxTyped
    /\ forwarded \in Seq(Keys \cup {Del})

Init ==
    /\ pc = "setup" /\ result = None /\ disconnected = FALSE /\ cached = TRUE
    /\ net = "up" /\ wire = {}
    /\ ipc = "none" /\ socket \in BOOLEAN      \* an earlier run may have left it
    /\ flag = FALSE /\ asked = FALSE /\ woken = FALSE
    /\ signals = <<>> /\ watch = "none" /\ read = "none"
    /\ stdin = "none" /\ pending = FALSE /\ typed = <<>> /\ forwarded = <<>>

Return(r) == pc' = "done" /\ result' = r

\* Notify::notify_waiters keeps no permit: it completes the futures that exist,
\* and run_session's exists once select! has been entered.
notify_waiters == woken' = (woken \/ pc = "select")

----------------------------------------------------------------------------
(* Mutants *)

IpcRead_FlagLater(valid) ==
    /\ ipc = "reading"
    /\ ipc' = IF valid THEN "sending" ELSE "listen"
    /\ asked' = (asked \/ valid)
    /\ UNCHANGED <<mainVars, net, wire, flag, socket, woken, signals, taskVars,
                   stdinVars>>

SelectDisconnected_Plain ==
    /\ pc = "select" /\ signals # <<>> /\ Head(signals) = "Disconnected"
    /\ pc' = "teardown"
    /\ signals' = Tail(signals)
    /\ UNCHANGED <<result, disconnected, cached, net, wire, ipcVars, socket, woken, taskVars,
                   stdinVars>>

ReadLost_Silent ==
    /\ read = "reading" /\ net # "up"
    /\ read' = "ended"
    /\ UNCHANGED <<mainVars, net, wire, ipcVars, socket, woken, signals, watch,
                   stdinVars>>

WatchFrame_GoesOn(frame) ==
    /\ watch = "reading" /\ net = "up"
    /\ signals' = Append(signals, IF frame = "CLOSE" THEN "Close" ELSE "Error")
    /\ UNCHANGED <<mainVars, net, wire, ipcVars, socket, woken, taskVars, stdinVars>>

----------------------------------------------------------------------------
(* run_session up to the select! *)

\* The IPC socket: an old file is removed and a new one bound, or creating it
\* or restricting its mode fails.
Setup ==
    /\ pc = "setup"
    /\ \/ /\ pc' = "accept" /\ socket' = TRUE /\ ipc' = "listen"
          /\ UNCHANGED result
       \/ /\ Return("Io") /\ socket' \in BOOLEAN
          /\ UNCHANGED ipc
    /\ UNCHANGED <<disconnected, cached, net, wire, flag, asked, woken, signals,
                   taskVars, stdinVars>>

\* The server's STDOUT stream shows up with its first byte; STDIN is opened and
\* the tasks are spawned.
AcceptStream ==
    /\ pc = "accept" /\ net = "up"
    /\ pc' = "spawned"
    /\ watch' = "reading" /\ read' = "reading" /\ stdin' = "reading"
    /\ UNCHANGED <<result, disconnected, cached, net, wire, ipcVars, socket,
                   woken, signals, pending, typed, forwarded>>

AcceptFails ==
    /\ pc = "accept" /\ net # "up"
    /\ Return("Protocol")
    /\ UNCHANGED <<disconnected, cached, net, wire, ipcVars, socket, woken,
                   signals, taskVars, stdinVars>>

EnterSelect ==
    /\ pc = "spawned"
    /\ pc' = "select"
    /\ UNCHANGED <<result, disconnected, cached, net, wire, ipcVars, socket,
                   woken, signals, taskVars, stdinVars>>

----------------------------------------------------------------------------
(* The branches of the select!: whichever is ready, and any of two that are *)

SelectDetach ==
    /\ pc = "select" /\ woken
    /\ pc' = IF flag THEN "teardown" ELSE "send_detach"
    /\ UNCHANGED <<result, disconnected, cached, net, wire, ipcVars, socket,
                   woken, signals, taskVars, stdinVars>>

SelectClose ==
    /\ pc = "select" /\ signals # <<>> /\ Head(signals) = "Close"
    /\ pc' = "teardown"
    /\ cached' = FALSE
    /\ signals' = Tail(signals)
    /\ UNCHANGED <<result, disconnected, net, wire, ipcVars, socket, woken,
                   taskVars, stdinVars>>

\* An early return that does all of the teardown but stopping the keepalive.
SelectError ==
    /\ pc = "select" /\ signals # <<>> /\ Head(signals) = "Error"
    /\ Return("Protocol")
    /\ socket' = FALSE /\ net' = "ended" /\ watch' = "ended"
    /\ signals' = Tail(signals)
    /\ UNCHANGED <<disconnected, cached, wire, ipcVars, woken, read, stdinVars>>

SelectDisconnected ==
    /\ pc = "select" /\ signals # <<>> /\ Head(signals) = "Disconnected"
    /\ pc' = "teardown"
    /\ disconnected' = ~ flag
    /\ signals' = Tail(signals)
    /\ UNCHANGED <<result, cached, net, wire, ipcVars, socket, woken, taskVars,
                   stdinVars>>

SelectStreamClosed ==
    /\ pc = "select" /\ signals # <<>> /\ Head(signals) = "StreamClosed"
    /\ pc' = "send_close"
    /\ signals' = Tail(signals)
    /\ UNCHANGED <<result, disconnected, cached, net, wire, ipcVars, socket,
                   woken, taskVars, stdinVars>>

\* A failed CLOSE is ignored; the entry is deleted and everything torn down.
SendClose ==
    /\ pc = "send_close"
    /\ Return("Closed")
    /\ wire' = IF net = "up" THEN wire \cup {"CLOSE"} ELSE wire
    /\ cached' = FALSE
    /\ socket' = FALSE /\ net' = "ended" /\ watch' = "ended"
    /\ UNCHANGED <<disconnected, ipcVars, woken, signals, read, stdinVars>>

\* A failed DETACH returns at once and leaves the socket file behind.
SendDetach ==
    /\ pc = "send_detach"
    /\ IF net = "up"
       THEN /\ wire' = wire \cup {"DETACH"} /\ pc' = "teardown"
            /\ UNCHANGED result
       ELSE /\ Return("Protocol")
            /\ UNCHANGED wire
    /\ UNCHANGED <<disconnected, cached, net, ipcVars, socket, woken, signals,
                   taskVars, stdinVars>>

\* Aborting the bridge task stops neither of the two tasks it has spawned.
Teardown ==
    /\ pc = "teardown"
    /\ socket' = FALSE /\ net' = "ended" /\ watch' = "ended"
    /\ IF disconnected
       THEN pc' = "grace" /\ UNCHANGED result
       ELSE Return("Ok")
    /\ UNCHANGED <<disconnected, cached, wire, ipcVars, woken, signals, read,
                   stdinVars>>

\* The first load of the flag decides only whether to sleep, for 100 ms; the
\* result goes by the second: did a detach get in first?
GraceEnds ==
    /\ pc = "grace"
    /\ Return(IF flag THEN "Ok" ELSE "Disconnected")
    /\ UNCHANGED <<disconnected, cached, net, wire, ipcVars, socket, woken,
                   signals, taskVars, stdinVars>>

----------------------------------------------------------------------------
(* The IPC task and its peer, `neosh detach` *)

\* Some process of the same user connects.  It may send nothing and stay.
DetachCmd ==
    /\ ipc = "listen" /\ socket /\ pc # "done"
    /\ ipc' = "reading"
    /\ UNCHANGED <<mainVars, net, wire, flag, asked, socket, woken, signals,
                   taskVars, stdinVars>>

\* Its request, a valid one or not, is read to the end.
IpcRead(valid) ==
    /\ ipc = "reading"
    /\ ipc' = IF valid THEN "sending" ELSE "listen"
    /\ flag' = (flag \/ valid)
    /\ asked' = (asked \/ valid)
    /\ UNCHANGED <<mainVars, net, wire, socket, woken, signals, taskVars, stdinVars>>

IpcSend ==
    /\ ipc = "sending"
    /\ IF net = "up"
       THEN /\ wire' = wire \cup {"DETACH"} /\ ipc' = "notify"
            /\ UNCHANGED flag
       ELSE /\ flag' = FALSE /\ ipc' = "listen"
            /\ UNCHANGED wire
    /\ UNCHANGED <<mainVars, net, asked, socket, woken, signals, taskVars, stdinVars>>

\* The peer is told {"ok":true} and run_session is woken.
IpcNotify ==
    /\ ipc = "notify"
    /\ ipc' = "done"
    /\ notify_waiters
    /\ UNCHANGED <<mainVars, net, wire, flag, asked, socket, signals, taskVars,
                   stdinVars>>

----------------------------------------------------------------------------
(* bridge_terminal *)

\* A chunk from the terminal.  A hotkey drops the rest of its chunk, what came
\* before it included; a failed write ends the task without a signal.
ReadStdin(chunk) ==
    LET f == process_stdin_chunk_for_detach(chunk, pending) IN
    /\ stdin = "reading" /\ Len(typed) + Len(chunk) <= MaxTyped
    /\ typed' = typed \o chunk
    /\ pending' = f.pending
    /\ \/ /\ f.detach
          /\ stdin' = "hotkey" /\ notify_waiters
          /\ UNCHANGED forwarded
       \/ /\ ~ f.detach /\ (net = "up" \/ f.out = <<>>)
          /\ forwarded' = forwarded \o f.out
          /\ UNCHANGED <<stdin, woken>>
       \/ /\ ~ f.detach /\ f.out # <<>>
          /\ stdin' = "ended"
          /\ UNCHANGED <<forwarded, woken>>
    /\ UNCHANGED <<mainVars, net, wire, ipcVars, socket, signals, taskVars>>

\* End of input: a held back Ctrl-a is sent after all.
StdinEof ==
    /\ stdin = "reading"
    /\ stdin' = "ended" /\ pending' = FALSE
    /\ forwarded' = IF pending /\ net = "up" THEN Append(forwarded, CtrlA)
                                             ELSE forwarded
    /\ UNCHANGED <<mainVars, net, wire, ipcVars, socket, woken, signals, taskVars,
                   typed>>

\* Ok(None): the server finished the stream.
ReadEof ==
    /\ read = "reading" /\ net = "up"
    /\ read' = "ended"
    /\ signals' = Append(signals, "StreamClosed")
    /\ UNCHANGED <<mainVars, net, wire, ipcVars, socket, woken, watch, stdinVars>>

ReadLost ==
    /\ read = "reading" /\ net # "up"
    /\ read' = "ended"
    /\ signals' = Append(signals, "Disconnected")
    /\ UNCHANGED <<mainVars, net, wire, ipcVars, socket, woken, watch, stdinVars>>

\* The local stdout cannot be written: the task ends and tells nobody.
LocalStdoutFails ==
    /\ read = "reading" /\ net = "up"
    /\ read' = "broken"
    /\ UNCHANGED <<mainVars, net, wire, ipcVars, socket, woken, signals, watch,
                   stdinVars>>

----------------------------------------------------------------------------
(* control_watch_loop *)

\* CLOSE, ERROR or a type it does not know; PONG changes nothing.
WatchFrame(frame) ==
    /\ watch = "reading" /\ net = "up"
    /\ watch' = "ended"
    /\ signals' = Append(signals, IF frame = "CLOSE" THEN "Close" ELSE "Error")
    /\ UNCHANGED <<mainVars, net, wire, ipcVars, socket, woken, read, stdinVars>>

\* A read error ends the loop without a signal.
WatchLost ==
    /\ watch = "reading" /\ net # "up"
    /\ watch' = "ended"
    /\ UNCHANGED <<mainVars, net, wire, ipcVars, socket, woken, signals, read,
                   stdinVars>>

----------------------------------------------------------------------------
(* The network and neoshd *)

ConnLost ==
    /\ net = "up"
    /\ net' = "lost"
    /\ UNCHANGED <<mainVars, wire, ipcVars, socket, woken, signals, taskVars,
                   stdinVars>>

\* neoshd closes the connection: for DETACH and CLOSE always.
ServerCloses ==
    /\ net = "up"
    /\ net' = "closed"
    /\ UNCHANGED <<mainVars, wire, ipcVars, socket, woken, signals, taskVars,
                   stdinVars>>

Main ==
    \/ Setup \/ AcceptFails \/ EnterSelect
    \/ SelectDetach \/ SelectClose \/ SelectError \/ SelectDisconnected
    \/ SelectStreamClosed \/ SendClose \/ SendDetach \/ Teardown \/ GraceEnds

Chunks == UNION {[1..n -> Keys] : n \in 1..MaxChunk}

\* Once run_session has returned its tasks can only fail, and are left out.
Next ==
    \/ Main \/ AcceptStream
    \/ /\ pc # "done"
       /\ \/ DetachCmd \/ (\E valid \in BOOLEAN : IpcRead(valid)) \/ IpcSend \/ IpcNotify
          \/ (\E chunk \in Chunks : ReadStdin(chunk)) \/ StdinEof
          \/ ReadEof \/ ReadLost \/ LocalStdoutFails
          \/ (\E frame \in {"CLOSE", "other"} : WatchFrame(frame)) \/ WatchLost
          \/ ConnLost \/ ServerCloses

Spec == Init /\ [][Next]_vars

\* tokio runs what can run; neoshd closes the connection of a client that asked
\* for it.  The server need not say anything, the user need not type, and an IPC
\* peer need not finish its request.
FairSpec ==
    /\ Spec
    /\ WF_vars(Main)
    /\ WF_vars(pc # "done" /\ (ReadLost \/ WatchLost))
    /\ WF_vars(pc # "done" /\ (IpcSend \/ IpcNotify))
    /\ WF_vars(pc # "done" /\ wire # {} /\ ServerCloses)

----------------------------------------------------------------------------
(* Properties *)

\* Once the IPC task has written DETACH the session does not count as lost, so
\* that a `neosh detach` that succeeded is not answered by an automatic resume,
\* even when the server closes the connection before run_session hears of it.
DetachIsNotDisconnect == ipc \in {"notify", "done"} => result # "Disconnected"

\* run_session returns Ok only if the user left: DETACH was written, the session
\* was closed and its cache entry deleted, or a detach was asked for while the
\* connection was already lost.  Otherwise a lost session would not be resumed.
OkIsHonest == result = "Ok" => "DETACH" \in wire \/ ~ cached \/ asked

\* The stdin task sees the hotkey if and only if it was typed, however the keys
\* were cut into chunks; until then it forwards every byte in order, holding
\* back no more than a last Ctrl-a.
StdinIsFaithful ==
    /\ (stdin = "hotkey") = HasHotkey(typed)
    /\ stdin = "reading" =>
         Normalized(typed) = forwarded \o (IF pending THEN <<CtrlA>> ELSE <<>>)
    /\ forwarded = SubSeq(Normalized(typed), 1, Len(forwarded))

\* A connection that is lost or closed ends run_session, and so does a detach that
\* `neosh detach` reported as done, with the wakeup or, when that came too early,
\* by the server's close; unless the only task that reports a lost connection
\* died on the local terminal.
LostIsNoticed ==
    (net # "up" \/ ipc = "done") ~> (pc = "done" \/ read = "broken")

----------------------------------------------------------------------------
(* What the documents promise and the code does not keep *)

\* `neosh --help` (src/bin/neosh.rs:32), "In attached session, press Ctrl-a then
\* d.", and README.md:106, "Hotkey: press `Ctrl-a`, then `d`": typing the hotkey
\* ends the client.
HotkeyDetaches == stdin = "hotkey" ~> pc = "done"

=============================================================================
