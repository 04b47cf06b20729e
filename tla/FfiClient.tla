----------------------------- MODULE FfiClient -----------------------------
(***************************************************************************)
(* The C client library (ffi/neosh-client-c/src/lib.rs): one handle, used  *)
(* by one thread, so one call at a time; a call that waits takes several   *)
(* steps.  neoshd writes control frames and STDOUT chunks, whose units     *)
(* arrive in order and after a while.                                      *)
(*                                                                         *)
(* The control calls read the length under a timeout of 20 ms and then the *)
(* payload without one; read_exact takes units off the stream as they      *)
(* come, and what it has taken is gone when the timeout drops it.  The     *)
(* texts of last_error and the pointers that select INVALID_ARG before any *)
(* stream is touched change nothing here and are left out.                 *)
(***************************************************************************)
EXTENDS Framing

CONSTANTS
    None,
    MaxFrames,    \* bound: control frames each side writes
    MaxPayload,   \* bound: units of a payload neoshd writes
    MaxStdout,    \* bound: STDOUT chunks
    Caps          \* bound: the values of out_cap; None is a null out_buf

ASSUME FfiAssumption ==
    /\ MaxFrames \in 0..(Base - 1)     \* a frame's number is a unit of its payload
    /\ MaxPayload \in 0..MaxFrame /\ MaxStdout \in Nat
    /\ Caps \subseteq Nat \cup {None}

VARIABLES
    handle,      \* "null", "open", "freed"
    up,          \* the connection works
    call,        \* the call under way and where it is
    got,         \* units of the length or the payload read by this call
    need,        \* payload_len
    cap,         \* out_cap, or None for a null out_buf
    sent,        \* history: payloads neoshd has written
    wire,        \* their units that the library has not read
    arrived,     \* of these, how many have arrived
    taken,       \* history: what recv_control_json made of each payload it read
    torn,        \* history: a timeout dropped part of a length
    outbox,      \* units the library has written to the control stream
    posted,      \* history: payloads it was given
    received,    \* payloads neoshd has read
    stdin_send,  \* the STDIN stream: "none", "open", "finished"
    data,        \* the STDOUT stream: "none", "offered" by neoshd, "open"
    chunks,      \* STDOUT chunks that have arrived; 0 is the end
    produced,    \* chunks neoshd has written
    shown        \* chunks the caller got

callVars    == <<call, got, need, cap>>
controlVars == <<sent, wire, arrived, taken, torn>>
sendVars    == <<outbox, posted, received>>
dataVars    == <<data, chunks, produced, shown>>
vars == <<handle, up, callVars, controlVars, sendVars, stdin_send, dataVars>>

Code == {"OK", "INVALID_ARG", "BUFFER_TOO_SMALL", "NOT_READY", "INTERNAL"}

Unit == 0..(Base - 1)

TypeOK ==
    /\ handle \in {"null", "open", "freed"} /\ up \in BOOLEAN
    /\ call \in {"none", "header", "payload", "streams", "stdout"}
    /\ got \in Seq(Unit) /\ need \in 0..MaxFrame
    /\ Len(got) <= HeaderLen + MaxFrame
    /\ cap \in Caps \cup {None}
    /\ sent \in Seq(Seq(Unit)) /\ wire \in Seq(Unit) /\ arrived \in 0..Len(wire)
    /\ taken \in Seq([code : Code, out_len : Nat, payload : Seq(Unit)])
    /\ torn \in BOOLEAN
    /\ outbox \in Seq(Unit) /\ posted \in Seq(Seq(Unit)) /\ received \in Seq(Seq(Unit))
    /\ stdin_send \in {"none", "open", "finished"}
    /\ data \in {"none", "offered", "open"}
    /\ chunks \in Seq(0..MaxStdout) /\ produced \in 0..(MaxStdout + 1)
    /\ shown \in Seq(0..MaxStdout)

Init ==
    /\ handle = "null" /\ up = FALSE
    /\ call = "none" /\ got = <<>> /\ need = 0 /\ cap = None
    /\ sent = <<>> /\ wire = <<>> /\ arrived = 0 /\ taken = <<>> /\ torn = FALSE
    /\ outbox = <<>> /\ posted = <<>> /\ received = <<>>
    /\ stdin_send = "none"
    /\ data = "none" /\ chunks = <<>> /\ produced = 0 /\ shown = <<>>

Idle == handle = "open" /\ call = "none"

Done == call' = "none" /\ got' = <<>> /\ need' = 0 /\ cap' = None

----------------------------------------------------------------------------
(* Mutants *)

StdoutTimeout_Drops ==
    /\ call = "stdout"
    /\ Done
    /\ chunks' = IF chunks = <<>> THEN chunks ELSE Tail(chunks)
    /\ UNCHANGED <<handle, up, controlVars, sendVars, stdin_send, data, produced, shown>>

HeaderTimeout_WholeRead ==
    /\ call \in {"header", "payload"}
    /\ Done
    /\ torn' = (torn \/ (call = "header" /\ got # <<>>))
    /\ UNCHANGED <<handle, up, sent, wire, arrived, taken, sendVars, stdin_send, dataVars>>

ReadPayload_OneShort ==
    /\ call = "payload" /\ arrived > 0 /\ Len(got) < need - 1
    /\ got' = Append(got, Head(wire))
    /\ wire' = Tail(wire) /\ arrived' = arrived - 1
    /\ UNCHANGED <<handle, up, call, need, cap, sent, taken, torn, sendVars,
                   stdin_send, dataVars>>

too_large_Never(n) == FALSE

----------------------------------------------------------------------------
(* The handle *)

\* neosh_client_connect; a failure returns null and leaves nothing behind.
Connect ==
    /\ handle = "null"
    /\ handle' = "open" /\ up' = TRUE
    /\ UNCHANGED <<callVars, controlVars, sendVars, stdin_send, dataVars>>

Free ==
    /\ Idle
    /\ handle' = "freed" /\ up' = FALSE
    /\ UNCHANGED <<callVars, controlVars, sendVars, stdin_send, dataVars>>

----------------------------------------------------------------------------
(* neosh_client_send_control_json *)

\* Any length is framed and written; a lost connection is INTERNAL and, like a
\* null argument, changes nothing.
SendControl(payload) ==
    /\ Idle /\ up /\ Len(posted) < MaxFrames
    /\ outbox' = outbox \o encode_frame(payload)
    /\ posted' = Append(posted, payload)
    /\ UNCHANGED <<handle, up, callVars, controlVars, received, stdin_send, dataVars>>

----------------------------------------------------------------------------
(* neosh_client_recv_control_json *)

RecvControl(c) ==
    /\ Idle
    /\ call' = "header" /\ cap' = c
    /\ UNCHANGED <<handle, up, got, need, controlVars, sendVars, stdin_send, dataVars>>

too_large(n) == n > MaxFrame

\* A unit of the length; with the last one the length is known.
ReadHeader ==
    LET h == Append(got, Head(wire)) IN
    /\ call = "header" /\ arrived > 0
    /\ wire' = Tail(wire) /\ arrived' = arrived - 1
    /\ IF Len(h) < HeaderLen
       THEN got' = h /\ UNCHANGED <<call, need, cap>>
       ELSE IF too_large(from_be_bytes(h))
       THEN Done                                          \* INTERNAL
       ELSE call' = "payload" /\ got' = <<>> /\ need' = from_be_bytes(h)
            /\ UNCHANGED cap
    /\ UNCHANGED <<handle, up, sent, taken, torn, sendVars, stdin_send, dataVars>>

\* 20 ms are over: NOT_READY.
HeaderTimeout ==
    /\ call = "header"
    /\ Done
    /\ torn' = (torn \/ got # <<>>)
    /\ UNCHANGED <<handle, up, sent, wire, arrived, taken, sendVars, stdin_send, dataVars>>

ReadPayload ==
    /\ call = "payload" /\ arrived > 0 /\ Len(got) < need
    /\ got' = Append(got, Head(wire))
    /\ wire' = Tail(wire) /\ arrived' = arrived - 1
    /\ UNCHANGED <<handle, up, call, need, cap, sent, taken, torn, sendVars, stdin_send, dataVars>>

result_code(payload) ==
    IF cap = None /\ payload # <<>> THEN "INVALID_ARG"
    ELSE IF cap # None /\ Len(payload) > cap THEN "BUFFER_TOO_SMALL"
    ELSE "OK"

\* The payload is complete: it is off the stream whatever the code returned.
PayloadDone ==
    /\ call = "payload" /\ Len(got) = need
    /\ taken' = Append(taken, [code |-> result_code(got), out_len |-> need,
                               payload |-> got])
    /\ Done
    /\ UNCHANGED <<handle, up, sent, wire, arrived, torn, sendVars, stdin_send, dataVars>>

\* The connection is lost and what had arrived is read: INTERNAL.
ReadFails ==
    /\ call \in {"header", "payload", "streams", "stdout"} /\ ~ up
    /\ call \in {"header", "payload"} => arrived = 0
    /\ call = "payload" => Len(got) < need
    /\ call = "stdout" => chunks = <<>>
    /\ Done
    /\ UNCHANGED <<handle, up, controlVars, sendVars, stdin_send, dataVars>>

----------------------------------------------------------------------------
(* The data streams *)

\* neosh_client_open_data_streams waits for the server's stream, for ever if it
\* has none, or no other one, to offer.
OpenStreams ==
    /\ Idle
    /\ call' = "streams"
    /\ UNCHANGED <<handle, up, got, need, cap, controlVars, sendVars, stdin_send, dataVars>>

StreamsOpened ==
    /\ call = "streams" /\ up /\ data = "offered"
    /\ data' = "open" /\ stdin_send' = "open"
    /\ Done
    /\ UNCHANGED <<handle, up, controlVars, sendVars, chunks, produced, shown>>

\* neosh_client_finish_stdin; without the stream, or once it is finished or the
\* connection lost, an error code and nothing else.  neosh_client_send_stdin has
\* the same guard and changes nothing here.
FinishStdin ==
    /\ Idle /\ up /\ stdin_send = "open"
    /\ stdin_send' = "finished"
    /\ UNCHANGED <<handle, up, callVars, controlVars, sendVars, dataVars>>

\* neosh_client_recv_stdout; without the streams it is NOT_READY at once.
RecvStdout ==
    /\ Idle /\ data = "open"
    /\ call' = "stdout"
    /\ UNCHANGED <<handle, up, got, need, cap, controlVars, sendVars, stdin_send, dataVars>>

StdoutRead ==
    /\ call = "stdout" /\ chunks # <<>>
    /\ Done
    /\ IF Head(chunks) = 0                    \* Ok(None), and again Ok(None)
       THEN /\ shown' = IF \E i \in DOMAIN shown : shown[i] = 0
                        THEN shown ELSE Append(shown, 0)
            /\ UNCHANGED chunks
       ELSE /\ shown' = Append(shown, Head(chunks))
            /\ chunks' = Tail(chunks)
    /\ UNCHANGED <<handle, up, controlVars, sendVars, stdin_send, data, produced>>

\* 20 ms are over: NOT_READY.  RecvStream::read takes data only when it returns.
StdoutTimeout ==
    /\ call = "stdout"
    /\ Done
    /\ UNCHANGED <<handle, up, controlVars, sendVars, stdin_send, dataVars>>

----------------------------------------------------------------------------
(* neoshd and the network *)

ServerSends(n) ==
    LET k == Len(sent) + 1 IN
    /\ up /\ Len(sent) < MaxFrames
    /\ sent' = Append(sent, [i \in 1..n |-> k])
    /\ wire' = wire \o encode_frame([i \in 1..n |-> k])
    /\ UNCHANGED <<handle, up, callVars, arrived, taken, torn, sendVars, stdin_send, dataVars>>

Arrive ==
    /\ up /\ arrived < Len(wire)
    /\ arrived' = arrived + 1
    /\ UNCHANGED <<handle, up, callVars, sent, wire, taken, torn, sendVars, stdin_send, dataVars>>

\* read_control_frame of neoshd: an oversized frame ends the connection.
ServerReads ==
    LET n     == from_be_bytes(outbox)
        frame == SubSeq(outbox, 1, HeaderLen + n)
    IN
    /\ up /\ Len(outbox) >= HeaderLen
    /\ IF n > MaxFrame
       THEN up' = FALSE /\ UNCHANGED <<outbox, received>>
       ELSE /\ Len(outbox) >= HeaderLen + n
            /\ decode_error(frame, MaxFrame) = "Ok"
            /\ received' = Append(received, decode_frame(frame))
            /\ outbox' = SubSeq(outbox, HeaderLen + n + 1, Len(outbox))
            /\ UNCHANGED up
    /\ UNCHANGED <<handle, callVars, controlVars, posted, stdin_send, dataVars>>

OfferStdout ==
    /\ up /\ data = "none"
    /\ data' = "offered"
    /\ UNCHANGED <<handle, up, callVars, controlVars, sendVars, stdin_send, chunks, produced, shown>>

\* A chunk arrives, and the end of the stream after the last.
StdoutArrives ==
    /\ up /\ data # "none" /\ produced <= MaxStdout
    /\ chunks' = Append(chunks, IF produced = MaxStdout THEN 0 ELSE produced + 1)
    /\ produced' = produced + 1
    /\ UNCHANGED <<handle, up, callVars, controlVars, sendVars, stdin_send, data, shown>>

ConnLost ==
    /\ up
    /\ up' = FALSE
    /\ UNCHANGED <<handle, callVars, controlVars, sendVars, stdin_send, dataVars>>

\* Payloads a caller sends: a small one, and one unit too long for neoshd.
Posts == {[i \in 1..n |-> 1] : n \in {1, MaxFrame + 1}}

Call ==
    \/ ReadHeader \/ HeaderTimeout \/ ReadPayload \/ PayloadDone \/ ReadFails
    \/ StreamsOpened \/ StdoutRead \/ StdoutTimeout

Next ==
    \/ Connect \/ Free
    \/ \E payload \in Posts : SendControl(payload)
    \/ \E c \in Caps : RecvControl(c)
    \/ OpenStreams \/ FinishStdin \/ RecvStdout
    \/ Call
    \/ \E n \in 0..MaxPayload : ServerSends(n)
    \/ Arrive \/ ServerReads \/ OfferStdout \/ StdoutArrives \/ ConnLost

Spec == Init /\ [][Next]_vars

\* A call takes what there is and its timer fires; what was sent arrives.
FairSpec == Spec /\ WF_vars(Call) /\ WF_vars(Arrive)

----------------------------------------------------------------------------
(* Properties *)

\* As long as no timeout has cut a length in two, every frame that leaves the
\* stream is reported once and in order, with its length, also when the buffer
\* was too small for it; and between two calls the stream is at the start of the
\* first frame not yet reported.
FramesAreReported ==
    ~ torn =>
      /\ \A i \in 1..Len(taken) :
           taken[i].payload = sent[i] /\ taken[i].out_len = Len(sent[i])
      /\ Idle /\ up => Carries(wire, SubSeq(sent, Len(taken) + 1, Len(sent)))

\* What neoshd reads is what the caller sent, frame for frame, although only the
\* receiver knows the size limit.
PostedIsReceived ==
    received = SubSeq(posted, 1, Len(received))

\* A poll of STDOUT that times out loses nothing: the caller gets the chunks in
\* the order they were written, and the end only after the last.
StdoutIsLossless ==
    \A i \in 1..Len(shown) : shown[i] = IF i <= MaxStdout THEN i ELSE 0

\* A call that has started on a payload returns, although that read has no
\* timeout, unless the length it waits for was misread.
PayloadReadEnds == call = "payload" /\ ~ torn ~> call = "none"

=============================================================================
