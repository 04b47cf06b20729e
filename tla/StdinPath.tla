----------------------------- MODULE StdinPath -----------------------------
(***************************************************************************)
(* The input path of neoshd (src/bin/neoshd.rs): a task per connection,    *)
(* spawned by start_data_plane, reads the STDIN stream and writes to the   *)
(* PTY under a std::sync::Mutex.  Lock and write block their thread, so a  *)
(* task that waits for either takes a worker of the tokio runtime away     *)
(* from the handlers.  The task is not stopped when its connection leaves  *)
(* the session: it ends when its stream does.                              *)
(*                                                                         *)
(* A chunk is what one read returns; write_all hands it to the PTY in      *)
(* parts, as far as the terminal's input queue has room.  The control      *)
(* messages are reduced to what attaches and releases a connection.        *)
(***************************************************************************)
EXTENDS Options, Sequences, FiniteSets

LOCAL INSTANCE Functions

CONSTANTS
    Conns,
    Workers,      \* worker threads of the runtime
    Size,         \* parts of a chunk
    Room,         \* parts the terminal's input queue holds
    MaxChunks     \* bound: chunks the clients send, together

ASSUME StdinAssumption ==
    /\ None \notin Conns
    /\ Workers \in Nat \ {0} /\ Size \in Nat \ {0} /\ Room \in Nat \ {0}
    /\ MaxChunks \in Nat

VARIABLES
    owner,    \* the connection attached to the session
    over,     \* the session is terminated
    pc,       \* pc[c]: the handler of c
    up,       \* up[c]: the transport of c works
    sent,     \* sent[c]: chunks that have arrived on the STDIN stream
    fin,      \* fin[c]: the client has finished it
    task,     \* task[c]: the input task
    taken,    \* taken[c]: chunks it has read
    left,     \* left[c]: parts of the last one it has not written
    lock,     \* who holds the mutex of the PTY writer
    shell,    \* "none", "running", "exited" (the PTY is closed)
    input,    \* history: the parts the PTY took
    unread    \* of these, the ones the shell has not read

handlerVars == <<owner, over, pc>>
streamVars  == <<up, sent, fin>>
taskVars    == <<task, taken, left>>
ptyVars     == <<shell, input, unread>>
vars == <<handlerVars, streamVars, taskVars, lock, ptyVars>>

Part == [conn : Conns, chunk : Nat, part : 1..Size]

TypeOK ==
    /\ owner \in Option(Conns) /\ over \in BOOLEAN
    /\ pc \in [Conns -> {"idle", "attached", "live", "failed", "released", "closed"}]
    /\ up \in [Conns -> BOOLEAN] /\ fin \in [Conns -> BOOLEAN]
    /\ task \in [Conns -> {"none", "accept", "read", "lock", "write", "done"}]
    /\ sent \in [Conns -> Nat] /\ taken \in [Conns -> Nat]
    /\ \A c \in Conns : taken[c] <= sent[c]
    /\ left \in [Conns -> 0..Size]
    /\ lock \in Option(Conns)
    /\ shell \in {"none", "running", "exited"}
    /\ input \in Seq(Part) /\ unread \in 0..Room

Init ==
    /\ owner = None /\ over = FALSE
    /\ pc = [c \in Conns |-> "idle"]
    /\ up = [c \in Conns |-> TRUE]
    /\ sent = [c \in Conns |-> 0] /\ fin = [c \in Conns |-> FALSE]
    /\ task = [c \in Conns |-> "none"]
    /\ taken = [c \in Conns |-> 0] /\ left = [c \in Conns |-> 0]
    /\ lock = None
    /\ shell = "none" /\ input = <<>> /\ unread = 0

\* A worker thread is free to run a task.
Free == Cardinality({c \in Conns : task[c] \in {"lock", "write"}}) < Workers

Goto(c, label) == pc' = [pc EXCEPT ![c] = label]
Turn(c, label) == task' = [task EXCEPT ![c] = label]

----------------------------------------------------------------------------
(* Mutants *)

ReadStdin_Unguarded(c) ==
    /\ task[c] = "read" /\ Free
    /\ Turn(c, "lock")
    /\ taken' = [taken EXCEPT ![c] = @ + 1]
    /\ left' = [left EXCEPT ![c] = Size]
    /\ UNCHANGED <<handlerVars, streamVars, lock, ptyVars>>

\* A first read that only waits for the stream.
AcceptStdin_DropsFirst(c) ==
    /\ task[c] = "accept" /\ Free
    /\ sent[c] > 0
    /\ Turn(c, "read")
    /\ taken' = [taken EXCEPT ![c] = 1]
    /\ UNCHANGED <<handlerVars, streamVars, left, lock, ptyVars>>

LockWriter_NoMutex(c) ==
    /\ task[c] = "lock"
    /\ lock' = c
    /\ Turn(c, "write")
    /\ UNCHANGED <<handlerVars, streamVars, taken, left, ptyVars>>

WriteFails_KeepsLock(c) ==
    /\ task[c] = "write" /\ left[c] > 0 /\ shell = "exited"
    /\ Turn(c, "done")
    /\ UNCHANGED <<handlerVars, streamVars, taken, left, lock, ptyVars>>

----------------------------------------------------------------------------
(* The handler of a connection *)

\* ATTACH or RESUME; the first spawns the shell.
Attach(c) ==
    /\ pc[c] = "idle" /\ owner = None /\ ~ over /\ Free
    /\ owner' = c
    /\ Goto(c, "attached")
    /\ shell' = IF shell = "none" THEN "running" ELSE shell
    /\ UNCHANGED <<over, streamVars, taskVars, lock, input, unread>>

\* start_data_plane, at the end of which it spawns the input task.
StartDataPlane(c) ==
    /\ pc[c] = "attached" /\ Free
    /\ IF up[c] THEN Goto(c, "live") /\ Turn(c, "accept")
                ELSE Goto(c, "failed") /\ UNCHANGED task
    /\ UNCHANGED <<owner, over, streamVars, taken, left, lock, ptyVars>>

\* DETACH, CLOSE or the end of the control stream, and the cleanup: the session
\* is free or over.  The input task is not told.
Release(c, how) ==
    /\ pc[c] = "live" /\ owner = c /\ Free
    /\ owner' = None
    /\ over' = (how = "CLOSE" \/ (how = "end" /\ shell = "exited"))
    /\ Goto(c, "released")
    /\ UNCHANGED <<streamVars, taskVars, lock, ptyVars>>

\* connection.close()
Close(c) ==
    /\ pc[c] = "released" /\ Free
    /\ Goto(c, "closed")
    /\ up' = [up EXCEPT ![c] = FALSE]
    /\ UNCHANGED <<owner, over, sent, fin, taskVars, lock, ptyVars>>

----------------------------------------------------------------------------
(* The input task *)

\* accept_uni, also of a stream that arrived before the connection was lost.
AcceptStdin(c) ==
    /\ task[c] = "accept" /\ Free
    /\ sent[c] > 0 \/ fin[c]
    /\ Turn(c, "read")
    /\ UNCHANGED <<handlerVars, streamVars, taken, left, lock, ptyVars>>

\* Ok(Some(n)); what has arrived can be read after the connection is gone.
ReadStdin(c) ==
    /\ task[c] = "read" /\ taken[c] < sent[c] /\ Free
    /\ Turn(c, "lock")
    /\ taken' = [taken EXCEPT ![c] = @ + 1]
    /\ left' = [left EXCEPT ![c] = Size]
    /\ UNCHANGED <<handlerVars, streamVars, lock, ptyVars>>

\* Err of accept_uni or read, or Ok(None).
StdinEnds(c) ==
    /\ task[c] \in {"accept", "read"} /\ Free
    /\ \/ ~ up[c]
       \/ task[c] = "read" /\ fin[c] /\ taken[c] = sent[c]
    /\ Turn(c, "done")
    /\ UNCHANGED <<handlerVars, streamVars, taken, left, lock, ptyVars>>

LockWriter(c) ==
    /\ task[c] = "lock" /\ lock = None
    /\ lock' = c
    /\ Turn(c, "write")
    /\ UNCHANGED <<handlerVars, streamVars, taken, left, ptyVars>>

\* write_all goes on where the PTY had no more room.
WritePart(c) ==
    /\ task[c] = "write" /\ left[c] > 0
    /\ shell = "running" /\ unread < Room
    /\ input' = Append(input, [conn |-> c, chunk |-> taken[c],
                               part |-> Size - left[c] + 1])
    /\ left' = [left EXCEPT ![c] = @ - 1]
    /\ unread' = unread + 1
    /\ UNCHANGED <<handlerVars, streamVars, task, taken, lock, shell>>

\* The chunk is written and flushed, and the guard of the mutex dropped.
WriteDone(c) ==
    /\ task[c] = "write" /\ left[c] = 0
    /\ lock' = None
    /\ Turn(c, "read")
    /\ UNCHANGED <<handlerVars, streamVars, taken, left, ptyVars>>

\* The PTY is closed: the task ends, and the guard is dropped with it.
WriteFails(c) ==
    /\ task[c] = "write" /\ left[c] > 0 /\ shell = "exited"
    /\ lock' = None
    /\ Turn(c, "done")
    /\ UNCHANGED <<handlerVars, streamVars, taken, left, ptyVars>>

----------------------------------------------------------------------------
(* The client, the network and the shell *)

Arrive(c) ==
    /\ pc[c] # "idle" /\ up[c] /\ ~ fin[c]
    /\ FoldFunction(+, 0, sent) < MaxChunks
    /\ sent' = [sent EXCEPT ![c] = @ + 1]
    /\ UNCHANGED <<handlerVars, up, fin, taskVars, lock, ptyVars>>

Finish(c) ==
    /\ pc[c] # "idle" /\ up[c] /\ ~ fin[c]
    /\ fin' = [fin EXCEPT ![c] = TRUE]
    /\ UNCHANGED <<handlerVars, up, sent, taskVars, lock, ptyVars>>

ConnLost(c) ==
    /\ pc[c] # "idle" /\ up[c]
    /\ up' = [up EXCEPT ![c] = FALSE]
    /\ UNCHANGED <<handlerVars, sent, fin, taskVars, lock, ptyVars>>

ShellReads ==
    /\ shell = "running" /\ unread > 0
    /\ unread' = unread - 1
    /\ UNCHANGED <<handlerVars, streamVars, taskVars, lock, shell, input>>

ShellExits ==
    /\ shell = "running"
    /\ shell' = "exited"
    /\ UNCHANGED <<handlerVars, streamVars, taskVars, lock, input, unread>>

Handler(c) == StartDataPlane(c) \/ Close(c)

Task(c) ==
    \/ AcceptStdin(c) \/ ReadStdin(c) \/ StdinEnds(c)
    \/ LockWriter(c) \/ WritePart(c) \/ WriteDone(c) \/ WriteFails(c)

Next ==
    \/ \E c \in Conns :
         \/ Attach(c) \/ Handler(c) \/ Task(c)
         \/ \E how \in {"DETACH", "CLOSE", "end"} : Release(c, how)
         \/ Arrive(c) \/ Finish(c) \/ ConnLost(c)
    \/ ShellReads \/ ShellExits

Spec == Init /\ [][Next]_vars

\* Tasks run when a worker is free.  Clients and the shell owe nothing.
FairSpec == Spec /\ \A c \in Conns : WF_vars(Handler(c)) /\ WF_vars(Task(c))

----------------------------------------------------------------------------
(* Properties *)

\* A chunk reaches the shell in one piece: the input of another connection, whose
\* task may still run, never comes between its parts, although the PTY takes
\* them one at a time.  (An escape sequence cut in two would be misread.)
ChunksAreWhole ==
    \A i \in 1..(Len(input) - 1) :
        input[i].part < Size =>
            /\ input[i + 1].conn = input[i].conn
            /\ input[i + 1].chunk = input[i].chunk
            /\ input[i + 1].part = input[i].part + 1

\* The input of a connection reaches the shell in the order it was sent, and
\* without a gap: a part comes first, or after the one before it.
InputIsOrdered ==
    \A i \in 1..Len(input) :
        \/ input[i].part = 1 /\ input[i].chunk = 1
        \/ \E j \in 1..(i - 1) :
             /\ input[j].conn = input[i].conn
             /\ \/ input[j].chunk = input[i].chunk /\ input[j].part = input[i].part - 1
                \/ /\ input[j].chunk = input[i].chunk - 1 /\ input[j].part = Size
                   /\ input[i].part = 1

\* The terminal's input queue stays full: nobody reads it.
Stuck == shell = "running" /\ unread = Room

\* A chunk that was read from the stream is written, or the shell has exited; no
\* task keeps the mutex.  And although input tasks block worker threads, a handler
\* that has something to do gets one sooner or later.  Both unless nobody reads
\* the terminal any more.
NobodyStarves ==
    \A c \in Conns :
      /\ [](task[c] \in {"lock", "write"} =>
             <>(task[c] \in {"read", "done"} \/ []Stuck))
      /\ [](pc[c] \in {"attached", "released"} =>
             <>(pc[c] \in {"live", "failed", "closed"} \/ []Stuck))

=============================================================================
