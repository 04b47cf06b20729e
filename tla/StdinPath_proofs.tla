-------------------------- MODULE StdinPath_proofs --------------------------
(***************************************************************************)
(* Proofs about the input path of neoshd, for any number of connections    *)
(* and workers, chunks of any size and a terminal with any room.           *)
(*                                                                         *)
(* Both properties are about the sequence the PTY got.  What keeps them is *)
(* the task that writes next: it holds the mutex, and the part before the  *)
(* one it writes is already there.                                         *)
(***************************************************************************)
EXTENDS StdinPath, SequenceTheorems, TLAPS

\* The mutex is held by the task that writes, and by no other.
MutexInv == \A c \in Conns : task[c] = "write" <=> lock = c

\* The task starts when the handler has attached.
Unstarted(c) == pc[c] \in {"idle", "attached"} => task[c] = "none"

\* A task that waits for a chunk has written the last one completely.
HandInv(c) ==
    /\ task[c] = "none" => taken[c] = 0
    /\ task[c] \in {"none", "accept", "read"} => left[c] = 0
    /\ task[c] = "lock" => left[c] = Size
    /\ task[c] \in {"lock", "write"} => taken[c] > 0

Has(c, k, p) ==
    \E j \in 1..Len(input) :
        input[j].conn = c /\ input[j].chunk = k /\ input[j].part = p

\* The part before the next one of c is in the input.
PrevInv(c) ==
    task[c] # "done" =>
        \/ taken[c] = 0
        \/ left[c] = Size /\ (taken[c] = 1 \/ Has(c, taken[c] - 1, Size))
        \/ left[c] < Size /\ Has(c, taken[c], Size - left[c])

\* A chunk that is incomplete is in the hands of the task that writes, or was
\* cut off by the end of the shell.
LastInv ==
    Len(input) > 0 /\ input[Len(input)].part < Size =>
        \/ shell = "exited"
        \/ /\ task[input[Len(input)].conn] = "write"
           /\ taken[input[Len(input)].conn] = input[Len(input)].chunk
           /\ Size - left[input[Len(input)].conn] = input[Len(input)].part

TasksInv == \A c \in Conns : Unstarted(c) /\ HandInv(c) /\ PrevInv(c)

IInv == TypeOK /\ MutexInv /\ TasksInv /\ LastInv /\ ChunksAreWhole /\ InputIsOrdered

USE StdinAssumption

----------------------------------------------------------------------------

LEMMA InitIInv == Init => IInv
<1> SUFFICES ASSUME Init PROVE IInv
  OBVIOUS
<1>1. input = <<>> /\ Len(input) = 0
  BY DEF Init
<1>2. TypeOK
  <2>1. input \in Seq(Part)
    BY <1>1
  <2>2. /\ unread \in 0..Room /\ left \in [Conns -> 0..Size]
        /\ sent \in [Conns -> Nat] /\ taken \in [Conns -> Nat]
        /\ \A c \in Conns : taken[c] <= sent[c]
    BY DEF Init
  <2>3. /\ pc \in [Conns -> {"idle"}] /\ task \in [Conns -> {"none"}]
        /\ up \in [Conns -> BOOLEAN] /\ fin \in [Conns -> BOOLEAN]
        /\ owner = None /\ lock = None /\ over = FALSE /\ shell = "none"
    BY DEF Init
  <2> QED BY <2>1, <2>2, <2>3 DEF TypeOK, Option
<1>3. MutexInv
  BY DEF Init, MutexInv
<1>4. TasksInv
  BY DEF Init, TasksInv, Unstarted, HandInv, PrevInv
<1> QED BY <1>1, <1>2, <1>3, <1>4 DEF IInv, LastInv, ChunksAreWhole, InputIsOrdered

\* Steps of the handlers, the clients and the shell leave the tasks, the mutex and
\* the input alone; neither the shell nor a handler goes back.
Quiet ==
    /\ UNCHANGED <<task, taken, left, lock, input>>
    /\ shell = "exited" => shell' = "exited"
    /\ \A c \in Conns : pc'[c] \in {"idle", "attached"} => pc[c] \in {"idle", "attached"}

LEMMA QuietIInv == ASSUME IInv, Quiet, TypeOK' PROVE IInv'
<1>1. MutexInv'
  BY DEF IInv, MutexInv, Quiet
<1>2. TasksInv'
  BY DEF IInv, TasksInv, Unstarted, HandInv, PrevInv, Has, Quiet
<1>3. LastInv'
  BY DEF IInv, LastInv, Quiet
<1>4. ChunksAreWhole' /\ InputIsOrdered'
  BY DEF IInv, ChunksAreWhole, InputIsOrdered, Quiet
<1> QED BY <1>1, <1>2, <1>3, <1>4 DEF IInv

\* A handler, a client or the network.
LEMMA HandlerIInv ==
    ASSUME IInv, NEW c \in Conns,
           \/ Attach(c) \/ Close(c) \/ Arrive(c) \/ Finish(c) \/ ConnLost(c)
           \/ \E how \in {"DETACH", "CLOSE", "end"} : Release(c, how)
    PROVE  IInv'
<1> USE DEF handlerVars, streamVars, taskVars, ptyVars, Goto
<1>1. Quiet
  BY DEF IInv, TypeOK, Quiet, Attach, Close, Arrive, Finish, ConnLost, Release
<1>2. TypeOK'
  <2> USE DEF IInv, TypeOK, Option
  <2>1. CASE Attach(c)
    BY <2>1 DEF Attach
  <2>2. CASE Close(c)
    BY <2>2 DEF Close
  <2>3. CASE Arrive(c)
    <3>1. sent' = [sent EXCEPT ![c] = @ + 1] /\ taken' = taken
      BY <2>3 DEF Arrive
    <3>2. sent' \in [Conns -> Nat] /\ \A d \in Conns : taken'[d] <= sent'[d]
      <4> HIDE DEF IInv, TypeOK
      <4>1. sent \in [Conns -> Nat] /\ taken \in [Conns -> Nat]
        BY DEF IInv, TypeOK
      <4>2. \A d \in Conns : taken[d] <= sent[d]
        BY DEF IInv, TypeOK
      <4>3. sent' \in [Conns -> Nat]
        BY <3>1, <4>1
      <4>4. ASSUME NEW d \in Conns PROVE taken'[d] <= sent'[d]
        <5>1. taken[d] \in Nat /\ sent[d] \in Nat /\ taken[d] <= sent[d]
          BY <4>1, <4>2
        <5>2. sent'[d] = sent[d] \/ sent'[d] = sent[d] + 1
          BY <3>1, <4>1
        <5> QED BY <3>1, <5>1, <5>2
      <4> QED BY <4>3, <4>4
    <3> QED BY <2>3, <3>1, <3>2 DEF Arrive
  <2>4. CASE Finish(c)
    BY <2>4 DEF Finish
  <2>5. CASE ConnLost(c)
    BY <2>5 DEF ConnLost
  <2>6. CASE \E how \in {"DETACH", "CLOSE", "end"} : Release(c, how)
    BY <2>6 DEF Release
  <2> QED BY <2>1, <2>2, <2>3, <2>4, <2>5, <2>6
<1> QED BY <1>1, <1>2, QuietIInv

LEMMA ShellIInv == ASSUME IInv, ShellReads \/ ShellExits PROVE IInv'
<1> USE DEF handlerVars, streamVars, taskVars, ptyVars
<1>1. Quiet
  BY DEF Quiet, ShellReads, ShellExits
<1>2. TypeOK'
  BY DEF IInv, TypeOK, ShellReads, ShellExits
<1> QED BY <1>1, <1>2, QuietIInv

----------------------------------------------------------------------------
(* The input task *)

\* Steps of the task of c that write nothing.
LEMMA SilentIInv ==
    ASSUME IInv, NEW c \in Conns, TypeOK', input' = input, shell' = shell,
           \A d \in Conns \ {c} : /\ task'[d] = task[d] /\ taken'[d] = taken[d]
                                  /\ left'[d] = left[d] /\ pc'[d] = pc[d]
                                  /\ lock' = d <=> lock = d,
           task'[c] = "write" <=> lock' = c,
           Unstarted(c)', HandInv(c)', PrevInv(c)',
           task[c] = "write" => left[c] = 0 \/ shell = "exited"
    PROVE  IInv'
<1>1. MutexInv'
  BY DEF IInv, MutexInv
<1>2. ASSUME NEW d \in Conns \ {c} PROVE Unstarted(d)' /\ HandInv(d)' /\ PrevInv(d)'
  BY <1>2 DEF IInv, TasksInv, Unstarted, HandInv, PrevInv, Has
<1>3. TasksInv'
  BY <1>2 DEF TasksInv
<1>4. LastInv'
  <2> SUFFICES ASSUME Len(input) > 0, input[Len(input)].part < Size, shell # "exited"
               PROVE  LET l == input[Len(input)] IN
                      task'[l.conn] = "write" /\ taken'[l.conn] = l.chunk
                        /\ Size - left'[l.conn] = l.part
    BY DEF LastInv
  <2> DEFINE l == input[Len(input)]
  <2>1. l \in Part
    BY DEF IInv, TypeOK
  <2>2. l.conn \in Conns /\ l.part \in Nat
    BY <2>1 DEF Part
  <2>3. task[l.conn] = "write" /\ taken[l.conn] = l.chunk /\ Size - left[l.conn] = l.part
    BY DEF IInv, LastInv
  <2>4. l.conn # c
    BY <2>2, <2>3
  <2> QED BY <2>2, <2>3, <2>4
<1>5. ChunksAreWhole' /\ InputIsOrdered'
  BY DEF IInv, ChunksAreWhole, InputIsOrdered
<1> QED BY <1>1, <1>3, <1>4, <1>5 DEF IInv

LEMMA KeepPrev ==
    ASSUME NEW c \in Conns, PrevInv(c), input' = input, taken'[c] = taken[c],
           left'[c] = left[c], task[c] # "done" \/ task'[c] = "done"
    PROVE  PrevInv(c)'
  BY DEF PrevInv, Has

LEMMA TaskIInv ==
    ASSUME IInv, NEW c \in Conns,
           \/ StartDataPlane(c) \/ AcceptStdin(c) \/ StdinEnds(c)
           \/ LockWriter(c) \/ WriteDone(c) \/ WriteFails(c)
    PROVE  IInv'
<1> USE DEF handlerVars, streamVars, taskVars, ptyVars, Goto, Turn
<1>1. TypeOK /\ MutexInv /\ Unstarted(c) /\ HandInv(c) /\ PrevInv(c)
  BY DEF IInv, TasksInv
<1> DEFINE Others == \A d \in Conns \ {c} :
             /\ task'[d] = task[d] /\ taken'[d] = taken[d]
             /\ left'[d] = left[d] /\ pc'[d] = pc[d]
             /\ lock' = d <=> lock = d
           Same == /\ input' = input /\ shell' = shell
                   /\ taken'[c] = taken[c] /\ left'[c] = left[c]
           Rest == /\ task'[c] = "write" <=> lock' = c
                   /\ Unstarted(c)' /\ HandInv(c)'
                   /\ task[c] # "done" \/ task'[c] = "done"
                   /\ task[c] = "write" => left[c] = 0 \/ shell = "exited"
<1>2. CASE StartDataPlane(c)
  <2>1. TypeOK'
    BY <1>1, <1>2 DEF TypeOK, StartDataPlane
  <2>2. Others /\ Same
    BY <1>1, <1>2 DEF TypeOK, StartDataPlane
  <2>3. Rest
    BY <1>1, <1>2 DEF TypeOK, MutexInv, Unstarted, HandInv, StartDataPlane
  <2> QED BY <1>1, <2>1, <2>2, <2>3, KeepPrev, SilentIInv
<1>3. CASE AcceptStdin(c)
  <2>1. TypeOK'
    BY <1>1, <1>3 DEF TypeOK, AcceptStdin
  <2>2. Others /\ Same
    BY <1>1, <1>3 DEF TypeOK, AcceptStdin
  <2>3. Rest
    BY <1>1, <1>3 DEF TypeOK, MutexInv, Unstarted, HandInv, AcceptStdin
  <2> QED BY <1>1, <2>1, <2>2, <2>3, KeepPrev, SilentIInv
<1>4. CASE StdinEnds(c)
  <2>1. TypeOK'
    BY <1>1, <1>4 DEF TypeOK, StdinEnds
  <2>2. Others /\ Same
    BY <1>1, <1>4 DEF TypeOK, StdinEnds
  <2>3. Rest
    BY <1>1, <1>4 DEF TypeOK, MutexInv, Unstarted, HandInv, StdinEnds
  <2> QED BY <1>1, <2>1, <2>2, <2>3, KeepPrev, SilentIInv
<1>5. CASE LockWriter(c)
  <2>1. TypeOK'
    BY <1>1, <1>5 DEF TypeOK, Option, LockWriter
  <2>2. Others /\ Same
    BY <1>1, <1>5 DEF TypeOK, LockWriter
  <2>3. Rest
    BY <1>1, <1>5 DEF TypeOK, MutexInv, Unstarted, HandInv, LockWriter
  <2> QED BY <1>1, <2>1, <2>2, <2>3, KeepPrev, SilentIInv
<1>6. CASE WriteDone(c)
  <2>1. TypeOK'
    BY <1>1, <1>6 DEF TypeOK, Option, WriteDone
  <2>2. Others /\ Same
    BY <1>1, <1>6 DEF TypeOK, MutexInv, WriteDone
  <2>3. Rest
    BY <1>1, <1>6 DEF TypeOK, MutexInv, Unstarted, HandInv, WriteDone
  <2> QED BY <1>1, <2>1, <2>2, <2>3, KeepPrev, SilentIInv
<1>7. CASE WriteFails(c)
  <2>1. TypeOK'
    BY <1>1, <1>7 DEF TypeOK, Option, WriteFails
  <2>2. Others /\ Same
    BY <1>1, <1>7 DEF TypeOK, MutexInv, WriteFails
  <2>3. Rest
    BY <1>1, <1>7 DEF TypeOK, MutexInv, Unstarted, HandInv, WriteFails
  <2> QED BY <1>1, <2>1, <2>2, <2>3, KeepPrev, SilentIInv
<1> QED BY <1>2, <1>3, <1>4, <1>5, <1>6, <1>7

LEMMA ReadStdinIInv == ASSUME IInv, NEW c \in Conns, ReadStdin(c) PROVE IInv'
<1> USE DEF handlerVars, streamVars, ptyVars, Turn
<1>1. TypeOK /\ MutexInv /\ Unstarted(c) /\ HandInv(c) /\ PrevInv(c)
  BY DEF IInv, TasksInv
<1>2. TypeOK'
  BY <1>1 DEF TypeOK, ReadStdin
<1>3. /\ input' = input /\ shell' = shell
      /\ \A d \in Conns \ {c} : /\ task'[d] = task[d] /\ taken'[d] = taken[d]
                                /\ left'[d] = left[d] /\ pc'[d] = pc[d]
                                /\ lock' = d <=> lock = d
  BY <1>1 DEF TypeOK, ReadStdin
<1>4. /\ taken[c] \in Nat /\ taken'[c] = taken[c] + 1 /\ left'[c] = Size
      /\ task[c] = "read" /\ task'[c] = "lock" /\ lock' = lock
  BY <1>1 DEF TypeOK, ReadStdin
<1>5. Unstarted(c)' /\ HandInv(c)' /\ (task'[c] = "write" <=> lock' = c)
  BY <1>1, <1>4 DEF ReadStdin, MutexInv, Unstarted, HandInv
<1>6. PrevInv(c)'
  <2>1. taken[c] = 0 \/ Has(c, taken[c], Size)
    BY <1>1, <1>4 DEF HandInv, PrevInv
  <2>2. taken'[c] - 1 = taken[c]
    BY <1>4
  <2> QED BY <1>3, <1>4, <2>1, <2>2 DEF PrevInv, Has
<1> QED BY <1>2, <1>3, <1>4, <1>5, <1>6, SilentIInv

\* The step that writes: the part before the new one is there, and nothing of
\* another connection is in between.
LEMMA WritePartIInv == ASSUME IInv, NEW c \in Conns, WritePart(c) PROVE IInv'
<1> USE DEF handlerVars, streamVars
<1> DEFINE new == [conn |-> c, chunk |-> taken[c], part |-> Size - left[c] + 1]
           n == Len(input)
<1>1. TypeOK /\ MutexInv /\ Unstarted(c) /\ HandInv(c) /\ PrevInv(c)
  BY DEF IInv, TasksInv
<1>2. /\ task[c] = "write" /\ taken[c] \in Nat \ {0} /\ left[c] \in 1..Size
      /\ shell = "running" /\ lock = c
      /\ unread \in Nat /\ unread < Room
  BY <1>1 DEF TypeOK, HandInv, MutexInv, WritePart
<1>3. /\ input' = Append(input, new) /\ left' = [left EXCEPT ![c] = @ - 1]
      /\ unread' = unread + 1
      /\ UNCHANGED <<owner, over, pc, up, sent, fin, task, taken, lock, shell>>
  BY DEF WritePart
<1>4. new \in Part
  BY <1>2 DEF Part
<1>5. /\ input \in Seq(Part) /\ n \in Nat
      /\ input' \in Seq(Part) /\ Len(input') = n + 1
      /\ input'[n + 1] = new
      /\ \A i \in 1..n : input'[i] = input[i]
  BY <1>1, <1>3, <1>4, AppendProperties DEF TypeOK
<1>6. TypeOK'
  <2>1. left' \in [Conns -> 0..Size] /\ unread' \in 0..Room
    BY <1>1, <1>2, <1>3 DEF TypeOK
  <2> QED BY <1>1, <1>3, <1>5, <2>1 DEF TypeOK
<1>7. MutexInv'
  BY <1>1, <1>3 DEF MutexInv
<1>8. ASSUME NEW d, NEW k, NEW p, Has(d, k, p) PROVE Has(d, k, p)'
  <2>1. PICK j \in 1..n : input[j].conn = d /\ input[j].chunk = k /\ input[j].part = p
    BY <1>8 DEF Has
  <2>2. j \in 1..Len(input') /\ input'[j] = input[j]
    BY <1>5
  <2> QED BY <2>1, <2>2 DEF Has
<1>9. left'[c] = left[c] - 1 /\ Size - left'[c] = Size - left[c] + 1 /\ left'[c] < Size
  BY <1>1, <1>2, <1>3 DEF TypeOK
<1>10. TasksInv'
  <2>1. ASSUME NEW d \in Conns \ {c} PROVE (Unstarted(d) /\ HandInv(d) /\ PrevInv(d))'
    <3>1. left'[d] = left[d]
      BY <1>1, <1>3 DEF TypeOK
    <3>2. Unstarted(d) /\ HandInv(d) /\ PrevInv(d)
      BY DEF IInv, TasksInv
    <3>3. Unstarted(d)' /\ HandInv(d)'
      BY <1>3, <3>1, <3>2 DEF Unstarted, HandInv
    <3>4. PrevInv(d)'
      BY <1>3, <1>8, <3>1, <3>2 DEF PrevInv
    <3> QED BY <3>3, <3>4
  <2>2. Unstarted(c)' /\ HandInv(c)'
    BY <1>1, <1>2, <1>3 DEF Unstarted, HandInv
  <2>3. PrevInv(c)'
    <3>1. n + 1 \in 1..Len(input')
      BY <1>5
    <3>2. Has(c, taken[c], Size - left[c])'
      BY <1>3, <1>5, <1>9, <3>1 DEF Has
    <3> QED BY <1>9, <3>2 DEF PrevInv
  <2> QED BY <2>1, <2>2, <2>3 DEF TasksInv
<1>11. LastInv'
  BY <1>2, <1>3, <1>5, <1>9 DEF LastInv
<1>12. ASSUME NEW i \in 1..n, i = n, input[i].part < Size
       PROVE  /\ new.conn = input[i].conn /\ new.chunk = input[i].chunk
              /\ new.part = input[i].part + 1
  <2>1. input[n] \in Part
    BY <1>5, <1>12
  <2>2. /\ task[input[n].conn] = "write" /\ taken[input[n].conn] = input[n].chunk
        /\ Size - left[input[n].conn] = input[n].part
    BY <1>2, <1>12 DEF IInv, LastInv
  <2>3. input[n].conn = c
    BY <1>1, <1>2, <2>1, <2>2 DEF MutexInv, Part
  <2> QED BY <1>12, <2>2, <2>3
<1>13. ChunksAreWhole'
  <2> SUFFICES ASSUME NEW i \in 1..(Len(input') - 1), input'[i].part < Size
               PROVE  /\ input'[i + 1].conn = input'[i].conn
                      /\ input'[i + 1].chunk = input'[i].chunk
                      /\ input'[i + 1].part = input'[i].part + 1
    BY DEF ChunksAreWhole
  <2>1. i \in 1..n /\ input'[i] = input[i]
    BY <1>5
  <2>2. CASE i = n
    BY <1>5, <1>12, <2>1, <2>2
  <2>3. CASE i # n
    <3>1. i \in 1..(n - 1) /\ i + 1 \in 1..n
      BY <1>5, <2>1, <2>3
    <3>2. input'[i + 1] = input[i + 1]
      BY <1>5, <3>1
    <3> QED BY <2>1, <3>1, <3>2 DEF IInv, ChunksAreWhole
  <2> QED BY <2>2, <2>3
<1>14. InputIsOrdered'
  <2> DEFINE Before(s, j, i) ==
               /\ s[j].conn = s[i].conn
               /\ \/ s[j].chunk = s[i].chunk /\ s[j].part = s[i].part - 1
                  \/ s[j].chunk = s[i].chunk - 1 /\ s[j].part = Size /\ s[i].part = 1
  <2> SUFFICES ASSUME NEW i \in 1..Len(input')
               PROVE  \/ input'[i].part = 1 /\ input'[i].chunk = 1
                      \/ \E j \in 1..(i - 1) : Before(input', j, i)
    BY DEF InputIsOrdered
  <2>1. CASE i \in 1..n
    <3>1. input'[i] = input[i] /\ \A j \in 1..(i - 1) : input'[j] = input[j]
      BY <1>5, <2>1
    <3> QED BY <2>1, <3>1 DEF IInv, InputIsOrdered
  <2>2. CASE i = n + 1
    <3>1. input'[i] = new /\ \A j \in 1..n : j \in 1..(i - 1) /\ input'[j] = input[j]
      BY <1>5, <2>2
    <3>2. CASE left[c] = Size
      <4>1. taken[c] = 1 \/ Has(c, taken[c] - 1, Size)
        BY <1>1, <1>2, <3>2 DEF PrevInv
      <4>2. new.part = 1
        BY <1>2, <3>2
      <4> QED BY <3>1, <4>1, <4>2 DEF Has
    <3>3. CASE left[c] # Size
      <4>1. Has(c, taken[c], Size - left[c])
        BY <1>1, <1>2, <3>3 DEF PrevInv
      <4>2. new.part - 1 = Size - left[c]
        BY <1>2
      <4> QED BY <3>1, <4>1, <4>2 DEF Has
    <3> QED BY <3>2, <3>3
  <2> QED BY <1>5, <2>1, <2>2
<1> QED BY <1>6, <1>7, <1>10, <1>11, <1>13, <1>14 DEF IInv

----------------------------------------------------------------------------

LEMMA NextIInv == IInv /\ [Next]_vars => IInv'
<1> SUFFICES ASSUME IInv, [Next]_vars PROVE IInv'
  OBVIOUS
<1>1. CASE UNCHANGED vars
  <2>1. Quiet /\ TypeOK'
    BY <1>1 DEF vars, handlerVars, streamVars, taskVars, ptyVars, Quiet, IInv, TypeOK
  <2> QED BY <2>1, QuietIInv
<1>2. CASE ShellReads \/ ShellExits
  BY <1>2, ShellIInv
<1>3. ASSUME NEW c \in Conns,
             \/ Attach(c) \/ Handler(c) \/ Task(c)
             \/ \E how \in {"DETACH", "CLOSE", "end"} : Release(c, how)
             \/ Arrive(c) \/ Finish(c) \/ ConnLost(c)
      PROVE  IInv'
  BY <1>3, HandlerIInv, TaskIInv, ReadStdinIInv, WritePartIInv DEF Handler, Task
<1> QED BY <1>1, <1>2, <1>3 DEF Next

THEOREM IInvHolds == Spec => []IInv
  BY InitIInv, NextIInv, PTL DEF Spec

\* No task reads more chunks than have arrived, and the terminal's queue never
\* holds more than its room.
THEOREM TypeCorrect == Spec => []TypeOK
<1>1. IInv => TypeOK
  BY DEF IInv
<1> QED BY <1>1, IInvHolds, PTL

\* However many connections' tasks run at once, the chunks they write to the PTY
\* are never mixed.
THEOREM ChunksAreAlwaysWhole == Spec => []ChunksAreWhole
<1>1. IInv => ChunksAreWhole
  BY DEF IInv
<1> QED BY <1>1, IInvHolds, PTL

\* The input of each connection reaches the shell in order and without a gap.
THEOREM InputIsAlwaysOrdered == Spec => []InputIsOrdered
<1>1. IInv => InputIsOrdered
  BY DEF IInv
<1> QED BY <1>1, IInvHolds, PTL

=============================================================================
