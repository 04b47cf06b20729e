-------------------------- MODULE DataPlane_proofs --------------------------
(***************************************************************************)
(* Proofs about the output path of neoshd, for any number of connections   *)
(* and chunks and any capacity of the channel and of the replay buffer.    *)
(*                                                                         *)
(* The safety properties speak of what was written; what keeps them is     *)
(* where each chunk waits.  ConnInv follows one connection: what its       *)
(* channel holds continues what its pump has written, the chunk in the     *)
(* pump's hands included, and the end marker comes last.                   *)
(***************************************************************************)
EXTENDS DataPlane, SequenceTheorems, TLAPS

InHand(c) == IF pump[c] \in {"append", "write"} THEN 1 ELSE 0

\* The number of the last chunk the pump of c has taken.
Taken(c) == since[c] + Len(stdout[c]) + InHand(c)

QueueInv(c) ==
    /\ \A i \in 1..Len(queue[c]) :
         \/ queue[c][i] = Taken(c) + i
         \/ queue[c][i] = EOF /\ reader = "done"
    /\ reader # "done" => produced = Taken(c) + Len(queue[c])

ConnInv(c) ==
    /\ \A i \in 1..Len(queue[c]) : queue[c][i] <= produced
    /\ since[c] <= produced
    /\ \A i \in 1..Len(snapshot[c]) : snapshot[c][i] <= since[c]
    /\ \A i \in 1..Len(stdout[c]) : stdout[c][i] = since[c] + i
    /\ pc[c] \in {"idle", "attached"} => queue[c] = <<>>
    /\ pc[c] \in {"idle", "attached", "replaying"} => pump[c] = "none"
    /\ pump[c] = "none" => stdout[c] = <<>>
    /\ pump[c] \in {"append", "write"} =>
         chunk[c] = since[c] + Len(stdout[c]) + 1 /\ chunk[c] <= produced
    /\ c \in Receivers => QueueInv(c)

IInv == TypeOK /\ ReplayIsBounded /\ \A c \in Conns : ConnInv(c)

----------------------------------------------------------------------------

LEMMA SeqMonotone ==
    ASSUME NEW S, NEW T, S \subseteq T, NEW s \in Seq(S)
    PROVE  s \in Seq(T)
  OBVIOUS

LEMMA TailElems ==
    ASSUME NEW S, NEW s \in Seq(S), s # <<>>
    PROVE  /\ Head(s) \in S /\ Head(s) = s[1]
           /\ Tail(s) \in Seq(S) /\ Len(Tail(s)) = Len(s) - 1
           /\ \A i \in 1..Len(Tail(s)) : Tail(s)[i] = s[i + 1]
  BY HeadTailProperties

\* What append_replay keeps, and how much of it.
LEMMA AppendReplayElems ==
    ASSUME NEW S, NEW r \in Seq(S), NEW x \in S
    PROVE  append_replay(r, x) \in Seq(S) /\ Len(append_replay(r, x)) <= ReplayCap
  <1> DEFINE s == Append(r, x)
  <1>1. s \in Seq(S) /\ Len(s) \in Nat
    BY AppendProperties
  <1>2. CASE Len(s) <= ReplayCap
    BY <1>1, <1>2, DataPlaneAssumption DEF append_replay
  <1>3. CASE Len(s) > ReplayCap
    <2> DEFINE m == Len(s) - ReplayCap + 1
    <2>1. m \in 1..(Len(s) + 1) /\ Len(s) \in (m - 1)..Len(s)
      BY <1>1, <1>3, DataPlaneAssumption
    <2>2. SubSeq(s, m, Len(s)) \in Seq(S) /\ Len(SubSeq(s, m, Len(s))) = Len(s) - m + 1
      BY <1>1, <2>1, SubSeqProperties
    <2> QED
      BY <1>1, <1>3, <2>2, DataPlaneAssumption DEF append_replay
  <1> QED
    BY <1>1, <1>2, <1>3, DataPlaneAssumption


LEMMA InitIInv == Init => IInv
<1> SUFFICES ASSUME Init PROVE IInv
  OBVIOUS
<1>0. \A S : <<>> \in Seq(S)
  BY EmptySeq
<1>1. TypeOK
  <2>1. produced \in 0..MaxChunks
    BY DataPlaneAssumption DEF Init
  <2>2. /\ replay \in Seq(1..produced) /\ stdout \in [Conns -> Seq(1..produced)]
        /\ queue \in [Conns -> Seq(Nat)] /\ snapshot \in [Conns -> Seq(Nat)]
    BY <1>0, Zenon DEF Init
  <2> QED
    BY <2>1, <2>2 DEF Init, TypeOK, Option
<1>2. ReplayIsBounded
  BY DataPlaneAssumption DEF Init, ReplayIsBounded
<1>3. ASSUME NEW c \in Conns PROVE ConnInv(c)
  <2>1. c \notin Receivers
    BY DEF Init, Receivers
  <2> QED
    BY <2>1 DEF Init, ConnInv
<1> QED BY <1>1, <1>2, <1>3 DEF IInv

\* A connection whose own state a step leaves alone keeps its invariant.
LEMMA Frame ==
    ASSUME NEW c \in Conns, ConnInv(c),
           produced' = produced, (reader' = "done") <=> (reader = "done"),
           queue'[c] = queue[c], since'[c] = since[c], snapshot'[c] = snapshot[c],
           stdout'[c] = stdout[c], pc'[c] = pc[c], pump'[c] = pump[c],
           chunk'[c] = chunk[c]
    PROVE  ConnInv(c)'
  BY DEF ConnInv, QueueInv, Taken, InHand, Receivers

----------------------------------------------------------------------------
(* The steps of the reader thread *)

\* What `send` does to the channel of one connection.
LEMMA SendOne ==
    ASSUME TypeOK, NEW x \in Nat, send(x), NEW c \in Conns
    PROVE  /\ queue'[c] \in Seq(Nat)
           /\ c \notin Receivers => queue'[c] = queue[c]
           /\ c \in Receivers => /\ Len(queue'[c]) = Len(queue[c]) + 1
                                 /\ queue'[c][Len(queue[c]) + 1] = x
           /\ \A i \in 1..Len(queue[c]) : queue'[c][i] = queue[c][i]
<1>1. queue[c] \in Seq(Nat)
  BY DEF TypeOK
<1>2. queue'[c] = IF c \in Receivers THEN Append(queue[c], x) ELSE queue[c]
  BY DEF send
<1> QED BY <1>1, <1>2, AppendProperties

LEMMA SendTyped ==
    ASSUME TypeOK, NEW x \in Nat, send(x)
    PROVE  queue' \in [Conns -> Seq(Nat)]
  BY SendOne DEF send

LEMMA ReadChunkIInv == IInv /\ ReadChunk => IInv'
<1> SUFFICES ASSUME IInv, ReadChunk PROVE IInv'
  OBVIOUS
<1>0. produced \in Nat /\ MaxChunks \in Nat /\ produced' = produced + 1 /\ send(produced + 1)
  BY DataPlaneAssumption DEF IInv, TypeOK, ReadChunk
<1>1. TypeOK'
  <2>1. queue' \in [Conns -> Seq(Nat)]
    BY <1>0, SendTyped DEF IInv
  <2>2. 1..produced \subseteq 1..produced'
    BY <1>0
  <2>3. replay' \in Seq(1..produced')
    BY <2>2, SeqMonotone DEF IInv, TypeOK, ReadChunk
  <2>4. stdout' \in [Conns -> Seq(1..produced')]
    <3>1. ASSUME NEW c \in Conns PROVE stdout[c] \in Seq(1..produced')
      BY <2>2, SeqMonotone DEF IInv, TypeOK
    <3> QED BY <3>1 DEF IInv, TypeOK, ReadChunk
  <2> QED
    BY <1>0, <2>1, <2>3, <2>4
       DEF IInv, TypeOK, ReadChunk, handlerVars, streamVars, pumpVars
<1>2. ReplayIsBounded'
  BY DEF IInv, ReplayIsBounded, ReadChunk
<1>3. ASSUME NEW c \in Conns PROVE ConnInv(c)'
  <2>1. ConnInv(c) /\ TypeOK
    BY DEF IInv
  <2>2. /\ since'[c] = since[c] /\ snapshot'[c] = snapshot[c] /\ stdout'[c] = stdout[c]
        /\ pc'[c] = pc[c] /\ pump'[c] = pump[c] /\ chunk'[c] = chunk[c]
        /\ reader' = reader /\ reader = "reading"
    BY DEF ReadChunk, handlerVars, streamVars, pumpVars
  <2>3. /\ queue[c] \in Seq(Nat) /\ since[c] \in Nat /\ Len(stdout[c]) \in Nat
        /\ snapshot[c] \in Seq(Nat) /\ chunk[c] \in Nat
    BY <2>1 DEF TypeOK
  <2>4. (c \in Receivers) <=> (c \in Receivers)'
    BY <2>2 DEF Receivers
  <2>5. /\ c \notin Receivers => queue'[c] = queue[c]
        /\ c \in Receivers => /\ Len(queue'[c]) = Len(queue[c]) + 1
                              /\ queue'[c][Len(queue[c]) + 1] = produced + 1
        /\ \A i \in 1..Len(queue[c]) : queue'[c][i] = queue[c][i]
    BY <1>0, <2>1, SendOne
  <2>6. Taken(c) \in Nat /\ Taken(c)' = Taken(c)
    BY <2>2, <2>3 DEF Taken, InHand
  <2>7. CASE c \in Receivers
    <3>1. QueueInv(c)
      BY <2>1, <2>7 DEF ConnInv
    <3>2. produced = Taken(c) + Len(queue[c])
      BY <3>1, <2>2 DEF QueueInv
    <3>3. \A i \in 1..Len(queue'[c]) : i \in 1..Len(queue[c]) \/ i = Len(queue[c]) + 1
      BY <2>3, <2>5, <2>7
    <3>4. QueueInv(c)'
      <4>1. produced' = Taken(c)' + Len(queue'[c])
        BY <1>0, <2>3, <2>5, <2>6, <2>7, <3>2
      <4>2. \A i \in 1..Len(queue[c]) : queue[c][i] = Taken(c) + i
        BY <2>2, <3>1 DEF QueueInv
      <4>3. queue'[c][Len(queue[c]) + 1] = Taken(c) + (Len(queue[c]) + 1)
        BY <2>3, <2>5, <2>6, <2>7, <3>2
      <4>4. \A i \in 1..Len(queue'[c]) : queue'[c][i] = Taken(c)' + i
        BY <2>5, <2>6, <3>3, <4>2, <4>3
      <4> QED BY <4>1, <4>4 DEF QueueInv
    <3>5. \A i \in 1..Len(queue'[c]) : queue'[c][i] <= produced'
      <4>1. ASSUME NEW i \in 1..Len(queue[c])
            PROVE  queue[c][i] <= produced /\ queue[c][i] \in Nat
        <5>1. queue[c][i] <= produced
          BY <2>1 DEF ConnInv
        <5> QED BY <2>3, <5>1
      <4>2. ASSUME NEW i \in 1..Len(queue'[c]) PROVE queue'[c][i] <= produced'
        <5>1. CASE i \in 1..Len(queue[c])
          <6>1. queue'[c][i] = queue[c][i]
            BY <2>5, <5>1
          <6>2. queue[c][i] <= produced /\ queue[c][i] \in Nat
            BY <4>1, <5>1
          <6> QED BY <1>0, <6>1, <6>2
        <5>2. CASE i = Len(queue[c]) + 1
          <6>1. queue'[c][i] = produced + 1
            BY <2>5, <2>7, <5>2
          <6> QED BY <1>0, <6>1
        <5> QED BY <3>3, <5>1, <5>2
      <4> QED BY <4>2
    <3>6. pc[c] \notin {"idle", "attached"}
      BY <2>1, <2>7 DEF ConnInv, Receivers
    <3>7. /\ since'[c] <= produced'
          /\ pump'[c] \in {"append", "write"} =>
               chunk'[c] = since'[c] + Len(stdout'[c]) + 1 /\ chunk'[c] <= produced'
      BY <1>0, <2>1, <2>2, <2>3 DEF ConnInv
    <3> QED
      BY <2>1, <2>2, <3>4, <3>5, <3>6, <3>7 DEF ConnInv
  <2>8. CASE c \notin Receivers
    <3>1. ASSUME NEW i \in 1..Len(queue[c]) PROVE queue[c][i] <= produced'
      <4>1. queue[c][i] <= produced
        BY <2>1 DEF ConnInv
      <4>2. queue[c][i] \in Nat
        BY <2>3
      <4> QED BY <1>0, <4>1, <4>2
    <3>2. queue'[c] = queue[c]
      BY <2>5, <2>8
    <3>3. since'[c] <= produced'
      BY <1>0, <2>1, <2>2, <2>3 DEF ConnInv
    <3>4. pump'[c] \in {"append", "write"} =>
            chunk'[c] = since'[c] + Len(stdout'[c]) + 1 /\ chunk'[c] <= produced'
      BY <1>0, <2>1, <2>2, <2>3 DEF ConnInv
    <3> QED BY <2>1, <2>2, <2>4, <2>8, <3>1, <3>2, <3>3, <3>4 DEF ConnInv
  <2> QED BY <2>7, <2>8
<1> QED BY <1>1, <1>2, <1>3 DEF IInv

LEMMA ReadEofIInv == IInv /\ ReadEof => IInv'
<1> SUFFICES ASSUME IInv, ReadEof PROVE IInv'
  OBVIOUS
<1>1. TypeOK' /\ ReplayIsBounded'
  BY DEF IInv, TypeOK, ReplayIsBounded, ReadEof, handlerVars, streamVars, pumpVars
<1>2. ASSUME NEW c \in Conns PROVE ConnInv(c)'
  BY Frame DEF IInv, ReadEof, handlerVars, streamVars, pumpVars
<1> QED BY <1>1, <1>2 DEF IInv

LEMMA SendEofIInv == IInv /\ SendEof => IInv'
<1> SUFFICES ASSUME IInv, SendEof PROVE IInv'
  OBVIOUS
<1>0. produced \in Nat /\ produced' = produced /\ send(EOF) /\ EOF \in Nat
  BY DataPlaneAssumption DEF IInv, TypeOK, SendEof, EOF
<1>1. TypeOK'
  <2>1. queue' \in [Conns -> Seq(Nat)]
    BY <1>0, SendTyped DEF IInv
  <2> QED
    BY <2>1 DEF IInv, TypeOK, SendEof, handlerVars, streamVars, pumpVars
<1>2. ReplayIsBounded'
  BY DEF IInv, ReplayIsBounded, SendEof
<1>3. ASSUME NEW c \in Conns PROVE ConnInv(c)'
  <2>1. ConnInv(c) /\ TypeOK
    BY DEF IInv
  <2>2. /\ since'[c] = since[c] /\ snapshot'[c] = snapshot[c] /\ stdout'[c] = stdout[c]
        /\ pc'[c] = pc[c] /\ pump'[c] = pump[c] /\ chunk'[c] = chunk[c]
        /\ reader' = "done" /\ reader = "exited"
    BY DEF SendEof, handlerVars, streamVars, pumpVars
  <2>3. queue[c] \in Seq(Nat)
    BY <2>1 DEF TypeOK
  <2>4. (c \in Receivers) <=> (c \in Receivers)'
    BY <2>2 DEF Receivers
  <2>5. /\ c \notin Receivers => queue'[c] = queue[c]
        /\ c \in Receivers => /\ Len(queue'[c]) = Len(queue[c]) + 1
                              /\ queue'[c][Len(queue[c]) + 1] = EOF
        /\ \A i \in 1..Len(queue[c]) : queue'[c][i] = queue[c][i]
    BY <1>0, <2>1, SendOne
  <2>6. Taken(c)' = Taken(c)
    BY <2>2 DEF Taken, InHand
  <2>7. CASE c \in Receivers
    <3>1. QueueInv(c)
      BY <2>1, <2>7 DEF ConnInv
    <3>2. \A i \in 1..Len(queue'[c]) : i \in 1..Len(queue[c]) \/ i = Len(queue[c]) + 1
      BY <2>3, <2>5, <2>7
    <3>3. QueueInv(c)'
      BY <2>2, <2>5, <2>6, <2>7, <3>1, <3>2 DEF QueueInv
    <3>4. \A i \in 1..Len(queue'[c]) : queue'[c][i] <= produced'
      BY <1>0, <2>1, <2>5, <2>7, <3>2 DEF ConnInv, EOF
    <3>5. pc[c] \notin {"idle", "attached"}
      BY <2>1, <2>7 DEF ConnInv, Receivers
    <3> QED
      BY <1>0, <2>1, <2>2, <3>3, <3>4, <3>5 DEF ConnInv
  <2>8. CASE c \notin Receivers
    BY <1>0, <2>1, <2>2, <2>4, <2>5, <2>8 DEF ConnInv
  <2> QED BY <2>7, <2>8
<1> QED BY <1>1, <1>2, <1>3 DEF IInv

----------------------------------------------------------------------------
(* The steps of the handlers *)

LEMMA AttachIInv ==
    ASSUME NEW c \in Conns, NEW flag \in BOOLEAN, IInv, Attach(c, flag)
    PROVE  IInv'
<1>1. TypeOK' /\ ReplayIsBounded'
  BY DEF IInv, TypeOK, ReplayIsBounded, Attach, streamVars, pumpVars, Option
<1>2. ASSUME NEW d \in Conns PROVE ConnInv(d)'
  <2>1. ConnInv(d) /\ TypeOK
    BY DEF IInv
  <2>2. CASE d # c
    BY <2>1, <2>2, Frame DEF TypeOK, Attach, streamVars, pumpVars
  <2>3. CASE d = c
    <3>1. pc[d] = "idle" /\ pc'[d] = "attached"
      BY <2>1, <2>3 DEF TypeOK, Attach
    <3>2. d \notin Receivers'
      BY <2>1, <3>1 DEF ConnInv, Receivers, Attach, pumpVars
    <3> QED
      BY <2>1, <3>1, <3>2 DEF ConnInv, Attach, streamVars, pumpVars
  <2> QED BY <2>2, <2>3
<1> QED BY <1>1, <1>2 DEF IInv

LEMMA SubscribeIInv == ASSUME NEW c \in Conns, IInv, Subscribe(c) PROVE IInv'
<1>0. produced \in Nat /\ replay \in Seq(1..produced)
  BY DEF IInv, TypeOK
<1>1. /\ snapshot_of(c) \in Seq(Nat)
      /\ \A i \in 1..Len(snapshot_of(c)) : snapshot_of(c)[i] <= produced
  <2>1. replay \in Seq(Nat) /\ <<>> \in Seq(Nat)
    BY <1>0, SeqMonotone, EmptySeq
  <2>2. \A i \in 1..Len(replay) : replay[i] <= produced
    BY <1>0
  <2> QED BY <2>1, <2>2 DEF snapshot_of
<1>2. TypeOK' /\ ReplayIsBounded'
  BY <1>0, <1>1 DEF IInv, TypeOK, ReplayIsBounded, Subscribe, pumpVars
<1>3. ASSUME NEW d \in Conns PROVE ConnInv(d)'
  <2>1. ConnInv(d) /\ TypeOK
    BY DEF IInv
  <2>2. CASE d # c
    BY <2>1, <2>2, Frame DEF TypeOK, Subscribe, pumpVars
  <2>3. CASE d = c
    <3>1. /\ pc[d] = "attached" /\ pc'[d] = "replaying"
          /\ snapshot'[d] = snapshot_of(d) /\ since'[d] = produced
          /\ queue' = queue /\ stdout' = stdout /\ pump' = pump /\ chunk' = chunk
          /\ produced' = produced /\ reader' = reader
      BY <2>1, <2>3 DEF TypeOK, Subscribe, pumpVars
    <3>2. queue[d] = <<>> /\ pump[d] = "none" /\ stdout[d] = <<>>
      BY <2>1, <3>1 DEF ConnInv
    <3>3. QueueInv(d)'
      BY <1>0, <3>1, <3>2 DEF QueueInv, Taken, InHand
    <3> QED
      BY <1>0, <1>1, <2>3, <3>1, <3>2, <3>3 DEF ConnInv
  <2> QED BY <2>2, <2>3
<1> QED BY <1>2, <1>3 DEF IInv

LEMMA SpawnPumpIInv == ASSUME NEW c \in Conns, IInv, SpawnPump(c) PROVE IInv'
<1>1. TypeOK' /\ ReplayIsBounded'
  BY DEF IInv, TypeOK, ReplayIsBounded, SpawnPump, streamVars
<1>2. ASSUME NEW d \in Conns PROVE ConnInv(d)'
  <2>1. ConnInv(d) /\ TypeOK
    BY DEF IInv
  <2>2. CASE d # c
    BY <2>1, <2>2, Frame DEF TypeOK, SpawnPump, streamVars
  <2>3. CASE d = c
    <3>1. /\ pc[d] = "replaying" /\ pc'[d] = "live" /\ pump'[d] = "recv"
          /\ queue' = queue /\ stdout' = stdout /\ chunk' = chunk /\ since' = since
          /\ snapshot' = snapshot /\ produced' = produced /\ reader' = reader
      BY <2>1, <2>3 DEF TypeOK, SpawnPump, streamVars
    <3>2. d \in Receivers /\ pump[d] = "none"
      BY <2>1, <3>1 DEF ConnInv, Receivers
    <3>3. QueueInv(d)'
      BY <2>1, <3>1, <3>2 DEF ConnInv, QueueInv, Taken, InHand
    <3> QED
      BY <2>1, <3>1, <3>2, <3>3 DEF ConnInv
  <2> QED BY <2>2, <2>3
<1> QED BY <1>1, <1>2 DEF IInv

LEMMA AttachFailsIInv == ASSUME NEW c \in Conns, IInv, AttachFails(c) PROVE IInv'
<1>1. TypeOK' /\ ReplayIsBounded'
  BY DEF IInv, TypeOK, ReplayIsBounded, AttachFails, streamVars, pumpVars
<1>2. ASSUME NEW d \in Conns PROVE ConnInv(d)'
  <2>1. ConnInv(d) /\ TypeOK
    BY DEF IInv
  <2>2. CASE d # c
    BY <2>1, <2>2, Frame DEF TypeOK, AttachFails, streamVars, pumpVars
  <2>3. CASE d = c
    <3>1. /\ pc[d] \in {"attached", "replaying"} /\ pc'[d] = "failed"
          /\ queue' = queue /\ stdout' = stdout /\ pump' = pump /\ chunk' = chunk
          /\ since' = since /\ snapshot' = snapshot /\ produced' = produced
      BY <2>1, <2>3 DEF TypeOK, AttachFails, streamVars, pumpVars
    <3>2. d \notin Receivers'
      BY <2>1, <3>1 DEF ConnInv, Receivers
    <3> QED
      BY <2>1, <3>1, <3>2 DEF ConnInv
  <2> QED BY <2>2, <2>3
<1> QED BY <1>1, <1>2 DEF IInv

\* A live connection that ends keeps its pump: nothing of ConnInv changes.
LEMMA EndIInv ==
    ASSUME NEW c \in Conns, NEW flag \in BOOLEAN, IInv, Leave(c, flag) \/ ClientCloses(c)
    PROVE  IInv'
<1>1. TypeOK' /\ ReplayIsBounded'
  BY DEF IInv, TypeOK, ReplayIsBounded, Leave, ClientCloses, streamVars, pumpVars, Option
<1>2. ASSUME NEW d \in Conns PROVE ConnInv(d)'
  <2>1. ConnInv(d) /\ TypeOK
    BY DEF IInv
  <2>2. CASE d # c
    BY <2>1, <2>2, Frame DEF TypeOK, Leave, ClientCloses, streamVars, pumpVars
  <2>3. CASE d = c
    <3>1. /\ pc[d] = "live" /\ pc'[d] = "closed" /\ reader' = reader
          /\ queue' = queue /\ stdout' = stdout /\ pump' = pump /\ chunk' = chunk
          /\ since' = since /\ snapshot' = snapshot /\ produced' = produced
      BY <2>1, <2>3 DEF TypeOK, Leave, ClientCloses, streamVars, pumpVars
    <3> QED
      BY <2>1, <3>1 DEF ConnInv, QueueInv, Taken, InHand, Receivers
  <2> QED BY <2>2, <2>3
<1> QED BY <1>1, <1>2 DEF IInv

LEMMA ConnLostIInv == ASSUME NEW c \in Conns, IInv, ConnLost(c) PROVE IInv'
<1>1. TypeOK' /\ ReplayIsBounded'
  BY DEF IInv, TypeOK, ReplayIsBounded, ConnLost, handlerVars, streamVars, pumpVars
<1>2. ASSUME NEW d \in Conns PROVE ConnInv(d)'
  BY Frame DEF IInv, ConnLost, handlerVars, streamVars, pumpVars
<1> QED BY <1>1, <1>2 DEF IInv

----------------------------------------------------------------------------
(* The steps of the pumps *)

LEMMA RecvIInv == ASSUME NEW c \in Conns, IInv, Recv(c) PROVE IInv'
<1> DEFINE q == queue[c]
<1>0. /\ q \in Seq(Nat) /\ q # <<>> /\ Head(q) # EOF /\ pump[c] = "recv"
      /\ ConnInv(c) /\ TypeOK
  BY DEF IInv, TypeOK, Recv
<1>1. /\ Head(q) \in Nat /\ Head(q) = q[1] /\ Tail(q) \in Seq(Nat)
      /\ Len(Tail(q)) = Len(q) - 1 /\ \A i \in 1..Len(Tail(q)) : Tail(q)[i] = q[i + 1]
  BY <1>0, TailElems
<1>2. /\ queue' = [queue EXCEPT ![c] = Tail(q)]
      /\ chunk' = [chunk EXCEPT ![c] = Head(q)] /\ pump' = [pump EXCEPT ![c] = "append"]
      /\ stdout' = stdout /\ since' = since /\ snapshot' = snapshot /\ pc' = pc
      /\ produced' = produced /\ reader' = reader
  BY DEF Recv, handlerVars, streamVars
<1>3. TypeOK' /\ ReplayIsBounded'
  <2>1. queue' \in [Conns -> Seq(Nat)] /\ chunk' \in [Conns -> Nat]
    BY <1>0, <1>1, <1>2 DEF TypeOK
  <2> QED
    BY <2>1 DEF IInv, TypeOK, ReplayIsBounded, Recv, handlerVars, streamVars
<1>4. ASSUME NEW d \in Conns, d # c PROVE ConnInv(d)'
  BY <1>0, <1>2, <1>4, Frame DEF IInv, TypeOK
<1>5. ConnInv(c)'
  <2>1. /\ queue'[c] = Tail(q) /\ chunk'[c] = Head(q) /\ pump'[c] = "append"
    BY <1>0, <1>2 DEF TypeOK
  <2>2. /\ since[c] \in Nat /\ Len(stdout[c]) \in Nat /\ Len(q) \in Nat \ {0}
        /\ produced \in Nat
    BY <1>0, EmptySeq DEF TypeOK
  <2>3. Taken(c) = since[c] + Len(stdout[c]) /\ Taken(c)' = since[c] + Len(stdout[c]) + 1
    BY <1>0, <1>2, <2>1, <2>2 DEF Taken, InHand
  <2>4. QueueInv(c) /\ c \in Receivers
    BY <1>0 DEF ConnInv, Receivers
  <2>5. Head(q) = Taken(c) + 1 /\ Head(q) <= produced
    BY <1>0, <1>1, <2>2, <2>4 DEF QueueInv, ConnInv
  <2>6. \A i \in 1..Len(Tail(q)) : i + 1 \in 1..Len(q) /\ i \in Nat
    BY <1>1, <2>2
  <2>7. \A i \in 1..Len(Tail(q)) : Tail(q)[i] <= produced
    BY <1>0, <1>1, <2>6 DEF ConnInv
  <2>8. QueueInv(c)'
    <3>1. ASSUME NEW i \in 1..Len(Tail(q))
          PROVE  \/ Tail(q)[i] = Taken(c)' + i
                 \/ Tail(q)[i] = EOF /\ reader = "done"
      <4>1. \/ q[i + 1] = Taken(c) + (i + 1)
            \/ q[i + 1] = EOF /\ reader = "done"
        BY <2>4, <2>6 DEF QueueInv
      <4>2. Taken(c) + (i + 1) = Taken(c)' + i
        BY <2>2, <2>3, <2>6
      <4> QED BY <1>1, <4>1, <4>2
    <3>2. reader # "done" => produced = Taken(c)' + Len(Tail(q))
      <4>1. reader # "done" => produced = Taken(c) + Len(q)
        BY <2>4 DEF QueueInv
      <4>2. Taken(c) + Len(q) = Taken(c)' + (Len(q) - 1)
        BY <2>2, <2>3
      <4> QED BY <1>1, <4>1, <4>2
    <3> QED BY <1>2, <2>1, <3>1, <3>2 DEF QueueInv
  <2>9. pc[c] \notin {"idle", "attached", "replaying"}
    BY <1>0 DEF ConnInv
  <2> QED
    BY <1>0, <1>2, <2>1, <2>2, <2>3, <2>5, <2>7, <2>8, <2>9 DEF ConnInv
<1> QED BY <1>3, <1>4, <1>5 DEF IInv

LEMMA RecvEndIInv == ASSUME NEW c \in Conns, IInv, RecvEnd(c) PROVE IInv'
<1>1. TypeOK' /\ ReplayIsBounded'
  BY DEF IInv, TypeOK, ReplayIsBounded, RecvEnd, handlerVars, streamVars
<1>2. ASSUME NEW d \in Conns PROVE ConnInv(d)'
  <2>1. ConnInv(d) /\ TypeOK
    BY DEF IInv
  <2>2. CASE d # c
    BY <2>1, <2>2, Frame DEF TypeOK, RecvEnd, handlerVars, streamVars
  <2>3. CASE d = c
    <3>1. /\ pump[d] = "recv" /\ pump'[d] = "done" /\ pc' = pc
          /\ queue' = queue /\ stdout' = stdout /\ chunk' = chunk
          /\ since' = since /\ snapshot' = snapshot /\ produced' = produced
      BY <2>1, <2>3 DEF TypeOK, RecvEnd, handlerVars, streamVars
    <3>2. d \notin Receivers'
      BY <2>1, <3>1 DEF ConnInv, Receivers
    <3> QED
      BY <2>1, <3>1, <3>2 DEF ConnInv
  <2> QED BY <2>2, <2>3
<1> QED BY <1>1, <1>2 DEF IInv

LEMMA AppendReplayIInv == ASSUME NEW c \in Conns, IInv, AppendReplay(c) PROVE IInv'
<1>0. ConnInv(c) /\ TypeOK /\ pump[c] = "append"
  BY DEF IInv, AppendReplay
<1>1. chunk[c] \in 1..produced /\ replay \in Seq(1..produced)
  BY <1>0 DEF ConnInv, TypeOK
<1>2. replay' \in Seq(1..produced) /\ ReplayIsBounded'
  BY <1>1, AppendReplayElems DEF AppendReplay, ReplayIsBounded
<1>3. TypeOK'
  BY <1>0, <1>2 DEF TypeOK, AppendReplay, handlerVars, streamVars
<1>4. ASSUME NEW d \in Conns PROVE ConnInv(d)'
  <2>1. ConnInv(d)
    BY DEF IInv
  <2>2. CASE d # c
    BY <1>0, <2>1, <2>2, Frame DEF TypeOK, AppendReplay, handlerVars, streamVars
  <2>3. CASE d = c
    <3>1. /\ pump[d] = "append" /\ pump'[d] = "write" /\ pc' = pc /\ reader' = reader
          /\ queue' = queue /\ stdout' = stdout /\ chunk' = chunk
          /\ since' = since /\ snapshot' = snapshot /\ produced' = produced
      BY <1>0, <2>3 DEF TypeOK, AppendReplay, handlerVars, streamVars
    <3> QED
      BY <2>1, <3>1 DEF ConnInv, QueueInv, Taken, InHand, Receivers
  <2> QED BY <2>2, <2>3
<1> QED BY <1>2, <1>3, <1>4 DEF IInv

LEMMA WriteStdoutIInv == ASSUME NEW c \in Conns, IInv, WriteStdout(c) PROVE IInv'
<1>0. ConnInv(c) /\ TypeOK /\ pump[c] = "write"
  BY DEF IInv, WriteStdout
<1>1. /\ chunk[c] \in 1..produced /\ stdout[c] \in Seq(1..produced)
      /\ chunk[c] = since[c] + Len(stdout[c]) + 1
      /\ since[c] \in Nat /\ Len(stdout[c]) \in Nat
  BY <1>0 DEF ConnInv, TypeOK
<1>2. /\ queue' = queue /\ chunk' = chunk /\ since' = since /\ snapshot' = snapshot
      /\ pc' = pc /\ produced' = produced /\ reader' = reader /\ replay' = replay
  BY DEF WriteStdout, handlerVars, streamVars
<1>3. ASSUME NEW d \in Conns, d # c PROVE ConnInv(d)'
  <2>1. stdout'[d] = stdout[d] /\ pump'[d] = pump[d]
    BY <1>0, <1>3 DEF TypeOK, WriteStdout
  <2> QED BY <1>2, <2>1, Frame DEF IInv
<1>4. CASE up[c]
  <2> DEFINE s == Append(stdout[c], chunk[c])
  <2>1. /\ s \in Seq(1..produced) /\ Len(s) = Len(stdout[c]) + 1
        /\ \A i \in 1..Len(stdout[c]) : s[i] = stdout[c][i]
        /\ s[Len(stdout[c]) + 1] = chunk[c]
    BY <1>1, AppendProperties
  <2>2. /\ stdout' = [stdout EXCEPT ![c] = s] /\ pump' = [pump EXCEPT ![c] = "recv"]
        /\ stdout'[c] = s /\ pump'[c] = "recv"
    BY <1>0, <1>4 DEF TypeOK, WriteStdout
  <2>3. TypeOK' /\ ReplayIsBounded'
    <3>1. stdout' \in [Conns -> Seq(1..produced')]
      BY <1>0, <1>2, <2>1, <2>2 DEF TypeOK
    <3> QED
      BY <1>0, <1>2, <2>2, <3>1
         DEF IInv, TypeOK, ReplayIsBounded, WriteStdout, handlerVars, streamVars
  <2>4. \A i \in 1..Len(s) : s[i] = since[c] + i
    <3>1. \A i \in 1..Len(s) : i \in 1..Len(stdout[c]) \/ i = Len(stdout[c]) + 1
      BY <1>1, <2>1
    <3>2. \A i \in 1..Len(stdout[c]) : s[i] = since[c] + i
      BY <1>0, <2>1 DEF ConnInv
    <3>3. s[Len(stdout[c]) + 1] = since[c] + (Len(stdout[c]) + 1)
      <4>1. since[c] + Len(stdout[c]) + 1 = since[c] + (Len(stdout[c]) + 1)
        BY <1>1
      <4> QED BY <1>1, <2>1, <4>1
    <3> QED BY <3>1, <3>2, <3>3
  <2>5. Taken(c)' = Taken(c)
    BY <1>0, <1>1, <1>2, <2>1, <2>2 DEF Taken, InHand
  <2>6. QueueInv(c)'
    BY <1>0, <1>2, <2>5 DEF ConnInv, QueueInv, Receivers
  <2>7. pc[c] \notin {"idle", "attached", "replaying"}
    BY <1>0 DEF ConnInv
  <2>8. ConnInv(c)'
    BY <1>0, <1>2, <2>2, <2>4, <2>6, <2>7 DEF ConnInv
  <2> QED BY <1>3, <2>3, <2>8 DEF IInv
<1>5. CASE ~ up[c]
  <2>1. stdout' = stdout /\ pump' = [pump EXCEPT ![c] = "done"] /\ pump'[c] = "done"
    BY <1>0, <1>5 DEF TypeOK, WriteStdout
  <2>2. TypeOK' /\ ReplayIsBounded'
    BY <1>0, <1>2, <2>1
       DEF IInv, TypeOK, ReplayIsBounded, WriteStdout, handlerVars, streamVars
  <2>3. c \notin Receivers'
    BY <1>0, <1>2, <2>1 DEF ConnInv, Receivers
  <2>4. ConnInv(c)'
    BY <1>0, <1>2, <2>1, <2>3 DEF ConnInv
  <2> QED BY <1>3, <2>2, <2>4 DEF IInv
<1> QED BY <1>4, <1>5

----------------------------------------------------------------------------
(* The theorems *)

LEMMA NextIInv == IInv /\ [Next]_vars => IInv'
<1> SUFFICES ASSUME IInv, [Next]_vars PROVE IInv'
  OBVIOUS
<1>1. CASE ReadChunk \/ ReadEof \/ SendEof
  BY <1>1, ReadChunkIInv, ReadEofIInv, SendEofIInv
<1>2. ASSUME NEW c \in Conns, NEW flag \in BOOLEAN, Attach(c, flag) \/ Leave(c, flag)
      PROVE  IInv'
  BY <1>2, AttachIInv, EndIInv
<1>3. ASSUME NEW c \in Conns, Handler(c) \/ ClientCloses(c) \/ ConnLost(c) \/ Pump(c)
      PROVE  IInv'
  <2>1. CASE Handler(c)
    BY <2>1, SubscribeIInv, SpawnPumpIInv, AttachFailsIInv DEF Handler
  <2>2. CASE ClientCloses(c) \/ ConnLost(c)
    <3>1. TRUE \in BOOLEAN
      OBVIOUS
    <3> QED BY <2>2, <3>1, EndIInv, ConnLostIInv
  <2>3. CASE Pump(c)
    BY <2>3, RecvIInv, RecvEndIInv, AppendReplayIInv, WriteStdoutIInv DEF Pump
  <2> QED BY <1>3, <2>1, <2>2, <2>3
<1>4. CASE UNCHANGED vars
  <2>1. TypeOK' /\ ReplayIsBounded'
    BY <1>4 DEF IInv, TypeOK, ReplayIsBounded, vars, handlerVars, streamVars, pumpVars
  <2>2. ASSUME NEW d \in Conns PROVE ConnInv(d)'
    BY <1>4, Frame DEF IInv, vars, handlerVars, streamVars, pumpVars
  <2> QED BY <2>1, <2>2 DEF IInv
<1> QED BY <1>1, <1>2, <1>3, <1>4 DEF Next

\* The inductive invariant of the output path.
THEOREM IInvHolds == Spec => []IInv
  BY InitIInv, NextIInv, PTL DEF Spec

\* Every value of the output path keeps its type; in particular neither the
\* replay buffer nor a STDOUT stream ever holds the end marker or a chunk the
\* shell has not produced.
THEOREM TypeCorrect == Spec => []TypeOK
<1>1. IInv => TypeOK
  BY DEF IInv
<1> QED BY <1>1, IInvHolds, PTL

\* What start_data_plane writes live to a connection is the shell's output from
\* its subscription on, without gap, repetition or reordering, whatever the
\* capacity of the channel and however far a receiver falls behind.
THEOREM LiveOutputIsContiguous == Spec => []LiveIsContiguous
<1>1. IInv => LiveIsContiguous
  BY DEF IInv, ConnInv, LiveIsContiguous
<1> QED BY <1>1, IInvHolds, PTL

\* No chunk of the replay a connection was sent reaches it again live.
THEOREM ReplayIsNotRepeatedLive == Spec => []ReplayIsNotRepeated
<1>1. ASSUME IInv PROVE ReplayIsNotRepeated
  <2> SUFFICES ASSUME NEW c \in Conns, NEW i \in 1..Len(snapshot[c]),
                      NEW j \in 1..Len(stdout[c])
               PROVE  snapshot[c][i] # stdout[c][j]
    BY DEF ReplayIsNotRepeated
  <2>1. ConnInv(c) /\ since[c] \in Nat /\ snapshot[c] \in Seq(Nat) /\ j \in Nat \ {0}
    BY <1>1 DEF IInv, TypeOK
  <2>2. snapshot[c][i] \in Nat /\ snapshot[c][i] <= since[c]
    BY <2>1 DEF ConnInv
  <2>3. stdout[c][j] = since[c] + j
    BY <2>1 DEF ConnInv
  <2> QED BY <2>1, <2>2, <2>3
<1> QED BY <1>1, IInvHolds, PTL

\* append_replay keeps the buffer within --replay-buffer-bytes, 0 included.
THEOREM ReplayStaysBounded == Spec => []ReplayIsBounded
<1>1. IInv => ReplayIsBounded
  BY DEF IInv
<1> QED BY <1>1, IInvHolds, PTL

=============================================================================
