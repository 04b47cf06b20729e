------------------------- MODULE NeoshClient_proofs -------------------------
(***************************************************************************)
(* Proofs about run_session, for input of any length.                      *)
(*                                                                         *)
(* DetachIsNotDisconnect and OkIsHonest relate what run_session returns,   *)
(* which decides whether the client resumes by itself, to what the IPC     *)
(* task, the server and the network did meanwhile.  The hard step is the   *)
(* teardown: it reads the flag twice, with a delay in between, while the   *)
(* IPC task may still run.                                                 *)
(*                                                                         *)
(* StdinIsFaithful compares the incremental filter of the stdin task, byte *)
(* by byte and chunk by chunk, with what was typed as a whole.  Within a   *)
(* chunk the argument is by the least byte that breaks it (FilterChunk),   *)
(* from chunk to chunk by the invariant StdinInv.                          *)
(***************************************************************************)
EXTENDS NeoshClient, DataFacts

\* Nothing happens after run_session has returned.
ReturnIsFinal == result # None => pc = "done"

\* The flag is up from before DETACH is written until it could not be.
FlagPrecedesDetach == ipc \in {"sending", "notify", "done"} => flag

\* It is only ever raised for a request that was read.
FlagIsAsked == flag => asked

\* The session counts as left when the teardown starts without a disconnection.
TeardownIsHonest ==
    pc = "teardown" /\ ~ disconnected => "DETACH" \in wire \/ ~ cached \/ asked

Booleans == {disconnected, cached, flag, asked, woken} \subseteq BOOLEAN

IInv ==
    /\ Booleans /\ ReturnIsFinal /\ FlagPrecedesDetach /\ FlagIsAsked
    /\ TeardownIsHonest /\ DetachIsNotDisconnect /\ OkIsHonest

LEMMA InitIInv == Init => IInv
  BY ClientAssumption
     DEF Init, IInv, Booleans, ReturnIsFinal, FlagPrecedesDetach, FlagIsAsked,
         TeardownIsHonest, DetachIsNotDisconnect, OkIsHonest

\* run_session goes on, or returns a value that the past justifies.
LEMMA MainIInv == IInv /\ (Main \/ AcceptStream) => IInv'
<1> SUFFICES ASSUME IInv, Main \/ AcceptStream PROVE IInv'
  OBVIOUS
<1> USE ClientAssumption
    DEF IInv, Booleans, ReturnIsFinal, FlagPrecedesDetach, FlagIsAsked,
        TeardownIsHonest, DetachIsNotDisconnect, OkIsHonest
<1>1. CASE Setup
  BY <1>1 DEF Setup, Return
<1>2. CASE AcceptStream \/ EnterSelect
  BY <1>2 DEF AcceptStream, EnterSelect, ipcVars
<1>3. CASE AcceptFails
  BY <1>3 DEF AcceptFails, Return, ipcVars
<1>4. CASE SelectDetach
  BY <1>4 DEF SelectDetach, ipcVars
<1>5. CASE SelectClose
  BY <1>5 DEF SelectClose, ipcVars
<1>6. CASE SelectError
  BY <1>6 DEF SelectError, Return, ipcVars
<1>7. CASE SelectDisconnected
  BY <1>7 DEF SelectDisconnected, ipcVars
<1>8. CASE SelectStreamClosed
  BY <1>8 DEF SelectStreamClosed, ipcVars
<1>9. CASE SendClose
  BY <1>9 DEF SendClose, Return, ipcVars
<1>10. CASE SendDetach
  BY <1>10 DEF SendDetach, Return, ipcVars
<1>11. CASE Teardown
  BY <1>11 DEF Teardown, Return, ipcVars
<1>12. CASE GraceEnds
  BY <1>12 DEF GraceEnds, Return, ipcVars
<1> QED
  BY <1>1, <1>2, <1>3, <1>4, <1>5, <1>6, <1>7, <1>8, <1>9, <1>10, <1>11, <1>12
     DEF Main

\* The IPC task: run_session has not returned yet.
LEMMA IpcIInv ==
    ASSUME IInv, pc # "done", NEW valid \in BOOLEAN,
           DetachCmd \/ IpcRead(valid) \/ IpcSend \/ IpcNotify
    PROVE  IInv'
<1> USE ClientAssumption
    DEF IInv, Booleans, ReturnIsFinal, FlagPrecedesDetach, FlagIsAsked,
        TeardownIsHonest, DetachIsNotDisconnect, OkIsHonest, mainVars
<1>0. result = None /\ result' = None /\ pc' = pc
  BY DEF DetachCmd, IpcRead, IpcSend, IpcNotify
<1>1. CASE DetachCmd
  BY <1>0, <1>1 DEF DetachCmd
<1>2. CASE IpcRead(valid)
  BY <1>0, <1>2 DEF IpcRead
<1>3. CASE IpcSend
  BY <1>0, <1>3 DEF IpcSend
<1>4. CASE IpcNotify
  BY <1>0, <1>4 DEF IpcNotify, notify_waiters
<1> QED BY <1>1, <1>2, <1>3, <1>4

\* Everything else leaves what IInv is about alone, but for the wakeup.
LEMMA QuietIInv ==
    ASSUME IInv, UNCHANGED <<mainVars, ipcVars, wire>>, woken' \in BOOLEAN
    PROVE  IInv'
  BY DEF IInv, Booleans, ReturnIsFinal, FlagPrecedesDetach, FlagIsAsked,
         TeardownIsHonest, DetachIsNotDisconnect, OkIsHonest, mainVars, ipcVars

LEMMA ReadStdinIsQuiet ==
    ASSUME IInv, NEW chunk, ReadStdin(chunk)
    PROVE  UNCHANGED <<mainVars, ipcVars, wire>> /\ woken' \in BOOLEAN
<1>1. woken' \in BOOLEAN
  <2>1. CASE notify_waiters
    BY <2>1 DEF notify_waiters
  <2>2. CASE UNCHANGED woken
    BY <2>2 DEF IInv, Booleans
  <2> QED BY <2>1, <2>2 DEF ReadStdin
<1> QED BY <1>1 DEF ReadStdin

LEMMA NextIInv == IInv /\ [Next]_vars => IInv'
<1> SUFFICES ASSUME IInv, [Next]_vars PROVE IInv'
  OBVIOUS
<1>0. woken \in BOOLEAN
  BY DEF IInv, Booleans
<1>1. CASE Main \/ AcceptStream
  BY <1>1, MainIInv
<1>2. CASE pc # "done" /\ (DetachCmd \/ (\E valid \in BOOLEAN : IpcRead(valid))
                             \/ IpcSend \/ IpcNotify)
  <2>1. TRUE \in BOOLEAN
    OBVIOUS
  <2> QED BY <1>2, <2>1, IpcIInv
<1>3. CASE \E chunk \in Chunks : ReadStdin(chunk)
  BY <1>3, ReadStdinIsQuiet, QuietIInv
<1>4. CASE StdinEof \/ ReadEof \/ ReadLost \/ LocalStdoutFails \/ WatchLost
  BY <1>0, <1>4, QuietIInv
     DEF StdinEof, ReadEof, ReadLost, LocalStdoutFails, WatchLost
<1>5. CASE \E frame \in {"CLOSE", "other"} : WatchFrame(frame)
  BY <1>0, <1>5, QuietIInv DEF WatchFrame
<1>6. CASE ConnLost \/ ServerCloses
  BY <1>0, <1>6, QuietIInv DEF ConnLost, ServerCloses
<1>7. CASE UNCHANGED vars
  BY <1>0, <1>7, QuietIInv DEF vars
<1> QED
  BY <1>1, <1>2, <1>3, <1>4, <1>5, <1>6, <1>7 DEF Next

\* The inductive invariant of run_session and its tasks.
THEOREM IInvHolds == Spec => []IInv
  BY InitIInv, NextIInv, PTL DEF Spec

\* A `neosh detach` whose DETACH was written is never taken for a lost
\* connection by run_session, so the client does not resume what the user left.
THEOREM DetachIsNeverDisconnect == Spec => []DetachIsNotDisconnect
<1>1. IInv => DetachIsNotDisconnect
  BY DEF IInv
<1> QED BY <1>1, IInvHolds, PTL

\* run_session returns Ok only for a session the user left or the server closed.
THEOREM OkIsAlwaysHonest == Spec => []OkIsHonest
<1>1. IInv => OkIsHonest
  BY DEF IInv
<1> QED BY <1>1, IInvHolds, PTL

----------------------------------------------------------------------------
(* The stdin filter, for chunks of any length *)

\* What the task has let through, with the Ctrl-a it holds back.
Held(out, held) == IF held THEN Append(out, CtrlA) ELSE out

Byte == Keys \cup {Del}

Acc == [detach : BOOLEAN, out : Seq(Byte), pending : BOOLEAN]

\* One byte: the hotkey is a d after a Ctrl-a that is held back; any other byte is,
\* normalised, the next one let through or held back.
LEMMA FilterByte ==
    ASSUME NEW acc \in Acc, NEW b \in Keys
    PROVE  LET r == filter_byte(acc, b) IN
           /\ r \in Acc
           /\ acc.detach => r.detach
           /\ ~ acc.detach =>
                /\ r.detach <=> acc.pending /\ b = "d"
                /\ ~ r.detach => /\ r.pending <=> b = CtrlA
                                 /\ Held(r.out, r.pending)
                                      = Append(Held(acc.out, acc.pending), normalize_stdin_byte(b))
<1> DEFINE out == IF acc.pending THEN Append(acc.out, CtrlA) ELSE acc.out
           r == filter_byte(acc, b)
<1>1. CtrlA \in Byte /\ normalize_stdin_byte(b) \in Byte /\ normalize_stdin_byte(CtrlA) = CtrlA
  BY DEF Byte, Keys, normalize_stdin_byte, CtrlA, CtrlH, Del
<1>2. CtrlA # "d"
  BY DEF CtrlA
<1>3. acc.out \in Seq(Byte) /\ acc.detach \in BOOLEAN /\ acc.pending \in BOOLEAN
  BY DEF Acc
<1>4. out \in Seq(Byte) /\ out = Held(acc.out, acc.pending)
  BY <1>1, <1>3, AppendProperties DEF Held
<1> HIDE DEF out
<1>5. Append(out, normalize_stdin_byte(b)) \in Seq(Byte)
  BY <1>1, <1>4, AppendProperties
<1>6. CASE acc.detach
  <2>1. r = acc
    BY <1>6 DEF filter_byte
  <2> QED BY <1>6, <2>1
<1>7. CASE ~ acc.detach /\ acc.pending /\ b = "d"
  <2>1. r = [acc EXCEPT !.detach = TRUE, !.pending = FALSE]
    BY <1>7 DEF filter_byte
  <2>2. r \in Acc /\ r.detach
    BY <2>1 DEF Acc
  <2> QED BY <1>7, <2>2
<1>8. CASE ~ acc.detach /\ ~ (acc.pending /\ b = "d") /\ b = CtrlA
  <2>1. r = [acc EXCEPT !.out = out, !.pending = TRUE]
    BY <1>8 DEF filter_byte, out
  <2>2. r \in Acc /\ ~ r.detach /\ r.pending /\ r.out = out
    BY <1>4, <1>8, <2>1 DEF Acc
  <2>3. Held(r.out, r.pending) = Append(out, CtrlA)
    BY <2>2 DEF Held
  <2> QED BY <1>1, <1>4, <1>8, <2>2, <2>3
<1>9. CASE ~ acc.detach /\ ~ (acc.pending /\ b = "d") /\ b # CtrlA
  <2>1. r = [acc EXCEPT !.out = Append(out, normalize_stdin_byte(b)), !.pending = FALSE]
    BY <1>9 DEF filter_byte, out
  <2>2. r \in Acc /\ ~ r.detach /\ ~ r.pending /\ r.out = Append(out, normalize_stdin_byte(b))
    BY <1>5, <1>9, <2>1 DEF Acc
  <2>3. Held(r.out, r.pending) = Append(out, normalize_stdin_byte(b))
    BY <2>2 DEF Held
  <2> QED BY <1>4, <1>9, <2>2, <2>3
<1> QED BY <1>6, <1>7, <1>8, <1>9

\* The loop is defined, for a chunk of any length: a least length for which it is
\* not would have a predecessor, whose loop one more byte completes.
LEMMA FilterBytes ==
    ASSUME NEW chunk \in Seq(Keys), NEW held \in BOOLEAN
    PROVE  LET f == filter_bytes(chunk, held) IN
           /\ f[0] = [detach |-> FALSE, out |-> <<>>, pending |-> held]
           /\ \A i \in 1..Len(chunk) : f[i] = filter_byte(f[i - 1], chunk[i])
<1> DEFINE a == [detach |-> FALSE, out |-> <<>>, pending |-> held]
           n == Len(chunk)
           Run(g, m) == g = [i \in 0..m |-> IF i = 0 THEN a ELSE filter_byte(g[i - 1], chunk[i])]
           T == {m \in 0..n : ~ \E g : Run(g, m)}
<1>0. n \in Nat
  OBVIOUS
<1> HIDE DEF a, n
<1>1. \E g : Run(g, n)
  <2>1. SUFFICES ASSUME n \in T PROVE FALSE
    BY <1>0
  <2>2. T \in SUBSET Nat /\ T # {}
    <3> HIDE DEF Run
    <3>1. T \in SUBSET (0..n) /\ T # {}
      BY <2>1, Zenon
    <3> HIDE DEF T
    <3> QED BY <1>0, <3>1
  <2> HIDE DEF T
  <2>3. PICK m \in T : \A k \in T : m <= k
    BY <2>2, NatMin
  <2> USE DEF T
  <2>4. m \in 0..n /\ ~ \E g : Run(g, m)
    BY <2>3
  <2>5. CASE m = 0
    <3> DEFINE g == [i \in 0..0 |-> a]
    <3>1. \A i \in 0..0 : i = 0
      OBVIOUS
    <3>2. g = [i \in 0..0 |-> IF i = 0 THEN a ELSE filter_byte(g[i - 1], chunk[i])]
      BY <3>1
    <3> QED BY <2>4, <2>5, <3>2
  <2>6. CASE m # 0
    <3> DEFINE k == m - 1
    <3>1. k \in 0..n /\ k \in Nat /\ ~ (m <= k) /\ m = k + 1 /\ m \in Nat
      BY <1>0, <2>4, <2>6
    <3>2. k \notin T
      <4> HIDE DEF T, k
      <4> QED BY <2>3, <3>1
    <3>3. PICK g : Run(g, k)
      BY <3>1, <3>2
    <3> HIDE DEF k
    <3> DEFINE h == [i \in 0..m |-> IF i <= k THEN g[i] ELSE filter_byte(g[k], chunk[m])]
    <3>4. ASSUME NEW i \in 0..m
          PROVE  h[i] = IF i = 0 THEN a ELSE filter_byte(h[i - 1], chunk[i])
      <4>1. CASE i <= k
        <5>1. i \in 0..k /\ (i # 0 => i - 1 \in 0..m /\ i - 1 <= k)
          BY <3>1, <4>1
        <5>2. h[i] = g[i] /\ (i # 0 => h[i - 1] = g[i - 1])
          BY <4>1, <5>1
        <5>3. g[i] = IF i = 0 THEN a ELSE filter_byte(g[i - 1], chunk[i])
          <6> HIDE DEF h
          <6>1. g = [j \in 0..k |-> IF j = 0 THEN a ELSE filter_byte(g[j - 1], chunk[j])]
            BY <3>3
          <6> QED BY <5>1, <6>1
        <5> HIDE DEF h
        <5> QED BY <5>2, <5>3
      <4>2. CASE ~ (i <= k)
        <5>1. i = m /\ i - 1 = k /\ k \in 0..m /\ k <= k /\ i # 0
          BY <3>1, <4>2
        <5>2. h[i] = filter_byte(g[k], chunk[m]) /\ h[k] = g[k]
          BY <4>2, <5>1
        <5> HIDE DEF h
        <5> QED BY <5>1, <5>2
      <4> QED BY <4>1, <4>2
    <3>5. h = [i \in 0..m |-> h[i]]
      OBVIOUS
    <3> HIDE DEF h
    <3>6. h = [i \in 0..m |-> IF i = 0 THEN a ELSE filter_byte(h[i - 1], chunk[i])]
      BY <3>4, <3>5
    <3> QED BY <2>4, <3>6
  <2> QED BY <2>5, <2>6
<1> DEFINE f == CHOOSE g : Run(g, n)
<1>2. filter_bytes(chunk, held) = f
  BY Zenon DEF filter_bytes, a, n
<1>3. Run(f, n)
  <2> HIDE DEF Run
  <2> QED BY <1>1, Zenon
<1> HIDE DEF f
<1>4. f = [i \in 0..n |-> IF i = 0 THEN a ELSE filter_byte(f[i - 1], chunk[i])]
  BY <1>3
<1>5. 0 \in 0..n /\ \A i \in 1..n : i \in 0..n /\ i # 0
  BY <1>0
<1>6. f[0] = a
  BY <1>4, <1>5
<1>7. \A i \in 1..n : f[i] = filter_byte(f[i - 1], chunk[i])
  BY <1>4, <1>5
<1> QED BY <1>2, <1>6, <1>7 DEF a, n

\* The whole chunk, after the keys of `past` without a hotkey among them: the
\* hotkey is seen exactly if the keys so far contain it, and otherwise every byte
\* of the chunk is let through or held back, in order.
EndsInCtrlA(keys) == keys # <<>> /\ keys[Len(keys)] = CtrlA

LEMMA FilterChunk ==
    ASSUME NEW chunk \in Seq(Keys), NEW held \in BOOLEAN, NEW past \in Seq(Keys),
           ~ HasHotkey(past), held <=> EndsInCtrlA(past)
    PROVE  LET r == process_stdin_chunk_for_detach(chunk, held)
               h == Held(r.out, r.pending)
               c == Len(Held(<<>>, held))
           IN  /\ r \in Acc
               /\ r.detach <=> HasHotkey(past \o chunk)
               /\ ~ r.detach =>
                    /\ r.pending <=> EndsInCtrlA(past \o chunk)
                    /\ Len(h) = c + Len(chunk)
                    /\ \A j \in 1..c : h[j] = CtrlA
                    /\ \A j \in 1..Len(chunk) : h[c + j] = normalize_stdin_byte(chunk[j])
<1> DEFINE n == Len(chunk)
           m == Len(past)
           t == past \o chunk
           f == filter_bytes(chunk, held)
           H(i) == Held(f[i].out, f[i].pending)
           c == Len(Held(<<>>, held))
           Hot(i) == \E j \in 1..((m + i) - 1) : t[j] = CtrlA /\ t[j + 1] = "d"
           Ends(i) == m + i # 0 /\ t[m + i] = CtrlA
           Good(i) == /\ f[i] \in Acc
                      /\ f[i].detach <=> Hot(i)
                      /\ ~ Hot(i) =>
                           /\ f[i].pending <=> Ends(i)
                           /\ Len(H(i)) = c + i
                           /\ \A j \in 1..c : H(i)[j] = CtrlA
                           /\ \A j \in 1..i : H(i)[c + j] = normalize_stdin_byte(chunk[j])
           T == {i \in 0..n : ~ Good(i)}
<1>1. n \in Nat /\ m \in Nat
  OBVIOUS
<1>2. /\ t \in Seq(Keys) /\ Len(t) = m + n /\ \A i \in 1..m : t[i] = past[i]
      /\ \A i \in 1..n : t[m + i] = chunk[i]
  <2>1. /\ t \in Seq(Keys) /\ Len(t) = m + n
        /\ \A i \in 1..(m + n) : t[i] = IF i <= m THEN past[i] ELSE chunk[i - m]
    BY ConcatProperties
  <2> HIDE DEF t, m, n
  <2>2. \A i \in 1..n : m + i \in 1..(m + n) /\ ~ (m + i <= m) /\ (m + i) - m = i
    BY <1>1
  <2>3. \A i \in 1..m : i \in 1..(m + n) /\ i <= m
    BY <1>1
  <2> QED BY <2>1, <2>2, <2>3
<1>3. /\ f[0] = [detach |-> FALSE, out |-> <<>>, pending |-> held]
      /\ \A i \in 1..n : f[i] = filter_byte(f[i - 1], chunk[i])
  BY FilterBytes
<1>4. c \in Nat /\ (held => c = 1) /\ (~ held => c = 0)
      /\ \A j \in 1..c : Held(<<>>, held)[j] = CtrlA
  <2>1. CASE held
    BY <2>1 DEF Held
  <2>2. CASE ~ held
    BY <2>2 DEF Held
  <2> QED BY <2>1, <2>2
<1>5. \A i \in 1..n : chunk[i] \in Keys
  OBVIOUS
<1>6. ~ Hot(0) /\ (held <=> Ends(0))
  <2>1. (m + 0) - 1 = m - 1 /\ m + 0 = m
    BY <1>1
  <2>2. ~ \E j \in 1..(m - 1) : past[j] = CtrlA /\ past[j + 1] = "d"
    BY DEF HasHotkey
  <2>3. held <=> m # 0 /\ past[m] = CtrlA
    <3>1. past # <<>> <=> m # 0
      BY EmptySeq
    <3> QED BY <3>1 DEF EndsInCtrlA
  <2> HIDE DEF m, t
  <2>4. \A j \in 1..(m - 1) : t[j] = past[j] /\ t[j + 1] = past[j + 1]
    BY <1>1, <1>2
  <2>5. m # 0 => t[m] = past[m]
    BY <1>1, <1>2
  <2> QED BY <2>1, <2>2, <2>3, <2>4, <2>5
<1> HIDE DEF c, n, m, t, f
<1>7. Good(0)
  <2> DEFINE a == [detach |-> FALSE, out |-> <<>>, pending |-> held]
  <2>1. a \in Acc /\ a.detach = FALSE /\ a.pending = held /\ a.out = <<>>
    BY DEF Acc
  <2>2. H(0) = Held(<<>>, held)
    BY <1>3
  <2>3. f[0] \in Acc /\ f[0].detach = FALSE /\ f[0].pending = held
    BY <1>3, <2>1
  <2> HIDE DEF a, H, Hot, Ends
  <2>4. Len(H(0)) = c + 0 /\ 1..0 = {}
    BY <1>4, <2>2 DEF c
  <2> QED BY <1>4, <1>6, <2>2, <2>3, <2>4
<1>8. ASSUME NEW i \in 1..n, Good(i - 1) PROVE Good(i)
  <2> DEFINE k == i - 1
             b == chunk[i]
  <2>1. k \in Nat /\ k + 1 = i /\ i \in Nat /\ b \in Keys /\ f[i] = filter_byte(f[k], b)
    BY <1>1, <1>3, <1>5
  <2>2. t[m + i] = b
    BY <1>2
  <2>3. Hot(i) <=> Hot(k) \/ (Ends(k) /\ b = "d")
    <3>0. k \in Nat /\ i = k + 1
      BY <2>1
    <3> HIDE DEF k
    <3>1. (m + i) - 1 = m + k /\ m + k \in Nat
          /\ (m + k) + 1 = m + i
      BY <1>1, <3>0
    <3> DEFINE q == m + k
    <3>2. q \in Nat
      BY <3>1
    <3> HIDE DEF q
    <3>3. /\ \A j \in 1..q : j # 0 /\ (j \in 1..(q - 1) \/ j = q)
          /\ \A j \in 1..(q - 1) : j \in 1..q
          /\ q # 0 => q \in 1..q
      BY <3>2
    <3> HIDE DEF b
    <3> DEFINE X == \E j \in 1..q : t[j] = CtrlA /\ t[j + 1] = "d"
               Y == \E j \in 1..(q - 1) : t[j] = CtrlA /\ t[j + 1] = "d"
               Z == q # 0 /\ t[q] = CtrlA /\ t[q + 1] = "d"
    <3>4. X <=> Y \/ Z
      <4>1. ASSUME NEW j \in 1..q, t[j] = CtrlA /\ t[j + 1] = "d" PROVE Y \/ Z
        BY <3>3, <4>1, Zenon
      <4> QED BY <3>3, <4>1, Zenon
    <3>5. Hot(i) <=> X
      BY <3>1 DEF q
    <3>6. t[q + 1] = b
      BY <2>2, <3>1 DEF q
    <3>7. (Hot(k) <=> Y) /\ (Ends(k) <=> q # 0 /\ t[q] = CtrlA)
      BY Zenon DEF q
    <3> HIDE DEF Hot, Ends, X, Y
    <3> QED BY <3>4, <3>5, <3>6, <3>7
  <2>4. Ends(i) <=> b = CtrlA
    BY <1>1, <2>1, <2>2
  <2>5. f[k] \in Acc /\ (f[k].detach <=> Hot(k))
    BY <1>8
  <2>6. /\ f[i] \in Acc /\ (f[k].detach => f[i].detach)
        /\ ~ f[k].detach =>
             /\ f[i].detach <=> f[k].pending /\ b = "d"
             /\ ~ f[i].detach => /\ f[i].pending <=> b = CtrlA
                                 /\ H(i) = Append(H(k), normalize_stdin_byte(b))
    <3> HIDE DEF k, b
    <3>1. f[k] \in Acc /\ b \in Keys /\ f[i] = filter_byte(f[k], b)
      BY <2>1, <2>5
    <3> DEFINE a == f[k]
               x == f[i]
    <3> HIDE DEF f, a, x
    <3>2. a \in Acc /\ b \in Keys /\ x = filter_byte(a, b)
      BY <3>1 DEF a, x
    <3>3. /\ x \in Acc /\ (a.detach => x.detach)
          /\ ~ a.detach =>
               /\ x.detach <=> a.pending /\ b = "d"
               /\ ~ x.detach =>
                    /\ x.pending <=> b = CtrlA
                    /\ Held(x.out, x.pending)
                         = Append(Held(a.out, a.pending), normalize_stdin_byte(b))
      BY <3>2, FilterByte
    <3> QED BY <3>3, Zenon DEF a, x
  <2>7. f[i].detach <=> Hot(i)
    <3>1. ~ Hot(k) => (f[k].pending <=> Ends(k))
      BY <1>8
    <3> HIDE DEF Hot, Ends, H, k, b
    <3> QED BY <2>3, <2>5, <2>6, <3>1
  <2>8. ASSUME ~ Hot(i)
        PROVE  /\ f[i].pending <=> Ends(i)
               /\ Len(H(i)) = c + i
               /\ \A j \in 1..c : H(i)[j] = CtrlA
               /\ \A j \in 1..i : H(i)[c + j] = normalize_stdin_byte(chunk[j])
    <3>1. ~ Hot(k) /\ ~ f[k].detach /\ ~ f[i].detach
      <4> HIDE DEF Hot, Ends, H, k, b, Good
      <4> QED BY <2>3, <2>5, <2>7, <2>8
    <3>2. /\ Len(H(k)) = c + k /\ \A j \in 1..c : H(k)[j] = CtrlA
          /\ \A j \in 1..k : H(k)[c + j] = normalize_stdin_byte(chunk[j])
      BY <1>8, <3>1
    <3>3. H(i) = Append(H(k), normalize_stdin_byte(b)) /\ (f[i].pending <=> Ends(i))
      <4> HIDE DEF Hot, Ends, H, k, b, Good
      <4> QED BY <2>4, <2>6, <3>1
    <3>4. H(k) \in Seq(Byte) /\ normalize_stdin_byte(b) \in Byte
      <4>1. f[k].out \in Seq(Byte) /\ CtrlA \in Byte /\ Append(f[k].out, CtrlA) \in Seq(Byte)
        <5>1. f[k].out \in Seq(Byte)
          BY <2>5 DEF Acc
        <5>2. CtrlA \in Byte
          BY DEF Byte, Keys
        <5> QED BY <5>1, <5>2, AppendProperties
      <4>2. normalize_stdin_byte(b) \in Byte
        BY <2>1 DEF Byte, Keys, normalize_stdin_byte
      <4> HIDE DEF Good, k, b
      <4> QED BY <4>1, <4>2 DEF Held
    <3> HIDE DEF Hot, Ends, H, Good
    <3>5. /\ Len(H(i)) = Len(H(k)) + 1
          /\ H(i)[Len(H(k)) + 1] = normalize_stdin_byte(b)
          /\ \A j \in 1..Len(H(k)) : H(i)[j] = H(k)[j]
      <4> HIDE DEF k, b
      <4> QED BY <3>3, <3>4, AppendProperties
    <3>6. Len(H(i)) = c + i
      BY <1>4, <2>1, <3>2, <3>5
    <3>7. \A j \in 1..c : H(i)[j] = CtrlA
      <4>1. \A j \in 1..c : j \in 1..Len(H(k))
        BY <1>4, <2>1, <3>2
      <4> HIDE DEF k, b
      <4> QED BY <3>2, <3>5, <4>1
    <3>8. \A j \in 1..i : H(i)[c + j] = normalize_stdin_byte(chunk[j])
      <4> TAKE j \in 1..i
      <4>1. CASE j \in 1..k
        <5>1. c + j \in 1..Len(H(k))
          BY <1>4, <2>1, <3>2, <4>1
        <5> HIDE DEF k, b
        <5> QED BY <3>2, <3>5, <4>1, <5>1
      <4>2. CASE j = i
        <5>1. c + j = Len(H(k)) + 1
          BY <1>4, <2>1, <3>2, <4>2
        <5> QED BY <3>5, <4>2, <5>1
      <4> QED BY <2>1, <4>1, <4>2
    <3> QED BY <3>3, <3>6, <3>7, <3>8
  <2> QED BY <2>6, <2>7, <2>8
<1>9. Good(n)
  <2> HIDE DEF Good
  <2>1. SUFFICES ASSUME n \in T PROVE FALSE
    BY <1>1
  <2>2. T \in SUBSET Nat /\ T # {}
    BY <1>1, <2>1
  <2>3. PICK x \in T : \A y \in T : x <= y
    <3> HIDE DEF T
    <3> QED BY <2>2, NatMin
  <2>4. x \in 0..n /\ ~ Good(x)
    BY <2>3
  <2>5. x # 0
    BY <1>7, <2>4
  <2>6. x \in 1..n /\ x - 1 \in 0..n /\ ~ (x <= x - 1)
    BY <1>1, <2>4, <2>5
  <2>7. x - 1 \notin T
    <3> HIDE DEF T
    <3> QED BY <2>3, <2>6
  <2>8. Good(x - 1)
    BY <2>6, <2>7
  <2> QED BY <1>8, <2>4, <2>6, <2>8
<1>10. process_stdin_chunk_for_detach(chunk, held) = f[n]
  BY DEF process_stdin_chunk_for_detach, f, n
<1>11. Hot(n) <=> HasHotkey(t)
  <2>1. Len(t) = m + n
    BY <1>2
  <2>2. 1..(Len(t) - 1) = 1..((m + n) - 1)
    BY <1>1, <2>1
  <2> HIDE DEF Good
  <2> QED BY <2>2 DEF HasHotkey
<1>12. Ends(n) <=> EndsInCtrlA(t)
  <2>1. t # <<>> <=> m + n # 0
    BY <1>1, <1>2, EmptySeq
  <2> QED BY <1>2, <2>1 DEF EndsInCtrlA
<1> HIDE DEF Hot, Ends
<1>13. /\ f[n] \in Acc /\ (f[n].detach <=> HasHotkey(t))
       /\ ~ f[n].detach =>
            /\ f[n].pending <=> EndsInCtrlA(t)
            /\ Len(H(n)) = c + n
            /\ \A j \in 1..c : H(n)[j] = CtrlA
            /\ \A j \in 1..n : H(n)[c + j] = normalize_stdin_byte(chunk[j])
  BY <1>9, <1>11, <1>12
<1> QED BY <1>10, <1>13 DEF c, n, t

----------------------------------------------------------------------------
(* The stdin task *)

\* What has been written is a beginning of what was typed.
IsForwarded(out, keys) ==
    /\ Len(out) <= Len(keys)
    /\ \A i \in 1..Len(out) : out[i] = normalize_stdin_byte(keys[i])

\* While the task reads, what it has written and the Ctrl-a it holds back are all
\* that was typed, and it holds one back exactly if the last key was one.
StdinInv ==
    /\ stdin \in {"none", "reading", "ended", "hotkey"} /\ pending \in BOOLEAN
    /\ typed \in Seq(Keys) /\ Len(typed) <= MaxTyped /\ forwarded \in Seq(Byte)
    /\ stdin = "none" => ~ pending /\ typed = <<>> /\ forwarded = <<>>
    /\ stdin = "hotkey" <=> HasHotkey(typed)
    /\ stdin = "reading" => /\ pending <=> EndsInCtrlA(typed)
                            /\ Normalized(typed) = Held(forwarded, pending)
    /\ IsForwarded(forwarded, typed)

LEMMA NormalizedKeys ==
    ASSUME NEW keys \in Seq(Keys)
    PROVE  /\ Normalized(keys) \in Seq(Byte) /\ Len(Normalized(keys)) = Len(keys)
           /\ \A i \in 1..Len(keys) : Normalized(keys)[i] = normalize_stdin_byte(keys[i])
<1>1. \A i \in 1..Len(keys) : normalize_stdin_byte(keys[i]) \in Byte
  BY DEF normalize_stdin_byte, Byte
<1>2. Normalized(keys) \in [1..Len(keys) -> Byte] /\ Len(keys) \in Nat
  BY <1>1 DEF Normalized
<1>3. \A i \in 1..Len(keys) : Normalized(keys)[i] = normalize_stdin_byte(keys[i])
  BY DEF Normalized
<1> QED BY <1>2, <1>3

LEMMA HeldProperties ==
    ASSUME NEW out \in Seq(Byte), NEW held \in BOOLEAN
    PROVE  /\ Held(out, held) \in Seq(Byte)
           /\ Len(Held(out, held)) = Len(out) + Len(Held(<<>>, held))
           /\ Len(Held(<<>>, held)) = IF held THEN 1 ELSE 0
           /\ \A i \in 1..Len(out) : Held(out, held)[i] = out[i]
           /\ held => Held(out, held)[Len(out) + 1] = CtrlA
<1>1. CtrlA \in Byte
  BY DEF Byte, Keys
<1>2. CASE held
  <2>1. Held(out, held) = Append(out, CtrlA) /\ Held(<<>>, held) = <<CtrlA>>
    BY <1>2 DEF Held
  <2>2. /\ Append(out, CtrlA) \in Seq(Byte) /\ Len(Append(out, CtrlA)) = Len(out) + 1
        /\ \A i \in 1..Len(out) : Append(out, CtrlA)[i] = out[i]
        /\ Append(out, CtrlA)[Len(out) + 1] = CtrlA
    BY <1>1, AppendProperties
  <2>3. Len(<<CtrlA>>) = 1
    OBVIOUS
  <2> QED BY <1>2, <2>1, <2>2, <2>3
<1>3. CASE ~ held
  <2>1. Held(out, held) = out /\ Held(<<>>, held) = <<>>
    BY <1>3 DEF Held
  <2> QED BY <1>3, <2>1
<1> QED BY <1>2, <1>3

\* Everything typed is written or held back: so what is written is a beginning.
LEMMA HeldIsForwarded ==
    ASSUME NEW keys \in Seq(Keys), NEW out \in Seq(Byte), NEW held \in BOOLEAN,
           Normalized(keys) = Held(out, held)
    PROVE  IsForwarded(out, keys) /\ IsForwarded(Held(out, held), keys)
<1>1. /\ Len(Held(out, held)) = Len(keys)
      /\ \A i \in 1..Len(keys) : Held(out, held)[i] = normalize_stdin_byte(keys[i])
  BY NormalizedKeys
<1>2. /\ Len(Held(out, held)) = Len(out) + Len(Held(<<>>, held))
      /\ Len(Held(<<>>, held)) \in Nat /\ \A i \in 1..Len(out) : Held(out, held)[i] = out[i]
  BY HeldProperties
<1>3. Len(out) \in Nat /\ Len(keys) \in Nat
  OBVIOUS
<1>4. Len(out) <= Len(keys)
  BY <1>1, <1>2, <1>3
<1>5. \A i \in 1..Len(out) : i \in 1..Len(keys)
  BY <1>3, <1>4
<1> QED BY <1>1, <1>2, <1>3, <1>4, <1>5 DEF IsForwarded

\* More keys do not change what was written of the earlier ones.
LEMMA MoreTyped ==
    ASSUME NEW keys \in Seq(Keys), NEW chunk \in Seq(Keys), NEW out \in Seq(Byte),
           IsForwarded(out, keys)
    PROVE  IsForwarded(out, keys \o chunk)
<1> DEFINE t == keys \o chunk
<1>1. /\ Len(t) = Len(keys) + Len(chunk)
      /\ \A i \in 1..(Len(keys) + Len(chunk)) :
           t[i] = IF i <= Len(keys) THEN keys[i] ELSE chunk[i - Len(keys)]
  BY ConcatProperties
<1>2. Len(out) \in Nat /\ Len(keys) \in Nat /\ Len(chunk) \in Nat /\ Len(out) <= Len(keys)
  BY DEF IsForwarded
<1> HIDE DEF t
<1>3. /\ Len(out) <= Len(t)
      /\ \A i \in 1..Len(out) : i <= Len(keys) /\ i \in 1..(Len(keys) + Len(chunk))
  BY <1>1, <1>2
<1> QED BY <1>1, <1>3 DEF IsForwarded, t

\* What becomes of a chunk: c Ctrl-a held back before it, then all of it.
Passes(h, c, chunk) ==
    /\ Len(h) = c + Len(chunk)
    /\ \A j \in 1..c : h[j] = CtrlA
    /\ \A j \in 1..Len(chunk) : h[c + j] = normalize_stdin_byte(chunk[j])

\* A chunk without the hotkey is written: again everything is written or held back.
LEMMA ForwardChunk ==
    ASSUME NEW keys \in Seq(Keys), NEW chunk \in Seq(Keys), NEW out \in Seq(Byte),
           NEW held \in BOOLEAN, Normalized(keys) = Held(out, held),
           NEW more \in Seq(Byte), NEW held2 \in BOOLEAN,
           Passes(Held(more, held2), Len(Held(<<>>, held)), chunk)
    PROVE  Normalized(keys \o chunk) = Held(out \o more, held2)
<1> DEFINE h == Held(more, held2)
           c == Len(Held(<<>>, held))
           t == keys \o chunk
           g == out \o h
           N == Normalized(t)
           k == Len(keys)
           n == Len(chunk)
           m == Len(out)
<1>1. /\ Len(h) = c + n /\ \A j \in 1..c : h[j] = CtrlA
      /\ \A j \in 1..n : h[c + j] = normalize_stdin_byte(chunk[j])
  BY DEF Passes
<1>2. h \in Seq(Byte)
  BY HeldProperties
<1>3. k \in Nat /\ n \in Nat /\ m \in Nat
  OBVIOUS
<1>4. /\ c = IF held THEN 1 ELSE 0
      /\ k = m + c /\ \A i \in 1..m : normalize_stdin_byte(keys[i]) = out[i]
      /\ held => normalize_stdin_byte(keys[m + 1]) = CtrlA
  <2>1. /\ Len(Held(out, held)) = k
        /\ \A i \in 1..k : Held(out, held)[i] = normalize_stdin_byte(keys[i])
    BY NormalizedKeys
  <2>2. /\ Len(Held(out, held)) = m + c /\ c = IF held THEN 1 ELSE 0
        /\ \A i \in 1..m : Held(out, held)[i] = out[i]
        /\ held => Held(out, held)[m + 1] = CtrlA
    BY HeldProperties
  <2> HIDE DEF c, k, m
  <2>3. k = m + c /\ (\A i \in 1..m : i \in 1..k) /\ (held => m + 1 \in 1..k)
    BY <1>3, <2>1, <2>2
  <2> QED BY <2>1, <2>2, <2>3
<1>5. Held(out \o more, held2) = g
  <2>1. CtrlA \in Byte
    BY DEF Byte, Keys
  <2>2. CASE held2
    <3>1. out \o more \in Seq(Byte) /\ <<CtrlA>> \in Seq(Byte)
      BY <2>1, ConcatProperties
    <3>2. Append(out \o more, CtrlA) = (out \o more) \o <<CtrlA>>
      BY <2>1, <3>1, AppendIsConcat
    <3>3. Append(more, CtrlA) = more \o <<CtrlA>>
      BY <2>1, AppendIsConcat
    <3>4. (out \o more) \o <<CtrlA>> = out \o (more \o <<CtrlA>>)
      BY <3>1, ConcatAssociative
    <3> QED BY <2>2, <3>2, <3>3, <3>4 DEF Held
  <2>3. CASE ~ held2
    BY <2>3 DEF Held
  <2> QED BY <2>2, <2>3
<1>6. /\ t \in Seq(Keys) /\ Len(t) = k + n
      /\ \A i \in 1..(k + n) : t[i] = IF i <= k THEN keys[i] ELSE chunk[i - k]
  BY ConcatProperties
<1> HIDE DEF h, t
<1>7. /\ g \in Seq(Byte) /\ Len(g) = m + Len(h)
      /\ \A i \in 1..(m + Len(h)) : g[i] = IF i <= m THEN out[i] ELSE h[i - m]
  BY <1>2, ConcatProperties
<1>8. N \in Seq(Byte) /\ Len(N) = k + n /\ \A i \in 1..(k + n) : N[i] = normalize_stdin_byte(t[i])
  BY <1>6, NormalizedKeys
<1> HIDE DEF g, N, c, k, n, m
<1>9. c \in Nat /\ m + Len(h) = k + n
  BY <1>1, <1>3, <1>4
<1>10. \A i \in 1..(k + n) : N[i] = g[i]
  <2> TAKE i \in 1..(k + n)
  <2>1. CASE i <= m
    <3>1. i \in 1..m /\ i <= k
      BY <1>3, <1>4, <1>9, <2>1
    <3> QED BY <1>4, <1>6, <1>7, <1>8, <1>9, <2>1, <3>1
  <2>2. CASE ~ (i <= m) /\ i <= k
    <3>1. held /\ i = m + 1 /\ i - m = 1 /\ c = 1
      BY <1>3, <1>4, <2>2
    <3>2. N[i] = CtrlA
      BY <1>4, <1>6, <1>8, <2>2, <3>1
    <3>3. 1 \in 1..c
      BY <3>1
    <3>4. g[i] = CtrlA
      BY <1>1, <1>7, <1>9, <2>2, <3>1, <3>3
    <3> QED BY <3>2, <3>4
  <2>3. CASE ~ (i <= k)
    <3> DEFINE j == i - k
    <3>1. j \in 1..n /\ i - m = c + j /\ ~ (i <= m)
      BY <1>3, <1>4, <1>9, <2>3
    <3>2. N[i] = normalize_stdin_byte(chunk[j])
      BY <1>6, <1>8, <2>3
    <3>3. g[i] = h[c + j]
      BY <1>7, <1>9, <3>1
    <3> HIDE DEF j
    <3> QED BY <1>1, <3>1, <3>2, <3>3
  <2> QED BY <2>1, <2>2, <2>3
<1>11. N = g
  BY <1>7, <1>8, <1>9, <1>10, SeqEqual
<1> QED BY <1>5, <1>11 DEF N, t

LEMMA ReadStdinInv ==
    ASSUME StdinInv, NEW chunk \in Chunks, ReadStdin(chunk)
    PROVE  StdinInv'
<1> DEFINE f == process_stdin_chunk_for_detach(chunk, pending)
           h == Held(f.out, f.pending)
           c == Len(Held(<<>>, pending))
<1>1. chunk \in Seq(Keys)
  BY ClientAssumption DEF Chunks
<1>2. /\ stdin = "reading" /\ pending \in BOOLEAN /\ typed \in Seq(Keys)
      /\ forwarded \in Seq(Byte) /\ ~ HasHotkey(typed) /\ (pending <=> EndsInCtrlA(typed))
      /\ Normalized(typed) = Held(forwarded, pending) /\ IsForwarded(forwarded, typed)
      /\ MaxTyped \in Nat
  BY ClientAssumption DEF StdinInv, ReadStdin
<1>3. /\ f \in Acc /\ (f.detach <=> HasHotkey(typed \o chunk))
      /\ ~ f.detach =>
           /\ f.pending <=> EndsInCtrlA(typed \o chunk)
           /\ Len(h) = c + Len(chunk)
           /\ \A j \in 1..c : h[j] = CtrlA
           /\ \A j \in 1..Len(chunk) : h[c + j] = normalize_stdin_byte(chunk[j])
  BY <1>1, <1>2, FilterChunk
<1>4. /\ typed' = typed \o chunk /\ pending' = f.pending
      /\ Len(typed) + Len(chunk) <= MaxTyped
      /\ \/ f.detach /\ stdin' = "hotkey" /\ forwarded' = forwarded
         \/ ~ f.detach /\ stdin' = stdin /\ forwarded' = forwarded \o f.out
         \/ ~ f.detach /\ stdin' = "ended" /\ forwarded' = forwarded
  BY DEF ReadStdin
<1> HIDE DEF f
<1>5. f.out \in Seq(Byte) /\ f.pending \in BOOLEAN /\ pending' \in BOOLEAN
  BY <1>3, <1>4 DEF Acc
<1>6. typed' \in Seq(Keys) /\ Len(typed') <= MaxTyped
  <2>1. typed \o chunk \in Seq(Keys) /\ Len(typed \o chunk) = Len(typed) + Len(chunk)
    BY <1>1, <1>2, ConcatProperties
  <2> QED BY <1>4, <2>1
<1>7. IsForwarded(forwarded, typed')
  BY <1>1, <1>2, <1>4, MoreTyped
<1>8. CASE f.detach /\ stdin' = "hotkey" /\ forwarded' = forwarded
  BY <1>2, <1>3, <1>4, <1>5, <1>6, <1>7, <1>8 DEF StdinInv, IsForwarded
<1>9. CASE ~ f.detach /\ stdin' = stdin /\ forwarded' = forwarded \o f.out
  <2>1. forwarded' \in Seq(Byte)
    BY <1>2, <1>5, <1>9, ConcatProperties
  <2>2. Normalized(typed \o chunk) = Held(forwarded \o f.out, f.pending)
    <3>1. Passes(h, c, chunk)
      BY <1>3, <1>9 DEF Passes
    <3> QED BY <1>1, <1>2, <1>5, <3>1, ForwardChunk
  <2>3. Normalized(typed') = Held(forwarded', pending')
    BY <1>4, <1>9, <2>2
  <2>4. IsForwarded(forwarded', typed')
    BY <1>5, <1>6, <2>1, <2>3, HeldIsForwarded
  <2>5. ~ HasHotkey(typed') /\ (pending' <=> EndsInCtrlA(typed'))
    BY <1>3, <1>4, <1>9
  <2>6. stdin' = "reading"
    BY <1>2, <1>9
  <2> QED BY <1>5, <1>6, <2>1, <2>3, <2>4, <2>5, <2>6
          DEF StdinInv, IsForwarded, HasHotkey, EndsInCtrlA, Normalized, Held
<1>10. CASE ~ f.detach /\ stdin' = "ended" /\ forwarded' = forwarded
  BY <1>2, <1>3, <1>4, <1>5, <1>6, <1>7, <1>10 DEF StdinInv, IsForwarded
<1> QED BY <1>4, <1>8, <1>9, <1>10

LEMMA StdinEofInv == ASSUME StdinInv, StdinEof PROVE StdinInv'
<1>1. /\ stdin = "reading" /\ stdin' = "ended" /\ pending' = FALSE /\ typed' = typed
      /\ forwarded' \in {forwarded, Held(forwarded, pending)}
  BY DEF StdinEof, Held
<1>2. /\ pending \in BOOLEAN /\ typed \in Seq(Keys) /\ forwarded \in Seq(Byte)
      /\ Normalized(typed) = Held(forwarded, pending)
  BY <1>1 DEF StdinInv
<1>3. IsForwarded(forwarded', typed) /\ forwarded' \in Seq(Byte)
  BY <1>1, <1>2, HeldIsForwarded, HeldProperties
<1> QED BY <1>1, <1>2, <1>3 DEF StdinInv, IsForwarded, HasHotkey

LEMMA StdinFrame == ASSUME StdinInv, UNCHANGED stdinVars PROVE StdinInv'
  BY DEF StdinInv, IsForwarded, HasHotkey, EndsInCtrlA, Normalized, Held, stdinVars

LEMMA FaithfulStdin == StdinInv => StdinIsFaithful
<1> SUFFICES ASSUME StdinInv PROVE StdinIsFaithful
  OBVIOUS
<1>1. /\ pending \in BOOLEAN /\ typed \in Seq(Keys) /\ forwarded \in Seq(Byte)
      /\ IsForwarded(forwarded, typed)
  BY DEF StdinInv
<1>2. (stdin = "hotkey") = HasHotkey(typed)
  BY DEF StdinInv, HasHotkey
<1>3. ASSUME stdin = "reading"
      PROVE  Normalized(typed) = forwarded \o (IF pending THEN <<CtrlA>> ELSE <<>>)
  <2>1. Normalized(typed) = Held(forwarded, pending)
    BY <1>3 DEF StdinInv
  <2>2. CASE pending
    <3>1. CtrlA \in Byte
      BY DEF Byte, Keys
    <3>2. Append(forwarded, CtrlA) = forwarded \o <<CtrlA>>
      BY <1>1, <3>1, AppendIsConcat
    <3> QED BY <2>1, <2>2, <3>2 DEF Held
  <2>3. CASE ~ pending
    <3>1. forwarded \o <<>> = forwarded
      BY <1>1, ConcatEmptySeq
    <3> QED BY <2>1, <2>3, <3>1 DEF Held
  <2> QED BY <2>2, <2>3
<1>4. forwarded = SubSeq(Normalized(typed), 1, Len(forwarded))
  <2> DEFINE N == Normalized(typed)
             k == Len(forwarded)
             s == SubSeq(N, 0 + 1, k)
  <2>1. /\ N \in Seq(Byte) /\ Len(N) = Len(typed)
        /\ \A i \in 1..Len(typed) : N[i] = normalize_stdin_byte(typed[i])
    BY <1>1, NormalizedKeys
  <2>2. /\ k \in Nat /\ k <= Len(typed) /\ 0 <= k /\ Len(typed) \in Nat
        /\ \A i \in 1..k : forwarded[i] = normalize_stdin_byte(typed[i])
    BY <1>1 DEF IsForwarded
  <2> HIDE DEF N
  <2>3. s \in Seq(Byte) /\ Len(s) = k - 0 /\ \A i \in 1..(k - 0) : s[i] = N[0 + i]
    BY <2>1, <2>2, SliceProperties
  <2> HIDE DEF s
  <2>4. Len(s) = k /\ \A i \in 1..k : s[i] = forwarded[i]
    BY <2>1, <2>2, <2>3
  <2>5. s = forwarded
    BY <1>1, <2>3, <2>4, SeqEqual
  <2> QED BY <2>5 DEF s, N
<1> QED BY <1>2, <1>3, <1>4 DEF StdinIsFaithful

----------------------------------------------------------------------------
(* The phases of run_session and the tasks it has spawned *)

\* A task sends at most once to the control_tx channel, as it ends.
Spoken(task) == IF task = "ended" THEN 1 ELSE 0

PhaseOK ==
    /\ pc \in {"setup", "accept", "spawned", "select", "send_detach",
               "send_close", "teardown", "grace", "done"}
    /\ result \in {None, "Ok", "Closed", "Disconnected", "Protocol", "Io"}
    /\ net \in {"up", "lost", "closed", "ended"}
    /\ wire \in SUBSET {"DETACH", "CLOSE"}
    /\ ipc \in {"none", "listen", "reading", "sending", "notify", "done"}
    /\ socket \in BOOLEAN

\* No task runs before the server's stream was accepted, and the channel never
\* holds more than one signal of each task that has ended.
TaskOK ==
    /\ watch \in {"none", "reading", "ended"}
    /\ read \in {"none", "reading", "ended", "broken"}
    /\ signals \in Seq(ControlSignal)
    /\ Len(signals) <= Spoken(watch) + Spoken(read)
    /\ pc \in {"setup", "accept"} => watch = "none" /\ read = "none" /\ stdin = "none"

RunInv == PhaseOK /\ TaskOK /\ StdinInv

LEMMA NextPhaseOK == PhaseOK /\ [Next]_vars => PhaseOK'
<1> SUFFICES ASSUME PhaseOK, [Next]_vars PROVE PhaseOK'
  OBVIOUS
<1> USE DEF PhaseOK, mainVars, ipcVars
<1>1. CASE Setup \/ AcceptFails \/ AcceptStream \/ EnterSelect
  <2>1. CASE Setup
    BY <2>1 DEF Setup, Return
  <2>2. CASE AcceptFails
    BY <2>2 DEF AcceptFails, Return
  <2>3. CASE AcceptStream \/ EnterSelect
    BY <2>3 DEF AcceptStream, EnterSelect
  <2> QED BY <1>1, <2>1, <2>2, <2>3
<1>2. CASE SelectDetach \/ SelectClose \/ SelectError \/ SelectDisconnected
              \/ SelectStreamClosed
  <2>1. CASE SelectDetach
    BY <2>1 DEF SelectDetach
  <2>2. CASE SelectClose
    BY <2>2 DEF SelectClose
  <2>3. CASE SelectError
    BY <2>3 DEF SelectError, Return
  <2>4. CASE SelectDisconnected
    BY <2>4 DEF SelectDisconnected
  <2>5. CASE SelectStreamClosed
    BY <2>5 DEF SelectStreamClosed
  <2> QED BY <1>2, <2>1, <2>2, <2>3, <2>4, <2>5
<1>3. CASE SendClose
  BY <1>3 DEF SendClose, Return
<1>4. CASE SendDetach
  BY <1>4 DEF SendDetach, Return
<1>5. CASE Teardown \/ GraceEnds
  <2>1. /\ net' \in {net, "ended"} /\ socket' \in {socket, FALSE} /\ UNCHANGED <<wire, ipc>>
        /\ pc' \in {"grace", "done"} /\ result' \in {result, "Ok", "Disconnected"}
    BY <1>5 DEF Teardown, GraceEnds, Return
  <2> QED BY <2>1
<1>6. CASE DetachCmd \/ (\E valid \in BOOLEAN : IpcRead(valid)) \/ IpcNotify
  <2>1. /\ UNCHANGED <<mainVars, net, wire, socket>>
        /\ ipc' \in {"reading", "sending", "listen", "done"}
    BY <1>6 DEF DetachCmd, IpcRead, IpcNotify
  <2> QED BY <2>1
<1>7. CASE IpcSend
  BY <1>7 DEF IpcSend
<1>8. CASE (\E chunk \in Chunks : ReadStdin(chunk)) \/ StdinEof
  <2>1. UNCHANGED <<mainVars, net, wire, ipcVars, socket>>
    BY <1>8 DEF ReadStdin, StdinEof
  <2> QED BY <2>1
<1>9. CASE ReadEof \/ ReadLost \/ LocalStdoutFails \/ WatchLost
              \/ (\E frame \in {"CLOSE", "other"} : WatchFrame(frame))
  <2>1. UNCHANGED <<mainVars, net, wire, ipcVars, socket>>
    BY <1>9 DEF ReadEof, ReadLost, LocalStdoutFails, WatchLost, WatchFrame
  <2> QED BY <2>1
<1>10. CASE ConnLost \/ ServerCloses
  BY <1>10 DEF ConnLost, ServerCloses
<1>11. CASE UNCHANGED vars
  BY <1>11 DEF vars
<1> QED
  BY <1>1, <1>2, <1>3, <1>4, <1>5, <1>6, <1>7, <1>8, <1>9, <1>10, <1>11
     DEF Next, Main

\* A task that ends may send: the channel then holds one signal more.
LEMMA OneSignalMore ==
    ASSUME signals \in Seq(ControlSignal), NEW s \in ControlSignal
    PROVE  /\ Append(signals, s) \in Seq(ControlSignal)
           /\ Len(Append(signals, s)) = Len(signals) + 1
  BY AppendProperties

\* run_session takes one.
LEMMA OneSignalLess ==
    ASSUME signals \in Seq(ControlSignal), signals # <<>>
    PROVE  /\ Tail(signals) \in Seq(ControlSignal)
           /\ Len(Tail(signals)) = Len(signals) - 1
  BY HeadTailProperties

LEMMA NextTaskOK == TaskOK /\ [Next]_vars => TaskOK'
<1> SUFFICES ASSUME TaskOK, [Next]_vars PROVE TaskOK'
  OBVIOUS
<1> USE DEF TaskOK, mainVars, taskVars, stdinVars, Spoken
<1>0. Len(signals) \in Nat
  OBVIOUS
<1>1. CASE Setup \/ AcceptFails \/ EnterSelect
  BY <1>1 DEF Setup, AcceptFails, EnterSelect, Return
<1>2. CASE AcceptStream
  BY <1>0, <1>2 DEF AcceptStream
<1>3. CASE SelectDetach
  BY <1>3 DEF SelectDetach
<1>4. CASE SelectClose \/ SelectError \/ SelectDisconnected \/ SelectStreamClosed
  <2>1. /\ signals' = Tail(signals) /\ signals # <<>> /\ UNCHANGED read
        /\ watch' \in {watch, "ended"} /\ pc' \notin {"setup", "accept"}
    BY <1>4 DEF SelectClose, SelectError, SelectDisconnected, SelectStreamClosed, Return
  <2>2. signals' \in Seq(ControlSignal) /\ Len(signals') = Len(signals) - 1
    BY <2>1, OneSignalLess
  <2> QED BY <1>0, <2>1, <2>2
<1>5. CASE SendClose \/ SendDetach \/ Teardown \/ GraceEnds
  <2>1. /\ UNCHANGED <<signals, read>> /\ watch' \in {watch, "ended"}
        /\ pc' \notin {"setup", "accept"}
    BY <1>5 DEF SendClose, SendDetach, Teardown, GraceEnds, Return
  <2> QED BY <1>0, <2>1
<1>6. CASE DetachCmd \/ (\E valid \in BOOLEAN : IpcRead(valid)) \/ IpcSend \/ IpcNotify
  BY <1>6 DEF DetachCmd, IpcRead, IpcSend, IpcNotify
<1>7. CASE (\E chunk \in Chunks : ReadStdin(chunk)) \/ StdinEof
  BY <1>7 DEF ReadStdin, StdinEof
<1>8. CASE ReadEof \/ ReadLost
  <2>1. /\ read = "reading" /\ read' = "ended" /\ UNCHANGED <<pc, watch, stdin>>
        /\ \E s \in {"StreamClosed", "Disconnected"} : signals' = Append(signals, s)
    BY <1>8 DEF ReadEof, ReadLost
  <2>2. signals' \in Seq(ControlSignal) /\ Len(signals') = Len(signals) + 1
    BY <2>1, OneSignalMore DEF ControlSignal
  <2> QED BY <1>0, <2>1, <2>2
<1>9. CASE \E frame \in {"CLOSE", "other"} : WatchFrame(frame)
  <2>1. /\ watch = "reading" /\ watch' = "ended" /\ UNCHANGED <<pc, read, stdin>>
        /\ \E s \in {"Close", "Error"} : signals' = Append(signals, s)
    BY <1>9 DEF WatchFrame
  <2>2. signals' \in Seq(ControlSignal) /\ Len(signals') = Len(signals) + 1
    BY <2>1, OneSignalMore DEF ControlSignal
  <2> QED BY <1>0, <2>1, <2>2
<1>10. CASE LocalStdoutFails \/ WatchLost
  BY <1>0, <1>10 DEF LocalStdoutFails, WatchLost
<1>11. CASE ConnLost \/ ServerCloses
  BY <1>11 DEF ConnLost, ServerCloses
<1>12. CASE UNCHANGED vars
  BY <1>12 DEF vars
<1> QED
  BY <1>1, <1>2, <1>3, <1>4, <1>5, <1>6, <1>7, <1>8, <1>9, <1>10, <1>11, <1>12
     DEF Next, Main

\* Nothing has been typed before the task starts.
LEMMA NothingTyped ==
    /\ ~ HasHotkey(<<>>) /\ ~ EndsInCtrlA(<<>>)
    /\ Normalized(<<>>) = Held(<<>>, FALSE) /\ IsForwarded(<<>>, <<>>)
<1>1. <<>> \in Seq(Keys) /\ <<>> \in Seq(Byte) /\ Len(<<>>) = 0
  OBVIOUS
<1>2. Normalized(<<>>) = <<>>
  BY <1>1, NormalizedKeys, EmptySeq
<1> QED BY <1>1, <1>2 DEF HasHotkey, EndsInCtrlA, Held, IsForwarded

LEMMA AcceptStdinInv ==
    ASSUME TaskOK, StdinInv, AcceptStream
    PROVE  StdinInv'
<1>1. /\ stdin = "none" /\ stdin' = "reading" /\ UNCHANGED <<pending, typed, forwarded>>
  BY DEF AcceptStream, TaskOK
<1>2. pending = FALSE /\ typed = <<>> /\ forwarded = <<>>
  BY <1>1 DEF StdinInv
<1>3. typed' = <<>> /\ forwarded' = <<>> /\ pending' = FALSE
  BY <1>1, <1>2
<1> QED BY <1>1, <1>2, <1>3, NothingTyped DEF StdinInv

LEMMA NextStdinInv == TaskOK /\ StdinInv /\ [Next]_vars => StdinInv'
<1> SUFFICES ASSUME TaskOK, StdinInv, [Next]_vars PROVE StdinInv'
  OBVIOUS
<1>1. CASE AcceptStream
  BY <1>1, AcceptStdinInv
<1>2. CASE \E chunk \in Chunks : ReadStdin(chunk)
  BY <1>2, ReadStdinInv
<1>3. CASE StdinEof
  BY <1>3, StdinEofInv
<1>4. CASE Main
  <2>1. UNCHANGED stdinVars
    BY <1>4 DEF Main, Setup, AcceptFails, EnterSelect, SelectDetach, SelectClose,
                SelectError, SelectDisconnected, SelectStreamClosed, SendClose,
                SendDetach, Teardown, GraceEnds
  <2> QED BY <2>1, StdinFrame
<1>5. CASE DetachCmd \/ (\E valid \in BOOLEAN : IpcRead(valid)) \/ IpcSend \/ IpcNotify
  <2>1. UNCHANGED stdinVars
    BY <1>5 DEF DetachCmd, IpcRead, IpcSend, IpcNotify
  <2> QED BY <2>1, StdinFrame
<1>6. CASE ReadEof \/ ReadLost \/ LocalStdoutFails \/ WatchLost
              \/ (\E frame \in {"CLOSE", "other"} : WatchFrame(frame))
              \/ ConnLost \/ ServerCloses
  <2>1. UNCHANGED stdinVars
    BY <1>6 DEF ReadEof, ReadLost, LocalStdoutFails, WatchLost, WatchFrame, ConnLost,
                ServerCloses
  <2> QED BY <2>1, StdinFrame
<1>7. CASE UNCHANGED vars
  BY <1>7, StdinFrame DEF vars
<1> QED BY <1>1, <1>2, <1>3, <1>4, <1>5, <1>6, <1>7 DEF Next

LEMMA InitRunInv == Init => RunInv
<1> SUFFICES ASSUME Init PROVE RunInv
  OBVIOUS
<1>1. PhaseOK
  BY DEF Init, PhaseOK
<1>2. TaskOK
  BY DEF Init, TaskOK, Spoken
<1>3. StdinInv
  <2>1. stdin = "none" /\ pending = FALSE /\ typed = <<>> /\ forwarded = <<>>
    BY DEF Init
  <2>2. Len(typed) <= MaxTyped /\ typed \in Seq(Keys) /\ forwarded \in Seq(Byte)
    BY <2>1, ClientAssumption
  <2>3. ~ HasHotkey(typed) /\ IsForwarded(forwarded, typed)
    BY <2>1, NothingTyped
  <2> QED BY <2>1, <2>2, <2>3 DEF StdinInv
<1> QED BY <1>1, <1>2, <1>3 DEF RunInv

\* The inductive invariant of the phases, the control_tx channel and the stdin
\* task of bridge_terminal.
THEOREM RunInvHolds == Spec => []RunInv
<1>1. RunInv /\ [Next]_vars => RunInv'
  BY NextPhaseOK, NextTaskOK, NextStdinInv DEF RunInv
<1> QED BY <1>1, InitRunInv, PTL DEF Spec

\* Whatever the user types and however the terminal cuts it into chunks, the
\* stdin task of bridge_terminal sees the detach hotkey exactly if it was typed,
\* and until then writes every byte in order, holding back at most one Ctrl-a.
THEOREM StdinIsAlwaysFaithful == Spec => []StdinIsFaithful
<1>1. RunInv => StdinIsFaithful
  BY FaithfulStdin DEF RunInv
<1> QED BY <1>1, RunInvHolds, PTL

\* The types of the attached client; among them that the control_tx channel,
\* which run_session stops draining once it has left the select!, never holds
\* more than two signals.
THEOREM ClientTypeCorrect == Spec => []TypeOK
<1>1. IInv /\ RunInv => TypeOK
  <2> SUFFICES ASSUME IInv, RunInv PROVE TypeOK
    OBVIOUS
  <2>1. Len(signals) \in Nat /\ Len(signals) <= 2
    BY DEF RunInv, TaskOK, Spoken
  <2>2. disconnected \in BOOLEAN /\ cached \in BOOLEAN /\ flag \in BOOLEAN
          /\ asked \in BOOLEAN /\ woken \in BOOLEAN
    BY DEF IInv, Booleans
  <2> QED BY <2>1, <2>2 DEF TypeOK, RunInv, PhaseOK, TaskOK, StdinInv, Byte
<1> QED BY <1>1, IInvHolds, RunInvHolds, PTL

=============================================================================
