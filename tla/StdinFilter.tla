---------------------------- MODULE StdinFilter ----------------------------
(***************************************************************************)
(* process_stdin_chunk_for_detach and normalize_stdin_byte of              *)
(* src/bin/neosh.rs: how the client looks for Ctrl-a d in what the         *)
(* terminal hands it in chunks of any size.  Bytes are reduced to the ones *)
(* the filter tells apart; CtrlH and Del are the two erase characters.     *)
(***************************************************************************)
EXTENDS Naturals, Sequences

CtrlA == "^A"
Del   == "DEL"
CtrlH == "^H"

Keys == {CtrlA, CtrlH, "d"}          \* "d" stands for d and D

normalize_stdin_byte(b) == IF b = CtrlH THEN Del ELSE b

\* One turn of the loop over the chunk; after `detach` nothing is looked at.
filter_byte(acc, b) ==
    IF acc.detach THEN acc
    ELSE IF acc.pending /\ b = "d"
         THEN [acc EXCEPT !.detach = TRUE, !.pending = FALSE]
    ELSE LET out == IF acc.pending THEN Append(acc.out, CtrlA) ELSE acc.out IN
         IF b = CtrlA
         THEN [acc EXCEPT !.out = out, !.pending = TRUE]
         ELSE [acc EXCEPT !.out = Append(out, normalize_stdin_byte(b)),
                          !.pending = FALSE]

\* The locals of the loop after each byte of the chunk.
filter_bytes(chunk, pending) ==
    LET after[i \in 0..Len(chunk)] ==
          IF i = 0 THEN [detach |-> FALSE, out |-> <<>>, pending |-> pending]
                   ELSE filter_byte(after[i - 1], chunk[i])
    IN  after

\* Mutant: a Ctrl-a at the end of a chunk is forgotten.
process_stdin_chunk_for_detach_PerChunk(chunk, pending) ==
    filter_bytes(chunk, FALSE)[Len(chunk)]

process_stdin_chunk_for_detach(chunk, pending) ==
    filter_bytes(chunk, pending)[Len(chunk)]

----------------------------------------------------------------------------
(* What the filter is for, said of the whole input and not chunk by chunk. *)

HasHotkey(typed) ==
    \E i \in 1..(Len(typed) - 1) : typed[i] = CtrlA /\ typed[i + 1] = "d"

Normalized(typed) == [i \in 1..Len(typed) |-> normalize_stdin_byte(typed[i])]

=============================================================================
