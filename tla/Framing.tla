------------------------------ MODULE Framing ------------------------------
(***************************************************************************)
(* src/protocol/framing.rs: a control frame is the length of its payload   *)
(* and the payload.  The stream is a sequence of units in 0..Base-1; the   *)
(* four bytes of the length are two units, the fewest that can be torn.    *)
(***************************************************************************)
EXTENDS Naturals, Sequences

CONSTANTS
    Base,        \* values of a unit (256)
    MaxFrame     \* MAX_CONTROL_FRAME

\* One unit more than the largest frame still has a length the header can say:
\* 64 KiB against the 4 GiB of a u32.
ASSUME FramingAssumption == Base \in Nat \ {0, 1} /\ MaxFrame \in 0..(Base * Base - 2)

HeaderLen == 2

\* Mutant: the least significant unit first.
to_be_bytes_Little(n) == <<n % Base, n \div Base>>

to_be_bytes(n) == <<n \div Base, n % Base>>

from_be_bytes(h) == h[1] * Base + h[2]

\* The length is cut to the width of the header, as `as u32` does.
encode_frame(payload) == to_be_bytes(Len(payload) % (Base * Base)) \o payload

decode_error(buf, max) ==
    IF Len(buf) < HeaderLen THEN "TooShort"
    ELSE IF from_be_bytes(buf) > max THEN "TooLarge"
    ELSE IF Len(buf) # HeaderLen + from_be_bytes(buf) THEN "LengthMismatch"
    ELSE "Ok"

decode_frame(buf) == SubSeq(buf, HeaderLen + 1, Len(buf))

\* What a stream is: the frames of these payloads, one after the other, the i-th
\* one ending at unit end[i].
Carries(stream, payloads) ==
    \E end \in [0..Len(payloads) -> 0..Len(stream)] :
        /\ end[0] = 0 /\ end[Len(payloads)] = Len(stream)
        /\ \A i \in 1..Len(payloads) :
             LET frame == encode_frame(payloads[i]) IN
             /\ end[i] = end[i - 1] + Len(frame)
             /\ \A j \in 1..Len(frame) : stream[end[i - 1] + j] = frame[j]

=============================================================================
