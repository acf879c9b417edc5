----------------------------- MODULE ChatMessage -----------------------------
(***************************************************************************)
(* The frame header of the chat programs, chat/chat_message.hpp: the       *)
(* length of the body in four characters.  The sender pads the number with *)
(* blanks; the receiver takes what atoi makes of any four bytes, puts it   *)
(* into a size_t and accepts what does not exceed the body's buffer.  The  *)
(* operators compute what decode_header and encode_header compute; a byte  *)
(* is its value.                                                           *)
(***************************************************************************)
EXTENDS Naturals, Sequences

CONSTANT
    SizeModulus    \* a size_t counts modulo this

max_body_length == 512

Header == [1..4 -> 0..255]

-----------------------------------------------------------------------------
(* The sender.                                                             *)

\* chat_message::body_length(new_length).
BodyLength(n) == IF n > max_body_length THEN max_body_length ELSE n

\* A digit of "%4d": a blank where the number and all before it is zero.
Place(n, unit) ==
    IF n < unit /\ unit > 1 THEN 32 ELSE 48 + ((n \div unit) % 10)

EncodeHeader(n) == <<Place(n, 1000), Place(n, 100), Place(n, 10), Place(n, 1)>>

-----------------------------------------------------------------------------
(* The receiver.                                                           *)

IsSpace(b) == b = 32 \/ b \in 9..13

IsDigit(b) == b \in 48..57

\* atoi skips blanks, takes a sign and then digits, and stops at the first
\* byte that is none; the zero at which strncat stops is such a byte.
Start == [at |-> "blanks", sign |-> "plus", value |-> 0]

Read(n, b) ==
    IF n.at = "blanks" /\ IsSpace(b) THEN n
    ELSE IF n.at = "blanks" /\ b \in {43, 45} THEN
        [n EXCEPT !.at = "digits", !.sign = IF b = 45 THEN "minus" ELSE "plus"]
    ELSE IF n.at # "end" /\ IsDigit(b) THEN
        [n EXCEPT !.at = "digits", !.value = @ * 10 + (b - 48)]
    ELSE
        [n EXCEPT !.at = "end"]

Atoi(h) == Read(Read(Read(Read(Start, h[1]), h[2]), h[3]), h[4])

\* The int as a size_t: a negative one wraps around.
AsSize(sign, value) ==
    IF sign = "minus" /\ value # 0 THEN SizeModulus - value ELSE value

\* What decode_header returns, and the body_length_ it leaves.
DecodeHeader(h) ==
    LET n == Atoi(h)
        length == AsSize(n.sign, n.value)
    IN  IF length > max_body_length
        THEN [accepted |-> FALSE, length |-> 0]
        ELSE [accepted |-> TRUE, length |-> length]
=============================================================================
