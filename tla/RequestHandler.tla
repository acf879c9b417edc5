--------------------------- MODULE RequestHandler ---------------------------
(***************************************************************************)
(* What the HTTP servers do with a request that parses: url_decode, one    *)
(* iteration of its loop at a time, and the choice of the reply.  The four *)
(* servers have the same code, server 4 in file_handler.                   *)
(*                                                                         *)
(* A text is a sequence of bytes.  The file system is a set of names.      *)
(***************************************************************************)
EXTENDS Integers, Sequences

CONSTANTS
    Uris,        \* the request targets that are tried
    Openable     \* the names below doc_root_ that ifstream opens

VARIABLES
    uri,         \* request::uri
    i,           \* url_decode's i: how much of it has been looked at
    path,        \* request_path, url_decode's out
    at,          \* where handle_request is
    reply        \* the reply

vars == <<uri, i, path, at, reply>>

Percent == 37
Plus    == 43
Minus   == 45
Dot     == 46
Slash   == 47
Space   == 32

IndexHtml == <<105, 110, 100, 101, 120, 46, 104, 116, 109, 108>>

HexDigit == 48..57 \cup 65..70 \cup 97..102

HexValue(b) ==
    CASE b \in 48..57  -> b - 48
      [] b \in 65..70  -> b - 55
      [] b \in 97..102 -> b - 87

-----------------------------------------------------------------------------
(* url_decode.                                                             *)

Blank == 9..13 \cup {Space}

\* The number, if any, that "is >> std::hex >> value" reads from two bytes:
\* blanks are skipped, then come an optional sign and as many digits as there
\* are.  What follows them stays in the stream.
ReadHex(a, b) ==
    CASE a \in HexDigit /\ b \in HexDigit -> {16 * HexValue(a) + HexValue(b)}
      [] a = 48 /\ b \in {88, 120}        -> {}    \* only the prefix "0x"
      [] a \in HexDigit /\ b \notin HexDigit \cup {88, 120} -> {HexValue(a)}
      [] a \in HexDigit \ {48} /\ b \in {88, 120}           -> {HexValue(a)}
      [] a \in Blank \cup {Plus} /\ b \in HexDigit          -> {HexValue(b)}
      [] a = Minus /\ b \in HexDigit                        -> {-HexValue(b)}
      [] OTHER                                              -> {}

\* What the two bytes behind a % come to, if they are there.
Escape == IF i + 3 <= Len(uri) THEN ReadHex(uri[i + 2], uri[i + 3]) ELSE {}

Decoding == at = "decode" /\ i < Len(uri)

DecodePlain ==
    /\ Decoding /\ uri[i + 1] # Percent
    /\ path' = Append(path, IF uri[i + 1] = Plus THEN Space ELSE uri[i + 1])
    /\ i' = i + 1
    /\ UNCHANGED <<uri, at, reply>>

\* static_cast<char> keeps the lowest eight bits of the value.
DecodeEscape ==
    /\ Decoding /\ uri[i + 1] = Percent
    /\ \E value \in Escape : path' = Append(path, value % 256)
    /\ i' = i + 3
    /\ UNCHANGED <<uri, at, reply>>

Answer(status, name, extension) ==
    /\ at' = "done"
    /\ reply' = [status |-> status, name |-> name, extension |-> extension]

RefuseEncoding ==
    /\ Decoding /\ uri[i + 1] = Percent /\ Escape = {}
    /\ Answer("bad_request", <<>>, <<>>)
    /\ UNCHANGED <<uri, i, path>>

-----------------------------------------------------------------------------
(* handle_request.                                                         *)

Decoded == at = "decode" /\ i = Len(uri)

Acceptable(p) ==
    /\ p # <<>> /\ p[1] = Slash
    /\ ~\E k \in 1..(Len(p) - 1) : p[k] = Dot /\ p[k + 1] = Dot

RefusePath ==
    /\ Decoded /\ ~Acceptable(path)
    /\ Answer("bad_request", <<>>, <<>>)
    /\ UNCHANGED <<uri, i, path>>

\* A directory stands for its index.
WithIndex(p) == IF p[Len(p)] = Slash THEN p \o IndexHtml ELSE p

\* What follows the last dot, unless a slash comes later.
Extension(p) ==
    LET dots == {k \in 1..Len(p) : p[k] = Dot /\ \A l \in k..Len(p) : p[l] # Slash}
    IN  IF dots = {} THEN <<>>
        ELSE LET last == CHOOSE k \in dots : \A l \in dots : l <= k
             IN  SubSeq(p, last + 1, Len(p))

\* The name that c_str() gives to the file system ends before a zero byte.
CString(p) ==
    LET ends == {k \in 0..Len(p) : k = Len(p) \/ p[k + 1] = 0}
    IN  SubSeq(p, 1, CHOOSE k \in ends : \A l \in ends : k <= l)

OpenFile ==
    /\ Decoded /\ Acceptable(path)
    /\ path' = WithIndex(path)
    /\ IF CString(path') \in Openable
       THEN Answer("ok", CString(path'), Extension(path'))
       ELSE Answer("not_found", <<>>, <<>>)
    /\ UNCHANGED <<uri, i>>

-----------------------------------------------------------------------------
Init ==
    /\ uri \in Uris
    /\ i = 0
    /\ path = <<>>
    /\ at = "decode"
    /\ reply = [status |-> "none", name |-> <<>>, extension |-> <<>>]

Next == DecodePlain \/ DecodeEscape \/ RefuseEncoding \/ RefusePath \/ OpenFile

Spec == Init /\ [][Next]_vars

-----------------------------------------------------------------------------
(* Properties.                                                             *)

\* A % and two hexadecimal digits stand for a byte, and a % for nothing else.
ValidEncoding(u) ==
    \A k \in 1..Len(u) : u[k] = Percent =>
        k + 2 <= Len(u) /\ u[k + 1] \in HexDigit /\ u[k + 2] \in HexDigit

\* "Returns false if the encoding was invalid" (url_decode): a request whose
\* target is not validly encoded is refused.
InvalidIsRefused == at = "done" /\ ~ValidEncoding(uri) => reply.status = "bad_request"

\* The loop of url_decode stays within the text and makes no more bytes than
\* it has read, also if a % is among the last two.
StaysInside == i \in 0..Len(uri) /\ (at = "decode" => Len(path) <= i)

\* The converse of InvalidIsRefused: url_decode returns false only for
\* encodings that are invalid.
OnlyInvalidIsRefused ==
    at = "decode" /\ i < Len(uri) /\ uri[i + 1] = Percent /\ Escape = {}
        => ~ValidEncoding(uri)

\* A target without % and + is used as it is.
PlainIsKept ==
    at = "decode" /\ (\A k \in 1..Len(uri) : uri[k] \notin {Percent, Plus})
        => path = SubSeq(uri, 1, i)
=============================================================================
