---------------------------- MODULE RequestGrammar ----------------------------
(***************************************************************************)
(* What the request parser of the HTTP servers accepts, stated of a whole  *)
(* text at once instead of byte by byte, and what request a text stands    *)
(* for.  The text is taken apart into lines, each of which has a form of   *)
(* its own.                                                                *)
(***************************************************************************)
EXTENDS Naturals, Sequences, FiniteSets, SequencesExt

\* One byte for each class that the grammar tells apart; "HI" is a byte
\* above 127.
Byte == {"H", "T", "P", "1", ".", "/", ":", "SP", "HT", "CR", "LF", "NUL", "HI"}

Token == {"H", "T", "P", "1", "."}

\* What a URI is made of; with a space, also what a header value is made of.
Visible == Token \cup {"/", ":", "HI"}

Blank == {"SP", "HT"}

-----------------------------------------------------------------------------
(* Lines.  A line ends with CR LF, and neither byte occurs elsewhere.      *)

\* The numbers of a finite set in ascending order.
Ascending(S) ==
    [k \in 1..Cardinality(S) |->
        CHOOSE n \in S : Cardinality({m \in S : m <= n}) = k]

LineEnds(s) == {i \in 1..Len(s) : s[i] = "CR"}

EndsAreWhole(s) ==
    \A i \in 1..Len(s) + 1 :
        (i \in DOMAIN s /\ s[i] = "LF") <=> (i - 1 \in LineEnds(s))

LinesOf(s) ==
    LET ends == Ascending(LineEnds(s))
        Begin(k) == IF k = 1 THEN 1 ELSE ends[k - 1] + 2
    IN  [k \in 1..Len(ends) |-> SubSeq(s, Begin(k), ends[k] - 1)]

AllIn(l, from, to, bytes) == \A i \in from..to : l[i] \in bytes

\* The first position of b in l, or 0.
Position(l, b) ==
    LET at == {i \in 1..Len(l) : l[i] = b}
    IN  IF at = {} THEN 0 ELSE CHOOSE i \in at : \A j \in at : i <= j

-----------------------------------------------------------------------------
(* The forms of the lines.                                                 *)

\* method SP URI SP HTTP/digits.digits; the URI may be empty.
RequestLine(l, i, j) ==
    /\ 1 < i /\ i < j
    /\ l[i] = "SP" /\ AllIn(l, 1, i - 1, Token)
    /\ l[j] = "SP" /\ AllIn(l, i + 1, j - 1, Visible)

Version(v, dot) ==
    /\ 6 < dot /\ dot < Len(v)
    /\ SubSeq(v, 1, 5) = <<"H", "T", "T", "P", "/">>
    /\ v[dot] = "." /\ \A i \in 6..Len(v) : i # dot => v[i] = "1"

IsRequestLine(l) ==
    \E i, j \in 1..Len(l) :
        /\ RequestLine(l, i, j)
        /\ LET v == SubSeq(l, j + 1, Len(l)) IN \E dot \in 1..Len(v) : Version(v, dot)

\* name: SP value, with a single space before the value.
IsHeader(l) ==
    LET colon == Position(l, ":")
    IN  /\ 1 < colon /\ colon < Len(l)
        /\ AllIn(l, 1, colon - 1, Token)
        /\ l[colon + 1] = "SP"
        /\ AllIn(l, colon + 2, Len(l), Visible \cup {"SP"})

\* The first position of a continuation line that is not blank.
Indent(l) ==
    CHOOSE i \in 1..Len(l) + 1 :
        AllIn(l, 1, i - 1, Blank) /\ (i <= Len(l) => l[i] \notin Blank)

IsContinuation(l) ==
    /\ l # <<>> /\ l[1] \in Blank
    /\ AllIn(l, Indent(l), Len(l), Visible \cup {"SP"})

\* A request line, headers that may be continued, and an empty line.
Valid(s) ==
    LET lines == LinesOf(s)
        n     == Len(lines)
    IN  /\ EndsAreWhole(s)
        /\ n >= 2
        /\ s[Len(s)] = "LF"
        /\ IsRequestLine(lines[1])
        /\ \A k \in 2..n - 1 :
               IsHeader(lines[k]) \/ (k > 2 /\ IsContinuation(lines[k]))
        /\ lines[n] = <<>>

-----------------------------------------------------------------------------
(* What a valid text stands for.                                           *)

\* The number that n digits 1 are.
Ones(n) ==
    LET ones[k \in 0..n] == IF k = 0 THEN 0 ELSE 10 * ones[k - 1] + 1 IN ones[n]

\* The name and the value in the line of a header, and what a line that
\* continues it adds to the value.
NameOf(l) == SubSeq(l, 1, Position(l, ":") - 1)

ValueOf(l) == SubSeq(l, Position(l, ":") + 2, Len(l))

Unindented(l) == SubSeq(l, Indent(l), Len(l))

\* The last of the lines that continue the header in line k.
LastOf(lines, k) ==
    CHOOSE m \in k..Len(lines) :
        /\ \A j \in k + 1..m : IsContinuation(lines[j])
        /\ m = Len(lines) \/ ~IsContinuation(lines[m + 1])

HeaderAt(lines, k) ==
    [ name  |-> NameOf(lines[k]),
      value |-> ValueOf(lines[k])
                  \o FlattenSeq([i \in 1..LastOf(lines, k) - k |-> Unindented(lines[k + i])]) ]

HeadersOf(lines) ==
    LET heads == Ascending({k \in 2..Len(lines) : IsHeader(lines[k])})
    IN  [h \in 1..Len(heads) |-> HeaderAt(lines, heads[h])]

Meaning(s) ==
    LET l   == LinesOf(s)[1]
        sp  == Position(l, "SP")
        uri == SubSeq(l, sp + 1, Len(l))
        v   == SubSeq(uri, Position(uri, "SP") + 1, Len(uri))
        dot == Position(v, ".")
    IN  [ method  |-> SubSeq(l, 1, sp - 1),
          uri     |-> SubSeq(uri, 1, Position(uri, "SP") - 1),
          major   |-> Ones(dot - 6),
          minor   |-> Ones(Len(v) - dot),
          headers |-> HeadersOf(LinesOf(s)) ]

\* A short valid text; whatever can still become valid does so by a tail of it.
Shortest ==
    <<"H", "SP", "SP", "H", "T", "T", "P", "/", "1", ".", "1", "CR", "LF",
      "H", ":", "SP", "CR", "LF", "CR", "LF">>

CanBecomeValid(s) ==
    \E i \in 1..Len(Shortest) : Valid(s \o SubSeq(Shortest, i, Len(Shortest)))
=============================================================================
