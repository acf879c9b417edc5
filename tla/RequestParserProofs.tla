-------------------------- MODULE RequestParserProofs --------------------------
(***************************************************************************)
(* What is proved of the parser for texts of any length, with any number   *)
(* of detours: that it adds to headers.back() only when there is a header, *)
(* that it accepts exactly the texts of the grammar, that it gives its     *)
(* verdict with the first byte that decides, and that the request it puts  *)
(* together is the one that the text stands for.                           *)
(***************************************************************************)
EXTENDS RequestParser, FiniteSetTheorems, TLAPS

Header == [name : Seq(Byte), value : Seq(Byte)]

Request == [method : Seq(Byte), uri : Seq(Byte), major : Nat, minor : Nat,
            headers : Seq(Header)]

LiteralStates ==
    {"http_version_h", "http_version_t_1", "http_version_t_2", "http_version_p",
     "expecting_newline_1", "space_before_header_value", "expecting_newline_2"}

\* request_parser::state.
States ==
    LiteralStates \cup
      {"method_start", "method", "uri", "http_version_slash",
       "http_version_major_start", "http_version_major",
       "http_version_minor_start", "http_version_minor", "header_line_start",
       "header_lws", "header_name", "header_value", "expecting_newline_3"}

\* The states that add to the last header, and those that lead to them.
NeedsHeader ==
    {"header_lws", "header_name", "header_value", "space_before_header_value",
     "expecting_newline_2"}

\* A state and a request that consume may be called with, or leave behind.
Fits(st, req) ==
    /\ st \in States
    /\ req \in Request
    /\ st \in NeedsHeader => req.headers # <<>>

\* The inductive invariant: TypeOK with the types of the request, without
\* which nothing could be said of its last header.
IInv ==
    /\ Fits(state, request)
    /\ result \in {"good", "bad", "indeterminate"}
    /\ input \in Seq(Byte)
    /\ detours \in 0..MaxDetours

-----------------------------------------------------------------------------
(* What consume does to the request.                                       *)

LEMMA LiteralDomain == DOMAIN Literal = LiteralStates
BY DEF Literal, LiteralStates

\* Of the states that let a single byte pass only one leads to a state that
\* needs a header, and it needs one itself.
LEMMA LiteralLeads ==
    ASSUME NEW st \in LiteralStates
    PROVE  \/ Literal[st][2] \in States \ NeedsHeader
           \/ Literal[st][2] = "header_value" /\ st \in NeedsHeader
<1>1. /\ Literal.http_version_h[2] = "http_version_t_1"
      /\ Literal.http_version_t_1[2] = "http_version_t_2"
      /\ Literal.http_version_t_2[2] = "http_version_p"
      /\ Literal.http_version_p[2] = "http_version_slash"
      /\ Literal.expecting_newline_1[2] = "header_line_start"
      /\ Literal.space_before_header_value[2] = "header_value"
      /\ Literal.expecting_newline_2[2] = "header_line_start"
  BY DEF Literal
<1> QED
  BY <1>1 DEF LiteralStates, States, NeedsHeader

\* A new header makes the sequence of headers one longer.
LEMMA HeaderIsAdded ==
    ASSUME NEW req \in Request, NEW b \in Byte
    PROVE  /\ NewHeader(req, b) \in Request
           /\ NewHeader(req, b).headers # <<>>
<1> DEFINE header == [name |-> <<b>>, value |-> <<>>]
<1>1. header \in Header
  <2>1. <<b>> \in Seq(Byte) /\ <<>> \in Seq(Byte)
    OBVIOUS
  <2> QED
    BY <2>1 DEF Header
<1> HIDE DEF header
<1>2. Append(req.headers, header) \in Seq(Header) /\ Append(req.headers, header) # <<>>
  BY <1>1 DEF Request
<1>3. NewHeader(req, b) = [req EXCEPT !.headers = Append(req.headers, header)]
  BY DEF NewHeader, header, Request
<1> QED
  BY <1>2, <1>3 DEF Request

\* A byte more in the last header leaves the number of headers alone.
LEMMA HeaderGrows ==
    ASSUME NEW req \in Request, req.headers # <<>>, NEW b \in Byte
    PROVE  /\ AddName(req, b) \in Request /\ AddName(req, b).headers # <<>>
           /\ AddValue(req, b) \in Request /\ AddValue(req, b).headers # <<>>
<1> DEFINE hs == req.headers
           n  == Len(hs)
           longer(h) == [hs EXCEPT ![n] = h]
<1>1. hs \in Seq(Header) /\ n \in 1..Len(hs) /\ hs[n] \in Header
  BY DEF Request
<1>2. ASSUME NEW h \in Header
      PROVE  longer(h) \in Seq(Header) /\ longer(h) # <<>>
  BY <1>1
<1>3. \A h \in Header : /\ [h EXCEPT !.name = Append(@, b)] \in Header
                        /\ [h EXCEPT !.value = Append(@, b)] \in Header
  <2> SUFFICES ASSUME NEW h \in Header
               PROVE  /\ [h EXCEPT !.name = Append(@, b)] \in Header
                      /\ [h EXCEPT !.value = Append(@, b)] \in Header
    OBVIOUS
  <2>1. Append(h.name, b) \in Seq(Byte) /\ Append(h.value, b) \in Seq(Byte)
    BY DEF Header
  <2> QED
    BY <2>1 DEF Header
<1>4. /\ [hs[n] EXCEPT !.name = Append(@, b)] \in Header
      /\ [hs[n] EXCEPT !.value = Append(@, b)] \in Header
  BY <1>1, <1>3
<1>5. AddName(req, b) = [req EXCEPT !.headers = longer([hs[n] EXCEPT !.name = Append(@, b)])]
  BY Zenon DEF AddName
<1>6. AddValue(req, b) = [req EXCEPT !.headers = longer([hs[n] EXCEPT !.value = Append(@, b)])]
  BY Zenon DEF AddValue
<1> HIDE DEF longer, hs, n
<1>7. \A l \in Seq(Header) :
         /\ [req EXCEPT !.headers = l] \in Request
         /\ [req EXCEPT !.headers = l].headers = l
  BY DEF Request
<1> QED
  BY <1>2, <1>4, <1>5, <1>6, <1>7

\* The states of the request line and of its version leave the headers
\* alone and keep the types.
LEMMA LineGrows ==
    ASSUME NEW req \in Request, NEW b \in Byte
    PROVE  /\ [req EXCEPT !.method = Append(@, b)] \in Request
           /\ [req EXCEPT !.uri = Append(@, b)] \in Request
           /\ [req EXCEPT !.major = 0, !.minor = 0] \in Request
           /\ [req EXCEPT !.major = @ * 10 + Digit(b)] \in Request
           /\ [req EXCEPT !.minor = @ * 10 + Digit(b)] \in Request
<1>1. Append(req.method, b) \in Seq(Byte) /\ Append(req.uri, b) \in Seq(Byte)
  BY DEF Request
<1>2. req.major * 10 + Digit(b) \in Nat /\ req.minor * 10 + Digit(b) \in Nat
  BY DEF Request, Digit
<1> QED
  BY <1>1, <1>2 DEF Request

\* Whatever byte comes, consume leaves a state and a request that fit.
LEMMA ConsumeFits ==
    ASSUME NEW st, NEW req, NEW b \in Byte, Fits(st, req)
    PROVE  /\ Fits(Consume(st, req, b).state, Consume(st, req, b).request)
           /\ Consume(st, req, b).result \in {"good", "bad", "indeterminate"}
<1> DEFINE Kept(a) ==
              /\ Fits(a.state, a.request)
              /\ a.result \in {"good", "bad", "indeterminate"}
<1> SUFFICES Kept(Consume(st, req, b))
  OBVIOUS
<1>1. \A s, r : Fits(s, r) => Kept(To(s, r)) /\ Kept(Good(s, r)) /\ Kept(Bad(s, r))
  BY DEF To, Good, Bad
<1>2. req \in Request /\ st \in States
  BY DEF Fits
<1>3. \A s \in States \ NeedsHeader : \A r \in Request : Fits(s, r)
  BY DEF Fits
<1>4. \A s \in States : \A r \in Request : r.headers # <<>> => Fits(s, r)
  BY DEF Fits
<1>5. Kept(Bad(st, req))
  BY <1>1
<1> HIDE DEF Kept
<1>6. CASE st \in LiteralStates
  <2>1. Consume(st, req, b) = IF b = Literal[st][1] THEN To(Literal[st][2], req)
                              ELSE Bad(st, req)
    BY <1>6, LiteralDomain DEF Consume, LiteralStates
  <2>2. \/ Literal[st][2] \in States \ NeedsHeader
        \/ Literal[st][2] = "header_value" /\ st \in NeedsHeader
    BY <1>6, LiteralLeads
  <2>3. Fits(Literal[st][2], req)
    BY <2>2, <1>2, <1>3, <1>4 DEF Fits, States
  <2> QED
    BY <2>1, <2>3, <1>1, <1>5
<1>7. CASE st \in {"method_start", "method", "uri", "http_version_slash"}
  <2>1. Consume(st, req, b) \in
            { Bad(st, req), To("uri", req), To("http_version_h", req),
              To("method", [req EXCEPT !.method = Append(@, b)]),
              To("uri", [req EXCEPT !.uri = Append(@, b)]),
              To("http_version_major_start", [req EXCEPT !.major = 0, !.minor = 0]) }
    BY <1>7, LiteralDomain DEF Consume, LiteralStates
  <2> QED
    BY <2>1, <1>1, <1>2, <1>3, <1>5, LineGrows DEF States, NeedsHeader, LiteralStates
<1>8. CASE st \in {"http_version_major_start", "http_version_major",
                   "http_version_minor_start", "http_version_minor"}
  <2>1. Consume(st, req, b) \in
            { Bad(st, req), To("http_version_minor_start", req),
              To("expecting_newline_1", req),
              To("http_version_major", [req EXCEPT !.major = @ * 10 + Digit(b)]),
              To("http_version_minor", [req EXCEPT !.minor = @ * 10 + Digit(b)]) }
    BY <1>8, LiteralDomain DEF Consume, LiteralStates
  <2> QED
    BY <2>1, <1>1, <1>2, <1>3, <1>5, LineGrows DEF States, NeedsHeader, LiteralStates
<1>9. CASE st = "header_line_start"
  <2>1. Consume(st, req, b) = HeaderLineStart(req, b)
    BY <1>9, LiteralDomain DEF Consume, LiteralStates
  <2>2. \/ HeaderLineStart(req, b) = Bad(st, req)
        \/ HeaderLineStart(req, b) = To("expecting_newline_3", req)
        \/ HeaderLineStart(req, b) = To("header_lws", req) /\ req.headers # <<>>
        \/ HeaderLineStart(req, b) = To("header_name", NewHeader(req, b))
    BY <1>9 DEF HeaderLineStart
  <2> QED
    BY <2>1, <2>2, <1>1, <1>2, <1>3, <1>4, <1>5, HeaderIsAdded DEF States, NeedsHeader
<1>10. CASE st \in {"header_lws", "header_name", "header_value"}
  <2>1. req.headers # <<>>
    BY <1>10 DEF Fits, NeedsHeader
  <2>2. Consume(st, req, b) \in
            { Bad(st, req), To("expecting_newline_2", req), To("header_lws", req),
              To("header_value", AddValue(req, b)),
              To("space_before_header_value", req),
              To("header_name", AddName(req, b)) }
    BY <1>10, LiteralDomain DEF Consume, HeaderLws, LiteralStates
  <2> QED
    BY <2>1, <2>2, <1>1, <1>2, <1>4, <1>5, HeaderGrows DEF States, LiteralStates
<1>11. CASE st = "expecting_newline_3"
  <2>1. Consume(st, req, b) \in {Good(st, req), Bad(st, req)}
    BY <1>11, LiteralDomain DEF Consume, LiteralStates
  <2> QED
    BY <2>1, <1>1
<1> QED
  BY <1>2, <1>6, <1>7, <1>8, <1>9, <1>10, <1>11 DEF States

-----------------------------------------------------------------------------
(* The theorem.                                                            *)

LEMMA InitIInv == Init => IInv
<1> SUFFICES ASSUME Init PROVE IInv
  OBVIOUS
<1>1. request \in Request
  <2>1. \A junk \in {0, 7} :
           [method |-> <<>>, uri |-> <<>>, major |-> junk, minor |-> junk,
            headers |-> <<>>] \in Request
    BY DEF Request
  <2> QED
    BY <2>1 DEF Init
<1>2. Fits(state, request)
  BY <1>1 DEF Init, Fits, States, NeedsHeader
<1> QED
  BY <1>2, MaxDetoursAssumption DEF Init, IInv

LEMMA NextIInv == IInv /\ [Next]_vars => IInv'
<1> SUFFICES ASSUME IInv, [Next]_vars PROVE IInv'
  OBVIOUS
<1>1. ASSUME NEW b \in Byte, Feed(b) PROVE IInv'
  <2>1. Fits(state', request') /\ result' \in {"good", "bad", "indeterminate"}
    BY <1>1, ConsumeFits DEF IInv, Feed
  <2>2. input' \in Seq(Byte) /\ detours' \in 0..MaxDetours
    BY <1>1, MaxDetoursAssumption DEF IInv, Feed
  <2> QED
    BY <2>1, <2>2 DEF IInv, Fits
<1>2. CASE UNCHANGED vars
  BY <1>2 DEF IInv, Fits, vars
<1> QED
  BY <1>1, <1>2 DEF Next

\* Where request_parser::consume calls headers.back() there is a header, and
\* every variable keeps its type, for a text of any length.
THEOREM TypeCorrect == Spec => []TypeOK
<1>1. IInv => TypeOK
  BY LiteralDomain DEF IInv, Fits, TypeOK, States, NeedsHeader
<1> QED
  BY <1>1, InitIInv, NextIInv, PTL DEF Spec
-----------------------------------------------------------------------------
(* Induction, stated of a set of numbers.  Were n not in S, m |-> m + 1    *)
(* would map the numbers of S up to n, one to one, to those of them that   *)
(* are not 0.                                                              *)

LEMMA InductionOnNat ==
    ASSUME NEW S \in SUBSET Nat, 0 \in S, \A m \in S : m + 1 \in S
    PROVE  \A n \in Nat : n \in S
<1> SUFFICES ASSUME NEW n \in Nat, n \notin S PROVE FALSE
  OBVIOUS
<1> DEFINE T == {m \in 0..n : m \in S}
           next == [m \in T |-> m + 1]
<1>1. IsFiniteSet(T) /\ Cardinality(T) \in Nat
  <2>1. IsFiniteSet(0..n) /\ T \in SUBSET (0..n)
    BY FS_Interval
  <2>2. IsFiniteSet(T)
    BY <2>1, FS_Subset
  <2> QED BY <2>2, FS_CardinalityType
<1>2. 0 \in T
  OBVIOUS
<1>3. next \in [T -> T \ {0}]
  <2>1. \A m \in T : m + 1 \in T /\ m + 1 # 0
    OBVIOUS
  <2> QED BY <2>1
<1>4. \A x, y \in T : next[x] = next[y] => x = y
  OBVIOUS
<1> HIDE DEF T, next
<1>5. IsFiniteSet(T \ {0}) /\ Cardinality(T \ {0}) < Cardinality(T)
  <2>1. IsFiniteSet(T \ {0}) /\ Cardinality(T \ {0}) = Cardinality(T) - 1
    BY <1>1, <1>2, FS_RemoveElement, Zenon
  <2> QED BY <1>1, <2>1
<1> QED BY <1>1, <1>3, <1>4, <1>5, FS_PigeonHole

LEMMA SameSequences ==
    ASSUME NEW S, NEW s \in Seq(S), NEW t \in Seq(S), Len(s) = Len(t),
           \A i \in 1..Len(s) : s[i] = t[i]
    PROVE  s = t
OBVIOUS

LEMMA LastElement ==
    ASSUME NEW D, NEW s \in Seq(D), NEW x \in D
    PROVE  LET t == Append(s, x)
           IN  /\ t \in Seq(D) /\ Len(t) = Len(s) + 1 /\ Len(s) \in Nat
               /\ t[Len(s) + 1] = x /\ \A i \in 1..Len(s) : t[i] = s[i]
OBVIOUS

LEMMA InductionOnSeq ==
    ASSUME NEW D, NEW G \in SUBSET Seq(D), <<>> \in G,
           \A s \in G, x \in D : Append(s, x) \in G
    PROVE  \A s \in Seq(D) : s \in G
<1> DEFINE S == {n \in Nat : \A s \in Seq(D) : Len(s) = n => s \in G}
<1>1. 0 \in S
  <2>1. \A s \in Seq(D) : Len(s) = 0 => s = <<>>
    OBVIOUS
  <2> QED BY <2>1
<1>2. ASSUME NEW n \in S PROVE n + 1 \in S
  <2> SUFFICES ASSUME NEW s \in Seq(D), Len(s) = n + 1 PROVE s \in G
    OBVIOUS
  <2>1. PICK front, x : front = SubSeq(s, 1, n) /\ x = s[n + 1]
    OBVIOUS
  <2>2. n \in Nat /\ n + 1 \in 1..Len(s)
    OBVIOUS
  <2>3. front \in Seq(D) /\ Len(front) = n /\ \A i \in 1..n : front[i] = s[i]
    BY <2>1, <2>2
  <2>4. x \in D
    BY <2>1, <2>2
  <2>5. s = Append(front, x)
    <3>1. PICK t : t = Append(front, x)
      OBVIOUS
    <3>2. /\ t \in Seq(D) /\ Len(t) = n + 1 /\ t[n + 1] = x
          /\ \A i \in 1..n : t[i] = front[i]
      <4>1. front \in Seq(D) /\ x \in D
        BY <2>3, <2>4
      <4>2. /\ t \in Seq(D) /\ Len(t) = Len(front) + 1 /\ t[Len(front) + 1] = x
            /\ \A i \in 1..Len(front) : t[i] = front[i]
        BY ONLY <3>1, <4>1, LastElement
      <4> QED BY <2>3, <4>2
    <3>3. \A i \in 1..Len(s) : i \in 1..n \/ i = n + 1
      BY <2>2
    <3>4. \A i \in 1..Len(s) : s[i] = t[i]
      BY <2>1, <2>3, <3>2, <3>3
    <3> QED BY <3>1, <3>2, <3>4, SameSequences
  <2>6. front \in G
    BY <2>3
  <2> QED BY <2>4, <2>5, <2>6
<1> HIDE DEF S
<1>3. \A n \in Nat : n \in S
  <2>1. S \in SUBSET Nat
    BY DEF S
  <2> QED BY <1>1, <1>2, <2>1, InductionOnNat
<1> QED BY <1>3 DEF S

LEMMA LeastNumber ==
    ASSUME NEW A \in SUBSET Nat, NEW a \in A
    PROVE  \E i \in A : \A j \in A : i <= j
<1> SUFFICES ASSUME ~\E i \in A : \A j \in A : i <= j PROVE FALSE
  OBVIOUS
<1> DEFINE S == {n \in Nat : \A m \in 0..n : m \notin A}
<1>1. \A i \in A : \E j \in A : j < i
  <2>1. \A i, j \in A : i \in Nat /\ j \in Nat
    OBVIOUS
  <2>2. \A i, j \in Nat : ~(i <= j) => j < i
    OBVIOUS
  <2> QED BY <2>1, <2>2
<1>2. 0 \in S
  <2>1. 0 \notin A
    BY <1>1
  <2> QED BY <2>1
<1>3. ASSUME NEW n \in S PROVE n + 1 \in S
  <2>1. n + 1 \notin A
    BY <1>1
  <2> QED BY <2>1
<1> HIDE DEF S
<1>4. \A n \in Nat : n \in S
  <2>1. S \in SUBSET Nat
    BY DEF S
  <2> QED BY <1>2, <1>3, <2>1, InductionOnNat
<1> QED BY <1>4 DEF S

-----------------------------------------------------------------------------
(* Lines.  A text that grows by a byte that is no CR has the same lines; a *)
(* CR makes a line of what has come since the last one.                    *)

\* The number of elements of S up to n.
Rank(S, n) == Cardinality({m \in S : m <= n})

\* There is an element of every rank.
Ranked(S) == \A k \in 1..Cardinality(S) : \E n \in S : Rank(S, n) = k

LEMMA AscendingRank ==
    ASSUME NEW S \in SUBSET Nat, IsFiniteSet(S), Ranked(S)
    PROVE  /\ Cardinality(S) \in Nat
           /\ Len(Ascending(S)) = Cardinality(S) /\ DOMAIN Ascending(S) = 1..Cardinality(S)
           /\ \A k \in 1..Cardinality(S) :
                 Ascending(S)[k] \in S /\ Rank(S, Ascending(S)[k]) = k
<1>1. Cardinality(S) \in Nat
  BY FS_CardinalityType
<1>2. DOMAIN Ascending(S) = 1..Cardinality(S) /\ Len(Ascending(S)) = Cardinality(S)
  BY <1>1 DEF Ascending
<1>3. ASSUME NEW k \in 1..Cardinality(S)
      PROVE  Ascending(S)[k] \in S /\ Rank(S, Ascending(S)[k]) = k
  <2>1. \E n \in S : Cardinality({m \in S : m <= n}) = k
    BY <1>3 DEF Ranked, Rank
  <2>2. Ascending(S)[k] = CHOOSE n \in S : Cardinality({m \in S : m <= n}) = k
    BY <1>3 DEF Ascending
  <2> QED BY <2>1, <2>2 DEF Rank
<1> QED BY <1>1, <1>2, <1>3

\* Elements of the same rank are the same, and the last one is the greatest.
LEMMA RankIsUnique ==
    ASSUME NEW S \in SUBSET Nat, IsFiniteSet(S), NEW n \in S, NEW m \in S
    PROVE  /\ Rank(S, n) \in 1..Cardinality(S)
           /\ Rank(S, n) = Rank(S, m) => n = m
           /\ Rank(S, n) = Cardinality(S) => m <= n
<1> DEFINE Upto(x) == {y \in S : y <= x}
<1>1. \A x \in S : /\ IsFiniteSet(Upto(x)) /\ Cardinality(Upto(x)) \in Nat
                   /\ Cardinality(Upto(x)) <= Cardinality(S)
                   /\ Cardinality(Upto(x)) = Cardinality(S) => Upto(x) = S
  <2> SUFFICES ASSUME NEW x \in S
               PROVE  /\ IsFiniteSet(Upto(x)) /\ Cardinality(Upto(x)) \in Nat
                      /\ Cardinality(Upto(x)) <= Cardinality(S)
                      /\ Cardinality(Upto(x)) = Cardinality(S) => Upto(x) = S
    OBVIOUS
  <2>1. Upto(x) \in SUBSET S
    OBVIOUS
  <2> QED BY <2>1, FS_Subset, FS_CardinalityType
<1>2. ASSUME NEW x \in S, NEW y \in S, x < y
      PROVE  Cardinality(Upto(x)) < Cardinality(Upto(y))
  <2>1. x \in Nat /\ y \in Nat /\ \A z \in S : z \in Nat
    OBVIOUS
  <2>2. \A z \in S : z <= x => z <= y
    BY <1>2, <2>1
  <2>3. Upto(x) \in SUBSET Upto(y) /\ y \in Upto(y) /\ y \notin Upto(x)
    <3>1. Upto(x) \in SUBSET Upto(y)
      BY <2>2, Zenon
    <3>2. y <= y /\ ~(y <= x)
      BY <1>2, <2>1
    <3> QED BY <3>1, <3>2
  <2> HIDE DEF Upto
  <2>4. /\ Cardinality(Upto(x)) <= Cardinality(Upto(y))
        /\ Cardinality(Upto(x)) = Cardinality(Upto(y)) => Upto(y) = Upto(x)
    BY <1>1, <2>3, FS_Subset
  <2> QED BY <1>1, <2>3, <2>4
<1>3. n \in Nat /\ m \in Nat
  OBVIOUS
<1>4. Upto(n) # {}
  OBVIOUS
<1>5. Cardinality(Upto(n)) # 0
  BY <1>1, <1>4, FS_EmptySet
<1>6. Cardinality(S) \in Nat
  BY FS_CardinalityType
<1>7. Rank(S, n) \in 1..Cardinality(S)
  BY <1>1, <1>5, <1>6 DEF Rank
<1>8. Rank(S, n) = Rank(S, m) => n = m
  BY <1>1, <1>2, <1>3 DEF Rank
<1>9. Rank(S, n) = Cardinality(S) => m <= n
  BY <1>1 DEF Rank
<1> QED BY <1>7, <1>8, <1>9

\* A new greatest element comes last.
LEMMA AscendingAdd ==
    ASSUME NEW S \in SUBSET Nat, IsFiniteSet(S), Ranked(S),
           NEW x \in Nat, \A m \in S : m < x
    PROVE  LET T == S \cup {x}
               n == Cardinality(S)
           IN  /\ IsFiniteSet(T) /\ Cardinality(T) = n + 1 /\ Ranked(T)
               /\ \A k \in 1..n : Ascending(T)[k] = Ascending(S)[k]
               /\ Ascending(T)[n + 1] = x
<1> DEFINE T == S \cup {x}
           n == Cardinality(S)
<1>1. x \notin S /\ T \in SUBSET Nat
  OBVIOUS
<1>2. IsFiniteSet(T) /\ Cardinality(T) = n + 1 /\ n \in Nat
  BY <1>1, FS_AddElement, FS_CardinalityType
<1>3. \A m \in S : Rank(T, m) = Rank(S, m)
  <2> SUFFICES ASSUME NEW m \in S PROVE Rank(T, m) = Rank(S, m)
    OBVIOUS
  <2>1. {y \in T : y <= m} = {y \in S : y <= m}
    OBVIOUS
  <2> QED BY <2>1 DEF Rank
<1>4. Rank(T, x) = n + 1
  <2>1. \A y \in T : y <= x
    OBVIOUS
  <2>2. {y \in T : y <= x} = T
    BY <2>1
  <2> QED BY <1>2, <2>2 DEF Rank
<1>5. Ranked(T)
  <2> SUFFICES ASSUME NEW k \in 1..(n + 1) PROVE \E m \in T : Rank(T, m) = k
    BY <1>2 DEF Ranked
  <2>1. CASE k \in 1..n
    BY <1>3, <2>1 DEF Ranked
  <2>2. CASE k = n + 1
    BY <1>4, <2>2
  <2> QED BY <1>2, <2>1, <2>2
<1>6. \A k \in 1..(n + 1) : Ascending(T)[k] \in T /\ Rank(T, Ascending(T)[k]) = k
  BY <1>1, <1>2, <1>5, AscendingRank
<1>7. \A k \in 1..n : Ascending(S)[k] \in S /\ Rank(T, Ascending(S)[k]) = k
  BY <1>3, AscendingRank
<1>8. \A y, z \in T : Rank(T, y) = Rank(T, z) => y = z
  BY <1>1, <1>2, RankIsUnique
<1>9. \A k \in 1..n : Ascending(T)[k] = Ascending(S)[k]
  <2>1. \A k \in 1..n : k \in 1..(n + 1)
    BY <1>2
  <2> QED BY <1>6, <1>7, <1>8, <2>1
<1>10. Ascending(T)[n + 1] = x
  <2>1. n + 1 \in 1..(n + 1)
    BY <1>2
  <2> QED BY <1>4, <1>6, <1>8, <2>1
<1> QED BY <1>2, <1>5, <1>9, <1>10

\* Where the line that has not ended yet begins, and what there is of it.
LineBegin(s) ==
    LET ends == Ascending(LineEnds(s))
    IN  IF LineEnds(s) = {} THEN 1 ELSE ends[Len(ends)] + 2

Rest(s) == SubSeq(s, LineBegin(s), Len(s))

LEMMA EndsAre ==
    ASSUME NEW s \in Seq(Byte), Ranked(LineEnds(s))
    PROVE  LET E == LineEnds(s)
               n == Cardinality(E)
               ends == Ascending(E)
           IN  /\ E \in SUBSET Nat /\ IsFiniteSet(E) /\ \A e \in E : e \in 1..Len(s)
               /\ n \in Nat /\ Len(ends) = n /\ DOMAIN ends = 1..n
               /\ \A k \in 1..n : ends[k] \in E
               /\ E = {} <=> n = 0
               /\ E # {} => \A e \in E : e <= ends[n]
<1> DEFINE E == LineEnds(s)
           n == Cardinality(E)
           ends == Ascending(E)
<1>1. E \in SUBSET (1..Len(s)) /\ Len(s) \in Nat
  BY DEF LineEnds
<1>2. IsFiniteSet(E) /\ E \in SUBSET Nat
  <2>1. IsFiniteSet(1..Len(s))
    BY <1>1, FS_Interval
  <2> QED BY <1>1, <2>1, FS_Subset
<1>3. n \in Nat /\ (E = {} <=> n = 0)
  BY <1>2, FS_CardinalityType, FS_EmptySet
<1>4. Len(ends) = n /\ DOMAIN ends = 1..n /\ \A k \in 1..n : ends[k] \in E /\ Rank(E, ends[k]) = k
  BY <1>2, AscendingRank
<1>5. ASSUME E # {} PROVE \A e \in E : e <= ends[n]
  <2>1. n \in 1..n
    BY <1>3, <1>5
  <2>2. ends[n] \in E /\ Rank(E, ends[n]) = n
    BY <1>4, <2>1
  <2> HIDE DEF E, ends
  <2> QED BY <1>2, <2>2, RankIsUnique DEF n
<1> QED BY <1>1, <1>2, <1>3, <1>4, <1>5

LEMMA SubSeqIsSame ==
    ASSUME NEW s \in Seq(Byte), NEW t \in Seq(Byte), NEW from \in Nat, NEW to \in Int,
           from >= 1, to <= Len(s), to <= Len(t),
           \A i \in from..to : t[i] = s[i]
    PROVE  SubSeq(t, from, to) = SubSeq(s, from, to)
OBVIOUS

\* A byte that is no CR.
LEMMA LineGoesOn ==
    ASSUME NEW s \in Seq(Byte), Ranked(LineEnds(s)), NEW b \in Byte, b # "CR"
    PROVE  LET t == Append(s, b)
           IN  /\ LineEnds(t) = LineEnds(s) /\ Ranked(LineEnds(t))
               /\ LinesOf(t) = LinesOf(s)
               /\ LineBegin(t) = LineBegin(s)
<1> DEFINE t == Append(s, b)
<1>1. /\ Len(t) = Len(s) + 1 /\ Len(s) \in Nat
      /\ t[Len(s) + 1] = b /\ \A i \in 1..Len(s) : t[i] = s[i]
  OBVIOUS
<1>0. t \in Seq(Byte)
  OBVIOUS
<1> HIDE DEF t
<1>2. LineEnds(t) = LineEnds(s)
  BY <1>1 DEF LineEnds
<1>3. PICK ends : ends = Ascending(LineEnds(s))
  OBVIOUS
<1> DEFINE Begin(k) == IF k = 1 THEN 1 ELSE ends[k - 1] + 2
<1>4. \A k \in 1..Len(ends) : SubSeq(t, Begin(k), ends[k] - 1) = SubSeq(s, Begin(k), ends[k] - 1)
  <2> SUFFICES ASSUME NEW k \in 1..Len(ends)
               PROVE  SubSeq(t, Begin(k), ends[k] - 1) = SubSeq(s, Begin(k), ends[k] - 1)
    OBVIOUS
  <2>1. ends[k] \in 1..Len(s) /\ Len(ends) \in Nat
    BY <1>3, EndsAre
  <2>2. Begin(k) \in Nat /\ Begin(k) >= 1
    <3>1. CASE k = 1
      BY <3>1
    <3>2. CASE k # 1
      <4>1. k - 1 \in 1..Len(ends)
        BY <2>1, <3>2
      <4>2. ends[k - 1] \in 1..Len(s)
        BY <1>3, <4>1, EndsAre
      <4> QED BY <3>2, <4>2
    <3> QED BY <3>1, <3>2
  <2>3. PICK from, to : from = Begin(k) /\ to = ends[k] - 1
    OBVIOUS
  <2>4. from \in Nat /\ from >= 1 /\ to \in Int /\ to <= Len(s)
    BY <2>1, <2>2, <2>3
  <2>5. \A i \in from..to : t[i] = s[i]
    BY <1>1, <2>4
  <2>6. SubSeq(t, from, to) = SubSeq(s, from, to)
    BY <1>0, <1>1, <2>4, <2>5, SubSeqIsSame
  <2> QED BY <2>3, <2>6, Zenon
<1>5. LinesOf(t) = LinesOf(s)
  BY <1>2, <1>3, <1>4, Zenon DEF LinesOf
<1> QED BY <1>2, <1>5 DEF LineBegin, t

\* A CR.
LEMMA LineIsMade ==
    ASSUME NEW s \in Seq(Byte), Ranked(LineEnds(s))
    PROVE  LET t == Append(s, "CR")
           IN  /\ Ranked(LineEnds(t)) /\ Len(t) \in LineEnds(t)
               /\ LinesOf(t) = Append(LinesOf(s), Rest(s))
               /\ LineBegin(t) = Len(t) + 2
<1> DEFINE t == Append(s, "CR")
           E == LineEnds(s)
           n == Cardinality(E)
           ends == Ascending(E)
           more == Ascending(LineEnds(t))
<1>1. /\ t \in Seq(Byte) /\ Len(t) = Len(s) + 1 /\ Len(s) \in Nat
      /\ t[Len(s) + 1] = "CR" /\ \A i \in 1..Len(s) : t[i] = s[i]
  BY DEF Byte
<1> HIDE DEF t
<1>2. LineEnds(t) = E \cup {Len(s) + 1}
  BY <1>1 DEF LineEnds
<1>3. /\ E \in SUBSET Nat /\ IsFiniteSet(E) /\ \A e \in E : e \in 1..Len(s)
      /\ n \in Nat /\ Len(ends) = n /\ DOMAIN ends = 1..n
      /\ \A k \in 1..n : ends[k] \in 1..Len(s)
      /\ E = {} <=> n = 0
  BY EndsAre
<1>4. \A e \in E : e < Len(s) + 1
  BY <1>1, <1>3
<1>5. /\ IsFiniteSet(LineEnds(t)) /\ Cardinality(LineEnds(t)) = n + 1 /\ Ranked(LineEnds(t))
      /\ \A k \in 1..n : more[k] = ends[k]
      /\ more[n + 1] = Len(s) + 1
  <2>1. PICK S : S = E
    OBVIOUS
  <2>2. PICK x : x = Len(s) + 1
    OBVIOUS
  <2>3. /\ S \in SUBSET Nat /\ IsFiniteSet(S) /\ Ranked(S)
        /\ x \in Nat /\ \A e \in S : e < x
    BY <1>1, <1>3, <1>4, <2>1, <2>2
  <2>4. /\ IsFiniteSet(S \cup {x}) /\ Cardinality(S \cup {x}) = Cardinality(S) + 1
        /\ Ranked(S \cup {x})
        /\ \A k \in 1..Cardinality(S) : Ascending(S \cup {x})[k] = Ascending(S)[k]
        /\ Ascending(S \cup {x})[Cardinality(S) + 1] = x
    BY <2>3, AscendingAdd
  <2>5. LineEnds(t) = S \cup {x}
    BY <1>2, <2>1, <2>2
  <2> QED BY <2>1, <2>2, <2>4, <2>5, Zenon
<1>6. Len(more) = n + 1 /\ DOMAIN more = 1..(n + 1)
  <2>1. LineEnds(t) \in SUBSET Nat
    BY <1>1, <1>2, <1>3
  <2> QED BY <1>5, <2>1, AscendingRank
<1>7. LineBegin(t) = Len(t) + 2
  <2>1. LineEnds(t) # {}
    BY <1>2
  <2>2. LineBegin(t) = more[Len(more)] + 2
    BY <2>1 DEF LineBegin
  <2> HIDE DEF more, n
  <2> QED BY <1>1, <1>5, <1>6, <2>2
<1> DEFINE Begin(k) == IF k = 1 THEN 1 ELSE ends[k - 1] + 2
           BeginMore(k) == IF k = 1 THEN 1 ELSE more[k - 1] + 2
<1>8. \A k \in 1..(n + 1) : BeginMore(k) = Begin(k) /\ Begin(k) \in Nat /\ Begin(k) >= 1
  <2> HIDE DEF more, n, ends
  <2> SUFFICES ASSUME NEW k \in 1..(n + 1)
               PROVE  BeginMore(k) = Begin(k) /\ Begin(k) \in Nat /\ Begin(k) >= 1
    OBVIOUS
  <2>1. CASE k = 1
    BY <2>1
  <2>2. CASE k # 1
    <3>1. k - 1 \in 1..n
      BY <1>3, <2>2
    <3>2. more[k - 1] = ends[k - 1] /\ ends[k - 1] \in Nat
      BY <1>3, <1>5, <3>1
    <3> QED BY <2>2, <3>2
  <2> QED BY <2>1, <2>2
<1>9. Begin(n + 1) = LineBegin(s)
  BY <1>3 DEF LineBegin
<1>10. LinesOf(s) = [k \in 1..n |-> SubSeq(s, Begin(k), ends[k] - 1)]
  <2>1. LinesOf(s) = [k \in 1..Len(ends) |-> SubSeq(s, Begin(k), ends[k] - 1)]
    BY Zenon DEF LinesOf
  <2> QED BY <1>3, <2>1, Zenon
<1>11. LinesOf(t) = [k \in 1..(n + 1) |-> SubSeq(t, BeginMore(k), more[k] - 1)]
  <2>1. LinesOf(t) = [k \in 1..Len(more) |-> SubSeq(t, BeginMore(k), more[k] - 1)]
    BY Zenon DEF LinesOf
  <2> QED BY <1>6, <2>1, Zenon
<1> HIDE DEF Begin, BeginMore, more, n, ends
<1>12. \A k \in 1..n : SubSeq(t, BeginMore(k), more[k] - 1) = SubSeq(s, Begin(k), ends[k] - 1)
  <2> SUFFICES ASSUME NEW k \in 1..n
               PROVE  SubSeq(t, BeginMore(k), more[k] - 1) = SubSeq(s, Begin(k), ends[k] - 1)
    OBVIOUS
  <2>1. PICK from, to : from = Begin(k) /\ to = ends[k] - 1
    OBVIOUS
  <2>2. k \in 1..(n + 1) /\ more[k] = ends[k] /\ ends[k] \in 1..Len(s)
    BY <1>3, <1>5
  <2>3. /\ from \in Nat /\ from >= 1 /\ to \in Int /\ to <= Len(s) /\ to <= Len(t)
        /\ BeginMore(k) = from /\ more[k] - 1 = to
    BY <1>1, <1>8, <2>1, <2>2
  <2>4. SubSeq(t, from, to) = SubSeq(s, from, to)
    <3>1. s \in Seq(Byte)
      BY <1>1
    <3>2. t \in Seq(Byte)
      BY <1>1
    <3>3. from \in Nat /\ from >= 1 /\ to \in Int /\ to <= Len(s) /\ to <= Len(t)
      BY <2>3
    <3>4. \A i \in from..to : t[i] = s[i]
      BY <1>1, <3>3
    <3> QED BY ONLY <3>1, <3>2, <3>3, <3>4, SubSeqIsSame
  <2> QED BY <2>1, <2>3, <2>4, Zenon
<1>13. SubSeq(t, BeginMore(n + 1), more[n + 1] - 1) = Rest(s)
  <2>1. PICK from, to : from = LineBegin(s) /\ to = Len(s)
    OBVIOUS
  <2>2. n + 1 \in 1..(n + 1)
    BY <1>3
  <2>3. /\ from \in Nat /\ from >= 1 /\ to \in Int /\ to <= Len(s) /\ to <= Len(t)
        /\ BeginMore(n + 1) = from /\ more[n + 1] - 1 = to
    BY <1>1, <1>5, <1>8, <1>9, <2>1, <2>2
  <2>4. SubSeq(t, from, to) = SubSeq(s, from, to)
    <3>1. s \in Seq(Byte)
      BY <1>1
    <3>2. t \in Seq(Byte)
      BY <1>1
    <3>3. from \in Nat /\ from >= 1 /\ to \in Int /\ to <= Len(s) /\ to <= Len(t)
      BY <2>3
    <3>4. \A i \in from..to : t[i] = s[i]
      BY <1>1, <3>3
    <3> QED BY ONLY <3>1, <3>2, <3>3, <3>4, SubSeqIsSame
  <2> QED BY <2>1, <2>3, <2>4, Zenon DEF Rest
<1>14. LinesOf(t) = Append(LinesOf(s), Rest(s))
  <2>1. PICK ls : ls = LinesOf(s)
    OBVIOUS
  <2>2. PICK r : r = Rest(s)
    OBVIOUS
  <2>3. PICK mls : mls = LinesOf(t)
    OBVIOUS
  <2>4. /\ DOMAIN ls = 1..n /\ ls = [k \in 1..n |-> ls[k]]
    BY <1>10, <2>1, Zenon
  <2>5. /\ mls = [k \in 1..(n + 1) |-> mls[k]]
        /\ \A k \in 1..n : mls[k] = ls[k]
        /\ mls[n + 1] = r
    <3>1. mls = [k \in 1..(n + 1) |-> mls[k]] /\ DOMAIN mls = 1..(n + 1)
      BY <1>11, <2>3, Zenon
    <3>2. \A k \in 1..n : k \in 1..(n + 1) /\ n + 1 \in 1..(n + 1)
      BY <1>3
    <3>3. \A k \in 1..n : mls[k] = ls[k]
      BY <1>10, <1>11, <1>12, <2>1, <2>3, <3>2, Zenon
    <3>4. n + 1 \in 1..(n + 1)
      BY <1>3
    <3>5. mls[n + 1] = r
      BY <1>11, <1>13, <2>2, <2>3, <3>4, Zenon
    <3> QED BY <3>1, <3>3, <3>5, Zenon
  <2>6. \A k \in 1..n : ls[k] \in Seq(Byte)
    <3> SUFFICES ASSUME NEW k \in 1..n PROVE ls[k] \in Seq(Byte)
      OBVIOUS
    <3>1. PICK from, to : from = Begin(k) /\ to = ends[k] - 1
      OBVIOUS
    <3>2. ls[k] = SubSeq(s, from, to)
      BY <1>10, <2>1, <3>1, Zenon
    <3>3. k \in 1..(n + 1)
      BY <1>3
    <3>4. from \in Nat /\ from >= 1 /\ to \in Int /\ to <= Len(s)
      BY <1>1, <1>3, <1>8, <3>1, <3>3
    <3> QED BY <3>2, <3>4
  <2>7. r \in Seq(Byte)
    <3>1. n + 1 \in 1..(n + 1)
      BY <1>3
    <3>2. LineBegin(s) \in Nat /\ LineBegin(s) >= 1
      BY <1>8, <1>9, <3>1
    <3> QED BY <1>1, <2>2, <3>2 DEF Rest
  <2>8. ls \in Seq(Seq(Byte)) /\ Len(ls) = n
    <3>1. ls \in [1..n -> Seq(Byte)]
      BY <2>4, <2>6, Zenon
    <3> QED BY <1>3, <3>1
  <2>9. mls \in Seq(Seq(Byte)) /\ Len(mls) = n + 1
    <3>1. \A k \in 1..(n + 1) : k \in 1..n \/ k = n + 1
      BY <1>3
    <3>2. \A k \in 1..(n + 1) : mls[k] \in Seq(Byte)
      BY <2>5, <2>6, <2>7, <3>1
    <3>3. mls \in [1..(n + 1) -> Seq(Byte)]
      BY <2>5, <3>2, Zenon
    <3>4. n + 1 \in Nat
      BY <1>3
    <3> QED BY <3>3, <3>4
  <2>10. mls = Append(ls, r)
    <3>1. /\ Append(ls, r) \in Seq(Seq(Byte)) /\ Len(Append(ls, r)) = n + 1
          /\ Append(ls, r)[n + 1] = r /\ \A k \in 1..n : Append(ls, r)[k] = ls[k]
      BY <2>7, <2>8
    <3>2. \A k \in 1..(n + 1) : k \in 1..n \/ k = n + 1
      BY <1>3
    <3>3. \A k \in 1..(n + 1) : mls[k] = Append(ls, r)[k]
      BY <2>5, <3>1, <3>2, Zenon
    <3>4. Len(mls) = Len(Append(ls, r)) /\ \A k \in 1..Len(mls) : mls[k] = Append(ls, r)[k]
      BY <2>9, <3>1, <3>3, Zenon
    <3> QED BY <2>9, <3>1, <3>4, SameSequences, Zenon
  <2> QED BY <2>1, <2>2, <2>3, <2>10, Zenon
<1>15. Len(t) \in LineEnds(t)
  BY <1>1, <1>2
<1> QED BY <1>5, <1>7, <1>14, <1>15 DEF t

\* The rest of the text, with a byte more.
LEMMA RestGrows ==
    ASSUME NEW s \in Seq(Byte), Ranked(LineEnds(s)), NEW b \in Byte
    PROVE  LET t == Append(s, b)
           IN  /\ LineBegin(s) \in Nat /\ LineBegin(s) >= 1 /\ Rest(s) \in Seq(Byte)
               /\ LineBegin(s) > Len(s) => Rest(s) = <<>>
               /\ b # "CR" /\ LineBegin(s) <= Len(s) + 1 => Rest(t) = Append(Rest(s), b)
<1> DEFINE t == Append(s, b)
<1>1. /\ t \in Seq(Byte) /\ Len(t) = Len(s) + 1 /\ Len(s) \in Nat
      /\ t[Len(s) + 1] = b /\ \A i \in 1..Len(s) : t[i] = s[i]
  OBVIOUS
<1>2. LineBegin(s) \in Nat /\ LineBegin(s) >= 1
  <2>1. PICK E : E = LineEnds(s)
    OBVIOUS
  <2>2. PICK n, ends : n = Cardinality(E) /\ ends = Ascending(E)
    OBVIOUS
  <2>3. /\ n \in Nat /\ Len(ends) = n /\ \A k \in 1..n : ends[k] \in Nat
        /\ (E = {} <=> n = 0)
    BY <2>1, <2>2, EndsAre
  <2>4. CASE E = {}
    BY <2>1, <2>4 DEF LineBegin
  <2>5. CASE E # {}
    <3>1. LineBegin(s) = ends[Len(ends)] + 2
      BY <2>1, <2>2, <2>5 DEF LineBegin
    <3>2. n \in 1..n
      BY <2>3, <2>5
    <3> QED BY <2>3, <3>1, <3>2
  <2> QED BY <2>4, <2>5
<1>3. PICK from : from = LineBegin(s)
  OBVIOUS
<1>4. Rest(s) = SubSeq(s, from, Len(s)) /\ from \in Nat /\ from >= 1
  BY <1>2, <1>3 DEF Rest
<1>5. Rest(s) \in Seq(Byte) /\ (from > Len(s) => Rest(s) = <<>>)
  BY <1>1, <1>4
<1>6. ASSUME b # "CR", from <= Len(s) + 1
      PROVE  Rest(t) = Append(Rest(s), b)
  <2>1. LineBegin(t) = from
    BY <1>3, <1>6, LineGoesOn
  <2>2. Rest(t) = SubSeq(t, from, Len(s) + 1)
    BY <1>1, <2>1 DEF Rest
  <2> HIDE DEF t
  <2>3. SubSeq(t, from, Len(s) + 1) = Append(SubSeq(s, from, Len(s)), b)
    BY <1>1, <1>4, <1>6
  <2> QED BY <1>4, <2>2, <2>3
<1> QED BY <1>2, <1>3, <1>5, <1>6

-----------------------------------------------------------------------------
(* The ends of the lines.                                                  *)

\* Up to position n, LF comes behind CR and only there.
WholeUpto(s, n) ==
    \A i \in 1..n : (i \in DOMAIN s /\ s[i] = "LF") <=> (i - 1 \in LineEnds(s))

LEMMA EndsStayWhole ==
    ASSUME NEW s \in Seq(Byte), NEW b \in Byte
    PROVE  LET t == Append(s, b)
           IN  /\ EndsAreWhole(s) /\ b \notin {"CR", "LF"} => EndsAreWhole(t)
               /\ EndsAreWhole(s) /\ b = "CR" => WholeUpto(t, Len(t))
               /\ EndsAreWhole(s) /\ b = "LF" => ~EndsAreWhole(t)
               /\ WholeUpto(s, Len(s)) /\ Len(s) \in LineEnds(s) /\ b = "LF"
                    => EndsAreWhole(t)
<1> DEFINE t == Append(s, b)
           m == Len(s) + 1
<1>1. /\ Len(t) = m /\ Len(s) \in Nat /\ DOMAIN t = 1..m /\ DOMAIN s = 1..Len(s)
      /\ t[m] = b /\ \A i \in 1..Len(s) : t[i] = s[i]
  OBVIOUS
<1> HIDE DEF t
<1>2. LineEnds(t) = IF b = "CR" THEN LineEnds(s) \cup {m} ELSE LineEnds(s)
  BY <1>1 DEF LineEnds
<1>3. LineEnds(s) \subseteq 1..Len(s)
  BY DEF LineEnds
<1>4. \A u : EndsAreWhole(u) <=> WholeUpto(u, Len(u) + 1)
  BY DEF EndsAreWhole, WholeUpto
<1>5. \A i \in 1..Len(s) : /\ (i \in DOMAIN t /\ t[i] = "LF") <=> (i \in DOMAIN s /\ s[i] = "LF")
                           /\ (i - 1 \in LineEnds(t)) <=> (i - 1 \in LineEnds(s))
  BY <1>1, <1>2
<1>6. m \notin DOMAIN s /\ m + 1 \notin DOMAIN t /\ m \in DOMAIN t
  BY <1>1
<1>7. EndsAreWhole(s) <=> (WholeUpto(s, Len(s)) /\ Len(s) \notin LineEnds(s))
  <2>1. \A i \in 1..m : i \in 1..Len(s) \/ i = m
    BY <1>1
  <2>2. m \in 1..m /\ (\A i \in 1..Len(s) : i \in 1..m) /\ m - 1 = Len(s)
    BY <1>1
  <2> QED BY <1>4, <1>6, <2>1, <2>2 DEF WholeUpto
<1>8. EndsAreWhole(t) <=> (WholeUpto(t, m) /\ m \notin LineEnds(t))
  <2>1. \A i \in 1..(m + 1) : i \in 1..m \/ i = m + 1
    BY <1>1
  <2>2. m + 1 \in 1..(m + 1) /\ (\A i \in 1..m : i \in 1..(m + 1)) /\ (m + 1) - 1 = m
    BY <1>1
  <2> QED BY <1>1, <1>4, <1>6, <2>1, <2>2 DEF WholeUpto
<1>9. WholeUpto(t, m) <=> (WholeUpto(s, Len(s)) /\ (b = "LF" <=> Len(s) \in LineEnds(s)))
  <2>1. \A i \in 1..m : i \in 1..Len(s) \/ i = m
    BY <1>1
  <2>2. m \in 1..m /\ (\A i \in 1..Len(s) : i \in 1..m) /\ m - 1 = Len(s)
    BY <1>1
  <2>3. Len(s) \in LineEnds(t) <=> Len(s) \in LineEnds(s)
    <3>1. Len(s) # m
      <4>1. \A x \in Nat : x # x + 1
        OBVIOUS
      <4> QED BY <1>1, <4>1
    <3> QED BY <1>2, <3>1
  <2> QED BY <1>1, <1>5, <1>6, <2>1, <2>2, <2>3 DEF WholeUpto
<1>10. m \in LineEnds(t) <=> b = "CR"
  BY <1>1, <1>2, <1>3
<1> QED BY <1>1, <1>7, <1>8, <1>9, <1>10 DEF t

-----------------------------------------------------------------------------
(* What consume does, apart from the texts it collects.                    *)

EarlyStates ==
    {"method_start", "method", "uri", "http_version_h", "http_version_t_1",
     "http_version_t_2", "http_version_p", "http_version_slash",
     "http_version_major_start", "http_version_major",
     "http_version_minor_start", "http_version_minor"}

AfterCR == {"expecting_newline_1", "expecting_newline_2", "expecting_newline_3"}

\* Byte b takes the parser from state st to st2.
Early(st, b, st2) ==
    \/ st = "method_start" /\ b \in Token /\ st2 = "method"
    \/ st = "method" /\ b \in Token /\ st2 = "method"
    \/ st = "method" /\ b = "SP" /\ st2 = "uri"
    \/ st = "uri" /\ b \in Visible /\ st2 = "uri"
    \/ st = "uri" /\ b = "SP" /\ st2 = "http_version_h"
    \/ st = "http_version_h" /\ b = "H" /\ st2 = "http_version_t_1"
    \/ st = "http_version_t_1" /\ b = "T" /\ st2 = "http_version_t_2"
    \/ st = "http_version_t_2" /\ b = "T" /\ st2 = "http_version_p"
    \/ st = "http_version_p" /\ b = "P" /\ st2 = "http_version_slash"
    \/ st = "http_version_slash" /\ b = "/" /\ st2 = "http_version_major_start"
    \/ st = "http_version_major_start" /\ b = "1" /\ st2 = "http_version_major"
    \/ st = "http_version_major" /\ b = "1" /\ st2 = "http_version_major"
    \/ st = "http_version_major" /\ b = "." /\ st2 = "http_version_minor_start"
    \/ st = "http_version_minor_start" /\ b = "1" /\ st2 = "http_version_minor"
    \/ st = "http_version_minor" /\ b = "1" /\ st2 = "http_version_minor"
    \/ st = "http_version_minor" /\ b = "CR" /\ st2 = "expecting_newline_1"

Late(st, hs, b, st2) ==
    \/ st = "expecting_newline_1" /\ b = "LF" /\ st2 = "header_line_start"
    \/ st = "header_line_start" /\ b = "CR" /\ st2 = "expecting_newline_3"
    \/ st = "header_line_start" /\ b \in Blank /\ hs # <<>> /\ st2 = "header_lws"
    \/ st = "header_line_start" /\ b \in Token /\ st2 = "header_name"
    \/ st = "header_lws" /\ b = "CR" /\ st2 = "expecting_newline_2"
    \/ st = "header_lws" /\ b \in Blank /\ st2 = "header_lws"
    \/ st = "header_lws" /\ b \in Visible /\ st2 = "header_value"
    \/ st = "header_name" /\ b = ":" /\ st2 = "space_before_header_value"
    \/ st = "header_name" /\ b \in Token /\ st2 = "header_name"
    \/ st = "space_before_header_value" /\ b = "SP" /\ st2 = "header_value"
    \/ st = "header_value" /\ b = "CR" /\ st2 = "expecting_newline_2"
    \/ st = "header_value" /\ b \in Visible \cup {"SP"} /\ st2 = "header_value"
    \/ st = "expecting_newline_2" /\ b = "LF" /\ st2 = "header_line_start"

\* No request goes on, or ends, with byte b.
Stuck(st, hs, b) ==
    /\ \A st2 : ~Early(st, b, st2) /\ ~Late(st, hs, b, st2)
    /\ ~(st = "expecting_newline_3" /\ b = "LF")

\* What comes of byte b in state st with the headers hs.
Verdict(st, hs, b, a) ==
    \/ /\ a.result = "indeterminate"
       /\ \/ Early(st, b, a.state) /\ a.request.headers = hs
          \/ Late(st, hs, b, a.state)
             /\ (a.state \in AfterCR \cup {"header_line_start"} => a.request.headers = hs)
    \/ a.result = "good" /\ st = "expecting_newline_3" /\ b = "LF"
    \/ a.result = "bad" /\ Stuck(st, hs, b)

LEMMA Classes ==
    ASSUME NEW b \in Byte
    PROVE  /\ IsToken(b) <=> b \in Token
           /\ ~IsCtl(b) <=> b \in Visible \cup {"SP"}
           /\ IsDigit(b) <=> b = "1"
BY DEF Byte, IsToken, IsCtl, IsChar, IsTspecial, IsDigit, Token, Visible

LEMMA LiteralIs ==
    /\ Literal["http_version_h"] = <<"H", "http_version_t_1">>
    /\ Literal["http_version_t_1"] = <<"T", "http_version_t_2">>
    /\ Literal["http_version_t_2"] = <<"T", "http_version_p">>
    /\ Literal["http_version_p"] = <<"P", "http_version_slash">>
    /\ Literal["expecting_newline_1"] = <<"LF", "header_line_start">>
    /\ Literal["space_before_header_value"] = <<"SP", "header_value">>
    /\ Literal["expecting_newline_2"] = <<"LF", "header_line_start">>
BY DEF Literal

LEMMA HeadersStay ==
    ASSUME NEW req \in Request, NEW b \in Byte
    PROVE  /\ [req EXCEPT !.method = Append(@, b)].headers = req.headers
           /\ [req EXCEPT !.uri = Append(@, b)].headers = req.headers
           /\ [req EXCEPT !.major = 0, !.minor = 0].headers = req.headers
           /\ [req EXCEPT !.major = @ * 10 + Digit(b)].headers = req.headers
           /\ [req EXCEPT !.minor = @ * 10 + Digit(b)].headers = req.headers
BY DEF Request

LEMMA ConsumeMoves ==
    ASSUME NEW st, NEW req, NEW b \in Byte, Fits(st, req)
    PROVE  Verdict(st, req.headers, b, Consume(st, req, b))
<1> DEFINE V(a) == Verdict(st, req.headers, b, a)
<1> SUFFICES V(Consume(st, req, b))
  OBVIOUS
<1>1. req \in Request /\ st \in States
  BY DEF Fits
<1>2. \A r : /\ \A s : /\ To(s, r).state = s /\ To(s, r).request = r
                       /\ To(s, r).result = "indeterminate"
             /\ \A s : Good(s, r).result = "good" /\ Bad(s, r).result = "bad"
  BY DEF To, Good, Bad
<1>3. ASSUME Stuck(st, req.headers, b) PROVE V(Bad(st, req))
  BY <1>2, <1>3 DEF Verdict
<1>4. ASSUME NEW st2, NEW r, Early(st, b, st2), r.headers = req.headers
      PROVE  V(To(st2, r))
  BY <1>2, <1>4 DEF Verdict
<1>5. ASSUME NEW st2, NEW r, Late(st, req.headers, b, st2),
             st2 \in AfterCR \cup {"header_line_start"} => r.headers = req.headers
      PROVE  V(To(st2, r))
  BY <1>2, <1>5 DEF Verdict
<1> HIDE DEF V
<1>13. PICK m, u, z, j, n :
          /\ m = [req EXCEPT !.method = Append(@, b)] /\ u = [req EXCEPT !.uri = Append(@, b)]
          /\ z = [req EXCEPT !.major = 0, !.minor = 0]
          /\ j = [req EXCEPT !.major = @ * 10 + Digit(b)]
          /\ n = [req EXCEPT !.minor = @ * 10 + Digit(b)]
  OBVIOUS
<1>14. \A r \in {req, m, u, z, j, n} : r.headers = req.headers
  <2>1. /\ m.headers = req.headers /\ u.headers = req.headers /\ z.headers = req.headers
        /\ j.headers = req.headers /\ n.headers = req.headers
    BY <1>1, <1>13, HeadersStay, Zenon
  <2> QED BY <2>1
<1>6. CASE st \in LiteralStates
  <2>1. Consume(st, req, b) = IF b = Literal[st][1] THEN To(Literal[st][2], req)
                              ELSE Bad(st, req)
    BY <1>6, LiteralDomain DEF Consume, LiteralStates
  <2>2. CASE b = Literal[st][1]
    <3>1. Consume(st, req, b) = To(Literal[st][2], req)
      BY <2>1, <2>2
    <3>2. \/ Early(st, b, Literal[st][2])
          \/ Late(st, req.headers, b, Literal[st][2])
      BY <1>6, <2>2, LiteralIs DEF LiteralStates, Early, Late
    <3> QED BY <1>4, <1>5, <3>1, <3>2
  <2>3. CASE b # Literal[st][1]
    <3>1. Stuck(st, req.headers, b)
      BY <1>6, <2>3, LiteralIs DEF LiteralStates, Stuck, Early, Late
    <3> QED BY <1>3, <2>1, <2>3, <3>1
  <2> QED BY <2>2, <2>3
<1>7. CASE st \in {"method_start", "method", "uri", "http_version_slash"}
  <2>2. CASE st = "method_start"
    <3>1. Consume(st, req, b) = IF IsToken(b) THEN To("method", m) ELSE Bad(st, req)
      BY <2>2, <1>13, LiteralDomain DEF Consume, LiteralStates
    <3>2. IsToken(b) => Early(st, b, "method")
      BY <2>2, Classes DEF Early
    <3>3. ~IsToken(b) => Stuck(st, req.headers, b)
      BY <2>2, Classes DEF Stuck, Early, Late
    <3> QED BY <1>3, <1>4, <1>14, <3>1, <3>2, <3>3
  <2>3. CASE st = "method"
    <3>1. \/ Consume(st, req, b) = To("uri", req) /\ b = "SP"
          \/ Consume(st, req, b) = To("method", m) /\ IsToken(b)
          \/ Consume(st, req, b) = Bad(st, req) /\ b # "SP" /\ ~IsToken(b)
      BY <2>3, <1>13, LiteralDomain DEF Consume, LiteralStates
    <3>2. (IsToken(b) => Early(st, b, "method")) /\ (b = "SP" => Early(st, b, "uri"))
      BY <2>3, Classes DEF Early
    <3>3. b # "SP" /\ ~IsToken(b) => Stuck(st, req.headers, b)
      BY <2>3, Classes DEF Stuck, Early, Late
    <3> QED BY <1>3, <1>4, <1>14, <3>1, <3>2, <3>3
  <2>4. CASE st = "uri"
    <3>1. \/ Consume(st, req, b) = To("http_version_h", req) /\ b = "SP"
          \/ Consume(st, req, b) = To("uri", u) /\ ~IsCtl(b) /\ b # "SP"
          \/ Consume(st, req, b) = Bad(st, req) /\ b # "SP" /\ IsCtl(b)
      BY <2>4, <1>13, LiteralDomain DEF Consume, LiteralStates, IsCtl
    <3>2. /\ ~IsCtl(b) /\ b # "SP" => Early(st, b, "uri")
          /\ b = "SP" => Early(st, b, "http_version_h")
      BY <2>4, Classes DEF Early
    <3>3. b # "SP" /\ IsCtl(b) => Stuck(st, req.headers, b)
      BY <2>4, Classes DEF Stuck, Early, Late
    <3> QED BY <1>3, <1>4, <1>14, <3>1, <3>2, <3>3
  <2>5. CASE st = "http_version_slash"
    <3>1. Consume(st, req, b) = IF b = "/" THEN To("http_version_major_start", z) ELSE Bad(st, req)
      BY <2>5, <1>13, LiteralDomain DEF Consume, LiteralStates
    <3>2. b = "/" => Early(st, b, "http_version_major_start")
      BY <2>5 DEF Early
    <3>3. b # "/" => Stuck(st, req.headers, b)
      BY <2>5 DEF Stuck, Early, Late
    <3> QED BY <1>3, <1>4, <1>14, <3>1, <3>2, <3>3
  <2> QED BY <1>7, <2>2, <2>3, <2>4, <2>5
<1>8. CASE st \in {"http_version_major_start", "http_version_major"}
  <2>2. \/ Consume(st, req, b) = To("http_version_major", j) /\ IsDigit(b)
        \/ /\ Consume(st, req, b) = To("http_version_minor_start", req)
           /\ b = "." /\ st = "http_version_major"
        \/ /\ Consume(st, req, b) = Bad(st, req)
           /\ ~IsDigit(b) /\ ~(b = "." /\ st = "http_version_major")
    BY <1>8, <1>13, LiteralDomain DEF Consume, LiteralStates
  <2>3. /\ IsDigit(b) => Early(st, b, "http_version_major")
        /\ b = "." /\ st = "http_version_major" => Early(st, b, "http_version_minor_start")
    BY <1>8, Classes DEF Early
  <2>4. ~IsDigit(b) /\ ~(b = "." /\ st = "http_version_major") => Stuck(st, req.headers, b)
    BY <1>8, Classes DEF Stuck, Early, Late
  <2> QED BY <1>3, <1>4, <1>14, <2>2, <2>3, <2>4
<1>9. CASE st \in {"http_version_minor_start", "http_version_minor"}
  <2>2. \/ Consume(st, req, b) = To("http_version_minor", n) /\ IsDigit(b)
        \/ /\ Consume(st, req, b) = To("expecting_newline_1", req)
           /\ b = "CR" /\ st = "http_version_minor"
        \/ /\ Consume(st, req, b) = Bad(st, req)
           /\ ~IsDigit(b) /\ ~(b = "CR" /\ st = "http_version_minor")
    BY <1>9, <1>13, LiteralDomain DEF Consume, LiteralStates
  <2>3. /\ IsDigit(b) => Early(st, b, "http_version_minor")
        /\ b = "CR" /\ st = "http_version_minor" => Early(st, b, "expecting_newline_1")
    BY <1>9, Classes DEF Early
  <2>4. ~IsDigit(b) /\ ~(b = "CR" /\ st = "http_version_minor") => Stuck(st, req.headers, b)
    BY <1>9, Classes DEF Stuck, Early, Late
  <2> QED BY <1>3, <1>4, <1>14, <2>2, <2>3, <2>4
<1>10. CASE st = "header_line_start"
  <2>2. Consume(st, req, b) = HeaderLineStart(req, b)
    BY <1>10, LiteralDomain DEF Consume, LiteralStates
  <2>3. \/ /\ HeaderLineStart(req, b) = Bad(st, req)
           /\ b # "CR" /\ ~(req.headers # <<>> /\ b \in Blank) /\ ~IsToken(b)
        \/ HeaderLineStart(req, b) = To("expecting_newline_3", req) /\ b = "CR"
        \/ /\ HeaderLineStart(req, b) = To("header_lws", req)
           /\ req.headers # <<>> /\ b \in Blank
        \/ HeaderLineStart(req, b) = To("header_name", NewHeader(req, b)) /\ IsToken(b)
    BY <1>10 DEF HeaderLineStart, Blank
  <2>4. /\ b = "CR" => Late(st, req.headers, b, "expecting_newline_3")
        /\ req.headers # <<>> /\ b \in Blank => Late(st, req.headers, b, "header_lws")
        /\ IsToken(b) => Late(st, req.headers, b, "header_name")
    BY <1>10, Classes DEF Late
  <2>5. /\ "header_lws" \notin AfterCR \cup {"header_line_start"}
        /\ "header_name" \notin AfterCR \cup {"header_line_start"}
    BY DEF AfterCR
  <2>6. b # "CR" /\ ~(req.headers # <<>> /\ b \in Blank) /\ ~IsToken(b)
          => Stuck(st, req.headers, b)
    BY <1>10, Classes DEF Stuck, Early, Late
  <2> QED BY <1>3, <1>5, <2>2, <2>3, <2>4, <2>5, <2>6
<1>11. CASE st \in {"header_lws", "header_name", "header_value"}
  <2>2. /\ "header_lws" \notin AfterCR \cup {"header_line_start"}
        /\ "header_name" \notin AfterCR \cup {"header_line_start"}
        /\ "header_value" \notin AfterCR \cup {"header_line_start"}
        /\ "space_before_header_value" \notin AfterCR \cup {"header_line_start"}
    BY DEF AfterCR
  <2>3. CASE st = "header_lws"
    <3>1. \/ Consume(st, req, b) = To("expecting_newline_2", req) /\ b = "CR"
          \/ Consume(st, req, b) = To("header_lws", req) /\ b \in Blank
          \/ Consume(st, req, b) = To("header_value", AddValue(req, b)) /\ ~IsCtl(b) /\ b \notin Blank
          \/ Consume(st, req, b) = Bad(st, req) /\ b # "CR" /\ b \notin Blank /\ IsCtl(b)
      BY <2>3, LiteralDomain DEF Consume, HeaderLws, LiteralStates, Blank, IsCtl
    <3>2. /\ b = "CR" => Late(st, req.headers, b, "expecting_newline_2")
          /\ b \in Blank => Late(st, req.headers, b, "header_lws")
          /\ ~IsCtl(b) /\ b \notin Blank => Late(st, req.headers, b, "header_value")
      BY <2>3, Classes DEF Late, Blank
    <3>3. b # "CR" /\ b \notin Blank /\ IsCtl(b) => Stuck(st, req.headers, b)
      BY <2>3, Classes DEF Stuck, Early, Late
    <3> QED BY <1>3, <1>5, <2>2, <3>1, <3>2, <3>3
  <2>4. CASE st = "header_name"
    <3>1. \/ Consume(st, req, b) = To("space_before_header_value", req) /\ b = ":"
          \/ Consume(st, req, b) = To("header_name", AddName(req, b)) /\ IsToken(b)
          \/ Consume(st, req, b) = Bad(st, req) /\ b # ":" /\ ~IsToken(b)
      BY <2>4, LiteralDomain DEF Consume, LiteralStates
    <3>2. /\ b = ":" => Late(st, req.headers, b, "space_before_header_value")
          /\ IsToken(b) => Late(st, req.headers, b, "header_name")
      BY <2>4, Classes DEF Late
    <3>3. b # ":" /\ ~IsToken(b) => Stuck(st, req.headers, b)
      BY <2>4, Classes DEF Stuck, Early, Late
    <3> QED BY <1>3, <1>5, <2>2, <3>1, <3>2, <3>3
  <2>5. CASE st = "header_value"
    <3>1. \/ Consume(st, req, b) = To("expecting_newline_2", req) /\ b = "CR"
          \/ Consume(st, req, b) = To("header_value", AddValue(req, b)) /\ ~IsCtl(b)
          \/ Consume(st, req, b) = Bad(st, req) /\ b # "CR" /\ IsCtl(b)
      BY <2>5, LiteralDomain DEF Consume, LiteralStates, IsCtl
    <3>2. /\ b = "CR" => Late(st, req.headers, b, "expecting_newline_2")
          /\ ~IsCtl(b) => Late(st, req.headers, b, "header_value")
      BY <2>5, Classes DEF Late
    <3>3. b # "CR" /\ IsCtl(b) => Stuck(st, req.headers, b)
      BY <2>5, Classes DEF Stuck, Early, Late
    <3> QED BY <1>3, <1>5, <2>2, <3>1, <3>2, <3>3
  <2> QED BY <1>11, <2>3, <2>4, <2>5
<1>12. CASE st = "expecting_newline_3"
  <2>1. Consume(st, req, b) = IF b = "LF" THEN Good(st, req) ELSE Bad(st, req)
    BY <1>12, LiteralDomain DEF Consume, LiteralStates
  <2>2. b = "LF" => V(Good(st, req))
    BY <1>2, <1>12 DEF V, Verdict
  <2>3. b # "LF" => Stuck(st, req.headers, b)
    BY <1>12 DEF Stuck, Early, Late
  <2> QED BY <1>3, <2>1, <2>2, <2>3
<1> QED
  BY <1>1, <1>6, <1>7, <1>8, <1>9, <1>10, <1>11, <1>12 DEF States

-----------------------------------------------------------------------------
(* What the parser has seen.  Each state stands for a form of the line     *)
(* that it is in; the lines before that one are good already.              *)

Http == <<"H", "T", "T", "P", "/">>

\* The first n bytes of HTTP/ stand in l behind position j.
Prefix(l, j, n) == j + n <= Len(l) /\ \A k \in 1..n : l[j + k] = Http[k]

\* The digits of the major version reach up to position n.
Major(l, j, n) == j + 6 <= n /\ Prefix(l, j, 5) /\ AllIn(l, j + 6, n, {"1"})

VersionShape(st, l, j) ==
    \/ st = "http_version_h" /\ Len(l) = j
    \/ st = "http_version_t_1" /\ Len(l) = j + 1 /\ Prefix(l, j, 1)
    \/ st = "http_version_t_2" /\ Len(l) = j + 2 /\ Prefix(l, j, 2)
    \/ st = "http_version_p" /\ Len(l) = j + 3 /\ Prefix(l, j, 3)
    \/ st = "http_version_slash" /\ Len(l) = j + 4 /\ Prefix(l, j, 4)
    \/ st = "http_version_major_start" /\ Len(l) = j + 5 /\ Prefix(l, j, 5)
    \/ st = "http_version_major" /\ Major(l, j, Len(l))
    \/ st = "http_version_minor_start" /\ l[Len(l)] = "." /\ Major(l, j, Len(l) - 1)
    \/ /\ st = "http_version_minor"
       /\ \E dot \in 1..Len(l) - 1 :
             /\ l[dot] = "." /\ Major(l, j, dot - 1)
             /\ AllIn(l, dot + 1, Len(l), {"1"})

EarlyShape(st, l) ==
    \/ st = "method_start" /\ l = <<>>
    \/ st = "method" /\ l # <<>> /\ AllIn(l, 1, Len(l), Token)
    \/ /\ st = "uri"
       /\ \E i \in 1..Len(l) : /\ 1 < i /\ l[i] = "SP" /\ AllIn(l, 1, i - 1, Token)
                               /\ AllIn(l, i + 1, Len(l), Visible)
    \/ \E i, j \in 1..Len(l) : RequestLine(l, i, j) /\ VersionShape(st, l, j)

HeaderForm(l, colon) ==
    /\ 1 < colon /\ colon < Len(l)
    /\ l[colon] = ":" /\ AllIn(l, 1, colon - 1, Token)
    /\ l[colon + 1] = "SP" /\ AllIn(l, colon + 2, Len(l), Visible \cup {"SP"})

ContinuationForm(l, indent) ==
    /\ 1 < indent /\ AllIn(l, 1, indent - 1, Blank) /\ l[indent] \in Visible
    /\ AllIn(l, indent, Len(l), Visible \cup {"SP"})

\* A request line and headers, the first one not a continuation.
GoodLines(lines) ==
    /\ lines # <<>>
    /\ IsRequestLine(lines[1])
    /\ \A k \in 2..Len(lines) :
           IsHeader(lines[k]) \/ (k > 2 /\ IsContinuation(lines[k]))

LateShape(st, hs, lines, l) ==
    \/ /\ st = "expecting_newline_1"
       /\ GoodLines(lines) /\ Len(lines) = 1 /\ l = <<>> /\ hs = <<>>
    \/ /\ st = "header_line_start"
       /\ GoodLines(lines) /\ l = <<>> /\ (hs # <<>> <=> Len(lines) >= 2)
    \/ /\ st = "header_name"
       /\ GoodLines(lines) /\ l # <<>> /\ AllIn(l, 1, Len(l), Token)
    \/ /\ st = "space_before_header_value"
       /\ GoodLines(lines) /\ 1 < Len(l) /\ l[Len(l)] = ":" /\ AllIn(l, 1, Len(l) - 1, Token)
    \/ /\ st = "header_value"
       /\ GoodLines(lines)
       /\ \/ \E colon \in 1..Len(l) : HeaderForm(l, colon)
          \/ Len(lines) >= 2 /\ \E indent \in 1..Len(l) : ContinuationForm(l, indent)
    \/ /\ st = "header_lws"
       /\ GoodLines(lines) /\ Len(lines) >= 2 /\ l # <<>> /\ AllIn(l, 1, Len(l), Blank)
    \/ /\ st = "expecting_newline_2"
       /\ GoodLines(lines) /\ Len(lines) >= 2 /\ l = <<>> /\ hs # <<>>
    \/ /\ st = "expecting_newline_3"
       /\ l = <<>> /\ \E good \in Seq(Seq(Byte)) : GoodLines(good) /\ lines = Append(good, <<>>)

Shape(st, hs, lines, l) ==
    \/ st \in EarlyStates /\ EarlyShape(st, l) /\ lines = <<>> /\ hs = <<>>
    \/ st \notin EarlyStates /\ LateShape(st, hs, lines, l)

LEMMA AllInGrows ==
    ASSUME NEW l \in Seq(Byte), NEW b \in Byte, NEW from \in Nat, from >= 1, NEW S
    PROVE  LET t == Append(l, b)
           IN  /\ \A to \in Int : to <= Len(l) /\ AllIn(l, from, to, S) => AllIn(t, from, to, S)
               /\ AllIn(l, from, Len(l), S) /\ b \in S => AllIn(t, from, Len(t), S)
<1>1. PICK t : t = Append(l, b)
  OBVIOUS
<1>2. /\ Len(t) = Len(l) + 1 /\ Len(l) \in Nat
      /\ t[Len(l) + 1] = b /\ \A i \in 1..Len(l) : t[i] = l[i]
  BY <1>1, LastElement
<1>3. ASSUME NEW to \in Int, to <= Len(l), AllIn(l, from, to, S)
      PROVE  AllIn(t, from, to, S)
  BY <1>2, <1>3 DEF AllIn
<1>4. ASSUME AllIn(l, from, Len(l), S), b \in S
      PROVE  AllIn(t, from, Len(t), S)
  <2>1. \A i \in from..Len(t) : i \in from..Len(l) \/ i = Len(l) + 1
    BY <1>2
  <2> QED BY <1>2, <1>4, <2>1 DEF AllIn
<1> QED BY <1>1, <1>3, <1>4

\* The version, behind the second space at position j.
LEMMA VersionMoves ==
    ASSUME NEW l \in Seq(Byte), NEW b \in Byte, b # "CR", NEW j \in 1..Len(l),
           NEW st, NEW st2, VersionShape(st, l, j), Early(st, b, st2)
    PROVE  VersionShape(st2, Append(l, b), j)
<1>1. PICK t : t = Append(l, b)
  OBVIOUS
<1>2. /\ Len(t) = Len(l) + 1 /\ Len(l) \in Nat
      /\ t[Len(l) + 1] = b /\ \A i \in 1..Len(l) : t[i] = l[i]
  BY <1>1, LastElement
<1>3. \A n \in 0..5 : Prefix(l, j, n) => Prefix(t, j, n)
  BY <1>2 DEF Prefix
<1>4. ASSUME NEW n \in 0..4, Len(l) = j + n, Prefix(l, j, n), b = Http[n + 1]
      PROVE  Len(t) = j + (n + 1) /\ Prefix(t, j, n + 1)
  <2>1. \A k \in 1..(n + 1) : k \in 1..n \/ k = n + 1
    OBVIOUS
  <2> QED BY <1>2, <1>4, <2>1 DEF Prefix
<1>5. /\ Http[1] = "H" /\ Http[2] = "T" /\ Http[3] = "T" /\ Http[4] = "P" /\ Http[5] = "/"
  BY DEF Http
<1>6. \A n \in Int : n <= Len(l) /\ Major(l, j, n) => Major(t, j, n)
  <2> SUFFICES ASSUME NEW n \in Int, n <= Len(l), Major(l, j, n) PROVE Major(t, j, n)
    OBVIOUS
  <2>1. AllIn(t, j + 6, n, {"1"})
    BY <1>2 DEF Major, AllIn
  <2> QED BY <1>3, <2>1 DEF Major
<1>7. CASE st = "http_version_h"
  <2>1. Prefix(l, j, 0) /\ Len(l) = j + 0 /\ b = Http[0 + 1] /\ st2 = "http_version_t_1"
    BY <1>2, <1>5, <1>7 DEF VersionShape, Early, Prefix
  <2>2. Len(t) = j + 1 /\ Prefix(t, j, 1)
    BY <1>4, <2>1
  <2> QED BY <1>1, <2>1, <2>2 DEF VersionShape
<1>8. CASE st = "http_version_t_1"
  <2>1. Prefix(l, j, 1) /\ Len(l) = j + 1 /\ b = Http[1 + 1] /\ st2 = "http_version_t_2"
    BY <1>2, <1>5, <1>8 DEF VersionShape, Early
  <2>2. Len(t) = j + 2 /\ Prefix(t, j, 2)
    BY <1>4, <2>1
  <2> QED BY <1>1, <2>1, <2>2 DEF VersionShape
<1>9. CASE st = "http_version_t_2"
  <2>1. Prefix(l, j, 2) /\ Len(l) = j + 2 /\ b = Http[2 + 1] /\ st2 = "http_version_p"
    BY <1>2, <1>5, <1>9 DEF VersionShape, Early
  <2>2. Len(t) = j + 3 /\ Prefix(t, j, 3)
    BY <1>4, <2>1
  <2> QED BY <1>1, <2>1, <2>2 DEF VersionShape
<1>10. CASE st = "http_version_p"
  <2>1. Prefix(l, j, 3) /\ Len(l) = j + 3 /\ b = Http[3 + 1] /\ st2 = "http_version_slash"
    BY <1>2, <1>5, <1>10 DEF VersionShape, Early
  <2>2. Len(t) = j + 4 /\ Prefix(t, j, 4)
    BY <1>4, <2>1
  <2> QED BY <1>1, <2>1, <2>2 DEF VersionShape
<1>11. CASE st = "http_version_slash"
  <2>1. Prefix(l, j, 4) /\ Len(l) = j + 4 /\ b = Http[4 + 1] /\ st2 = "http_version_major_start"
    BY <1>2, <1>5, <1>11 DEF VersionShape, Early
  <2>2. Len(t) = j + 5 /\ Prefix(t, j, 5)
    BY <1>4, <2>1
  <2> QED BY <1>1, <2>1, <2>2 DEF VersionShape
<1>12. CASE st = "http_version_major_start"
  <2>1. Prefix(l, j, 5) /\ Len(l) = j + 5 /\ b = "1" /\ st2 = "http_version_major"
    BY <1>2, <1>12 DEF VersionShape, Early
  <2>2. AllIn(t, j + 6, Len(t), {"1"})
    BY <1>2, <2>1 DEF AllIn
  <2>3. Major(t, j, Len(t))
    BY <1>2, <1>3, <2>1, <2>2 DEF Major
  <2> QED BY <1>1, <2>1, <2>3 DEF VersionShape
<1>13. CASE st = "http_version_major"
  <2>1. Major(l, j, Len(l))
    BY <1>13 DEF VersionShape
  <2>2. CASE b = "1" /\ st2 = "http_version_major"
    <3>1. AllIn(t, j + 6, Len(t), {"1"})
      BY <1>1, <2>1, <2>2, AllInGrows DEF Major
    <3>2. Major(t, j, Len(t))
      BY <1>2, <1>3, <2>1, <3>1 DEF Major
    <3> QED BY <1>1, <2>2, <3>2 DEF VersionShape
  <2>3. CASE b = "." /\ st2 = "http_version_minor_start"
    <3>1. Len(t) - 1 = Len(l) /\ t[Len(t)] = "." /\ Major(t, j, Len(l))
      BY <1>2, <1>6, <2>1, <2>3
    <3> QED BY <1>1, <2>3, <3>1 DEF VersionShape
  <2> QED BY <1>13, <2>2, <2>3 DEF Early
<1>14. CASE st = "http_version_minor_start"
  <2>1. l[Len(l)] = "." /\ Major(l, j, Len(l) - 1) /\ b = "1" /\ st2 = "http_version_minor"
    BY <1>14 DEF VersionShape, Early
  <2>2. PICK dot : dot = Len(l)
    OBVIOUS
  <2>3. /\ dot \in 1..Len(t) - 1 /\ t[dot] = "." /\ Major(t, j, dot - 1)
        /\ AllIn(t, dot + 1, Len(t), {"1"})
    BY <1>2, <1>6, <2>1, <2>2 DEF AllIn
  <2> QED BY <1>1, <2>1, <2>3 DEF VersionShape
<1>15. CASE st = "http_version_minor"
  <2>1. b = "1" /\ st2 = "http_version_minor"
    BY <1>15 DEF Early
  <2>2. PICK dot \in 1..Len(l) - 1 : /\ l[dot] = "." /\ Major(l, j, dot - 1)
                                     /\ AllIn(l, dot + 1, Len(l), {"1"})
    BY <1>15 DEF VersionShape
  <2>3. AllIn(t, dot + 1, Len(t), {"1"})
    BY <1>1, <1>2, <2>1, <2>2, AllInGrows
  <2>4. dot \in 1..Len(t) - 1 /\ t[dot] = "." /\ Major(t, j, dot - 1)
    BY <1>2, <1>6, <2>2
  <2> QED BY <1>1, <2>1, <2>3, <2>4 DEF VersionShape
<1> QED
  BY <1>7, <1>8, <1>9, <1>10, <1>11, <1>12, <1>13, <1>14, <1>15 DEF VersionShape

LEMMA RequestLineGrows ==
    ASSUME NEW l \in Seq(Byte), NEW b \in Byte, NEW i \in 1..Len(l), NEW j \in 1..Len(l),
           RequestLine(l, i, j)
    PROVE  RequestLine(Append(l, b), i, j)
<1>1. PICK t : t = Append(l, b)
  OBVIOUS
<1>2. Len(l) \in Nat /\ \A k \in 1..Len(l) : t[k] = l[k]
  BY <1>1, LastElement
<1> QED BY <1>1, <1>2 DEF RequestLine, AllIn

\* The request line, as long as it has not ended.
LEMMA EarlyMoves ==
    ASSUME NEW l \in Seq(Byte), NEW b \in Byte, b # "CR",
           NEW st, NEW st2, EarlyShape(st, l), Early(st, b, st2)
    PROVE  EarlyShape(st2, Append(l, b)) /\ st2 \in EarlyStates
<1>1. PICK t : t = Append(l, b)
  OBVIOUS
<1>2. /\ Len(t) = Len(l) + 1 /\ Len(l) \in Nat /\ t \in Seq(Byte)
      /\ t[Len(l) + 1] = b /\ \A i \in 1..Len(l) : t[i] = l[i]
  BY <1>1, LastElement
<1>3. st2 \in EarlyStates
  BY DEF Early, EarlyStates
<1>4. /\ \A to \in Int : \A S : to <= Len(l) /\ AllIn(l, 1, to, S) => AllIn(t, 1, to, S)
      /\ \A S : AllIn(l, 1, Len(l), S) /\ b \in S => AllIn(t, 1, Len(t), S)
  BY <1>1, AllInGrows
<1>5. CASE st = "method_start"
  <2>1. l = <<>> /\ st2 = "method" /\ b \in Token
    BY <1>5 DEF EarlyShape, Early, VersionShape
  <2>2. t # <<>> /\ AllIn(t, 1, Len(t), Token)
    <3>1. Len(l) = 0 /\ t # <<>>
      BY <1>2, <2>1
    <3>2. AllIn(l, 1, Len(l), Token)
      BY <3>1 DEF AllIn
    <3> QED BY <1>4, <2>1, <3>1, <3>2
  <2> QED BY <1>1, <1>3, <2>1, <2>2 DEF EarlyShape
<1>6. CASE st = "method"
  <2>1. l # <<>> /\ AllIn(l, 1, Len(l), Token)
    BY <1>6 DEF EarlyShape, VersionShape
  <2>2. CASE st2 = "method" /\ b \in Token
    <3>1. t # <<>> /\ AllIn(t, 1, Len(t), Token)
      BY <1>2, <1>4, <2>1, <2>2
    <3> QED BY <1>1, <1>3, <2>2, <3>1 DEF EarlyShape
  <2>3. CASE st2 = "uri" /\ b = "SP"
    <3>1. PICK i : i = Len(l) + 1
      OBVIOUS
    <3>2. /\ i \in 1..Len(t) /\ 1 < i /\ t[i] = "SP" /\ AllIn(t, 1, i - 1, Token)
          /\ AllIn(t, i + 1, Len(t), Visible)
      BY <1>2, <2>1, <2>3, <3>1 DEF AllIn
    <3> QED BY <1>1, <1>3, <2>3, <3>2 DEF EarlyShape
  <2> QED BY <1>6, <2>2, <2>3 DEF Early
<1>7. CASE st = "uri"
  <2>1. PICK i \in 1..Len(l) : /\ 1 < i /\ l[i] = "SP" /\ AllIn(l, 1, i - 1, Token)
                               /\ AllIn(l, i + 1, Len(l), Visible)
    BY <1>7 DEF EarlyShape, VersionShape
  <2>2. i \in 1..Len(t) /\ t[i] = "SP" /\ AllIn(t, 1, i - 1, Token)
    BY <1>2, <2>1 DEF AllIn
  <2>3. CASE st2 = "uri" /\ b \in Visible
    <3>1. AllIn(t, i + 1, Len(t), Visible)
      BY <1>1, <1>2, <2>1, <2>3, AllInGrows
    <3> QED BY <1>1, <1>3, <2>1, <2>2, <2>3, <3>1 DEF EarlyShape
  <2>4. CASE st2 = "http_version_h" /\ b = "SP"
    <3>1. PICK j : j = Len(l) + 1
      OBVIOUS
    <3>2. /\ j \in 1..Len(t) /\ i < j /\ t[j] = "SP" /\ AllIn(t, i + 1, j - 1, Visible)
          /\ Len(t) = j
      BY <1>2, <2>1, <2>4, <3>1 DEF AllIn
    <3>3. RequestLine(t, i, j) /\ VersionShape(st2, t, j)
      BY <2>1, <2>2, <2>4, <3>2 DEF RequestLine, VersionShape
    <3> QED BY <1>1, <1>3, <2>2, <3>2, <3>3 DEF EarlyShape
  <2> QED BY <1>7, <2>3, <2>4 DEF Early
<1>8. CASE st \notin {"method_start", "method", "uri"}
  <2>1. PICK i, j \in 1..Len(l) : RequestLine(l, i, j) /\ VersionShape(st, l, j)
    BY <1>8 DEF EarlyShape
  <2>2. i \in 1..Len(t) /\ j \in 1..Len(t)
    BY <1>2
  <2>3. RequestLine(t, i, j) /\ VersionShape(st2, t, j)
    BY <1>1, <2>1, RequestLineGrows, VersionMoves
  <2> QED BY <1>1, <1>3, <2>2, <2>3 DEF EarlyShape
<1> QED BY <1>5, <1>6, <1>7, <1>8

LEMMA SubSeqIs ==
    ASSUME NEW s \in Seq(Byte), NEW from \in Nat, NEW to \in Nat, from >= 1,
           from <= to + 1, to <= Len(s)
    PROVE  LET v == SubSeq(s, from, to)
           IN  /\ v \in Seq(Byte) /\ Len(v) = to - from + 1
               /\ \A k \in 1..Len(v) : v[k] = s[from + k - 1]
OBVIOUS

\* The request line, when it ends.
LEMMA RequestLineEnds ==
    ASSUME NEW l \in Seq(Byte), EarlyShape("http_version_minor", l)
    PROVE  IsRequestLine(l)
<1>1. PICK i, j \in 1..Len(l) :
         RequestLine(l, i, j) /\ VersionShape("http_version_minor", l, j)
  BY DEF EarlyShape
<1>2. PICK dot \in 1..Len(l) - 1 : /\ l[dot] = "." /\ Major(l, j, dot - 1)
                                   /\ AllIn(l, dot + 1, Len(l), {"1"})
  BY <1>1 DEF VersionShape
<1>3. /\ Len(l) \in Nat /\ j + 6 <= dot - 1
      /\ \A k \in 1..5 : l[j + k] = Http[k]
      /\ \A k \in (j + 6)..(dot - 1) : l[k] = "1"
      /\ \A k \in (dot + 1)..Len(l) : l[k] = "1"
  BY <1>2 DEF Major, Prefix, AllIn
<1>4. PICK v : v = SubSeq(l, j + 1, Len(l))
  OBVIOUS
<1>5. /\ v \in Seq(Byte) /\ Len(v) = Len(l) - j
      /\ \A k \in 1..Len(v) : v[k] = l[j + k]
  <2>1. /\ v \in Seq(Byte) /\ Len(v) = Len(l) - (j + 1) + 1
        /\ \A k \in 1..Len(v) : v[k] = l[(j + 1) + k - 1]
    BY SMTT(30), <1>3, <1>4, SubSeqIs
  <2>2. \A k \in 1..Len(v) : (j + 1) + k - 1 = j + k
    BY <2>1
  <2> QED BY <1>3, <2>1, <2>2
<1>6. SubSeq(v, 1, 5) = <<"H", "T", "T", "P", "/">>
  <2>1. PICK w : w = SubSeq(v, 1, 5)
    OBVIOUS
  <2>2. w \in Seq(Byte) /\ Len(w) = 5 /\ \A k \in 1..5 : w[k] = v[k]
    <3>1. 5 <= Len(v)
      BY <1>3, <1>5
    <3>2. /\ w \in Seq(Byte) /\ Len(w) = 5 - 1 + 1
          /\ \A k \in 1..Len(w) : w[k] = v[1 + k - 1]
      BY <1>5, <2>1, <3>1, SubSeqIs
    <3> QED BY <3>2
  <2>3. \A k \in 1..5 : w[k] = Http[k]
    <3>1. \A k \in 1..5 : k \in 1..Len(v)
      BY <1>3, <1>5
    <3> QED BY <1>3, <1>5, <2>2, <3>1
  <2>4. Http \in Seq(Byte) /\ Len(Http) = 5
    BY DEF Http, Byte
  <2>5. w = Http
    BY <2>2, <2>3, <2>4, SameSequences
  <2> QED BY <2>1, <2>5 DEF Http
<1>7. PICK d : d = dot - j
  OBVIOUS
<1>8. d \in 1..Len(v) /\ 6 < d /\ d < Len(v) /\ v[d] = "."
  BY SMTT(30), <1>2, <1>3, <1>5, <1>7
<1>9. \A k \in 6..Len(v) : k # d => v[k] = "1"
  BY SMTT(30), <1>3, <1>5, <1>7
<1>10. Version(v, d)
  BY <1>6, <1>8, <1>9 DEF Version
<1> QED BY <1>1, <1>4, <1>8, <1>10 DEF IsRequestLine

LEMMA HeaderFormIsHeader ==
    ASSUME NEW l \in Seq(Byte), NEW colon \in 1..Len(l), HeaderForm(l, colon)
    PROVE  IsHeader(l)
<1> DEFINE at == {i \in 1..Len(l) : l[i] = ":"}
<1>1. colon \in at /\ Len(l) \in Nat
  BY DEF HeaderForm
<1>2. \A i \in at : colon <= i
  <2> SUFFICES ASSUME NEW i \in at, i < colon PROVE FALSE
    BY <1>1
  <2>1. i \in 1..(colon - 1) /\ l[i] = ":"
    BY <1>1
  <2>2. l[i] \in Token
    BY <2>1 DEF HeaderForm, AllIn
  <2> QED BY <2>1, <2>2 DEF Token
<1>3. \A i \in at : (\A j \in at : i <= j) => i = colon
  BY <1>1, <1>2
<1>4. (CHOOSE i \in at : \A j \in at : i <= j) = colon
  BY <1>1, <1>2, <1>3
<1>5. Position(l, ":") = colon
  BY <1>1, <1>4 DEF Position
<1> QED BY <1>5 DEF HeaderForm, IsHeader

\* The first byte that is not blank, if there is one, is unique.
LEMMA IndentIs ==
    ASSUME NEW l \in Seq(Byte), NEW i \in 1..Len(l) + 1, AllIn(l, 1, i - 1, Blank),
           i <= Len(l) => l[i] \notin Blank
    PROVE  Indent(l) = i
<1> DEFINE First(k) == AllIn(l, 1, k - 1, Blank) /\ (k <= Len(l) => l[k] \notin Blank)
<1>1. Len(l) \in Nat
  OBVIOUS
<1>2. ASSUME NEW k \in 1..Len(l) + 1, First(k) PROVE k = i
  <2>1. CASE k < i
    <3>1. k \in 1..(i - 1) /\ k <= Len(l)
      BY <1>1, <2>1
    <3> QED BY <1>2, <3>1 DEF AllIn
  <2>2. CASE i < k
    <3>1. i \in 1..(k - 1) /\ i <= Len(l)
      BY <1>1, <2>2
    <3> QED BY <1>2, <3>1 DEF AllIn
  <2> QED BY <1>1, <2>1, <2>2
<1>3. First(i)
  OBVIOUS
<1> HIDE DEF First
<1>4. (CHOOSE k \in 1..Len(l) + 1 : First(k)) = i
  BY <1>2, <1>3
<1> QED BY <1>4 DEF Indent, First

LEMMA ContinuationFormIsContinuation ==
    ASSUME NEW l \in Seq(Byte)
    PROVE  /\ l # <<>> /\ AllIn(l, 1, Len(l), Blank) => IsContinuation(l)
           /\ \A d \in 1..Len(l) : ContinuationForm(l, d) => IsContinuation(l)
<1>1. Len(l) \in Nat /\ (l # <<>> => Len(l) >= 1)
  OBVIOUS
<1>2. ASSUME l # <<>>, AllIn(l, 1, Len(l), Blank) PROVE IsContinuation(l)
  <2>1. PICK i : i = Len(l) + 1
    OBVIOUS
  <2>2. i \in 1..Len(l) + 1 /\ i - 1 = Len(l) /\ ~(i <= Len(l))
    BY <1>1, <2>1
  <2>3. Indent(l) = i
    BY <1>2, <2>2, IndentIs
  <2>4. AllIn(l, i, Len(l), Visible \cup {"SP"})
    BY <2>2, <1>1 DEF AllIn
  <2>5. l[1] \in Blank
    BY <1>1, <1>2 DEF AllIn
  <2> QED BY <1>2, <2>3, <2>4, <2>5 DEF IsContinuation
<1>3. ASSUME NEW d \in 1..Len(l), ContinuationForm(l, d) PROVE IsContinuation(l)
  <2>1. l[d] \notin Blank
    BY <1>3 DEF ContinuationForm, Visible, Token, Blank
  <2>2. Indent(l) = d
    BY <1>1, <1>3, <2>1, IndentIs DEF ContinuationForm
  <2>3. l[1] \in Blank /\ l # <<>>
    BY <1>1, <1>3 DEF ContinuationForm, AllIn
  <2> QED BY <1>3, <2>2, <2>3 DEF IsContinuation, ContinuationForm
<1> QED BY <1>2, <1>3

LEMMA GoodLinesGrow ==
    ASSUME NEW lines \in Seq(Seq(Byte)), NEW l \in Seq(Byte), GoodLines(lines),
           IsHeader(l) \/ (Len(lines) >= 2 /\ IsContinuation(l))
    PROVE  GoodLines(Append(lines, l)) /\ Len(Append(lines, l)) >= 2
<1>1. PICK more : more = Append(lines, l)
  OBVIOUS
<1>2. /\ Len(lines) \in Nat /\ Len(lines) >= 1 /\ Len(more) = Len(lines) + 1
      /\ more[Len(lines) + 1] = l /\ more # <<>>
      /\ \A k \in 1..Len(lines) : more[k] = lines[k]
  BY <1>1 DEF GoodLines
<1>3. more[1] = lines[1]
  BY <1>2
<1>4. \A k \in 2..Len(more) : k \in 2..Len(lines) \/ k = Len(lines) + 1
  BY <1>2
<1>5. \A k \in 2..Len(lines) : more[k] = lines[k]
  BY <1>2
<1>6. Len(lines) >= 2 => Len(lines) + 1 > 2
  BY <1>2
<1>7. GoodLines(more)
  BY <1>2, <1>3, <1>4, <1>5, <1>6 DEF GoodLines
<1> QED BY <1>1, <1>2, <1>7

\* A byte more in a line of a header.
LEMMA FormsGrow ==
    ASSUME NEW l \in Seq(Byte), NEW b \in Byte, NEW t, t = Append(l, b), NEW n, n = Len(l)
    PROVE  /\ l # <<>> /\ AllIn(l, 1, n, Blank) /\ b \in Visible
                => n + 1 \in 1..Len(t) /\ ContinuationForm(t, n + 1)
           /\ 1 < n /\ l[n] = ":" /\ AllIn(l, 1, n - 1, Token) /\ b = "SP"
                => n \in 1..Len(t) /\ HeaderForm(t, n)
           /\ b \in Visible \cup {"SP"} =>
                \A c \in 1..n :
                   /\ HeaderForm(l, c) => c \in 1..Len(t) /\ HeaderForm(t, c)
                   /\ ContinuationForm(l, c) => c \in 1..Len(t) /\ ContinuationForm(t, c)
<1>1. /\ Len(t) = n + 1 /\ n \in Nat /\ t \in Seq(Byte)
      /\ t[n + 1] = b /\ \A i \in 1..n : t[i] = l[i]
  BY LastElement
<1>2. ASSUME NEW from \in 1..(n + 2), NEW S
      PROVE  /\ \A to \in Int : to <= n /\ AllIn(l, from, to, S) => AllIn(t, from, to, S)
             /\ AllIn(l, from, n, S) /\ b \in S => AllIn(t, from, Len(t), S)
  <2>1. from \in Nat /\ from >= 1
    BY <1>1
  <2> QED BY <2>1, AllInGrows
<1>3. ASSUME l # <<>>, AllIn(l, 1, n, Blank), b \in Visible
      PROVE  n + 1 \in 1..Len(t) /\ ContinuationForm(t, n + 1)
  <2>1. PICK d : d = n + 1
    OBVIOUS
  <2>2. d \in 1..Len(t) /\ 1 < d /\ d - 1 = n /\ t[d] \in Visible
    BY <1>1, <1>3, <2>1
  <2>3. AllIn(t, 1, d - 1, Blank) /\ AllIn(t, d, Len(t), Visible \cup {"SP"})
    BY <1>1, <1>3, <2>1 DEF AllIn
  <2> QED BY <2>1, <2>2, <2>3 DEF ContinuationForm
<1>4. ASSUME 1 < n, l[n] = ":", AllIn(l, 1, n - 1, Token), b = "SP"
      PROVE  n \in 1..Len(t) /\ HeaderForm(t, n)
  <2>1. n \in 1..Len(t) /\ 1 < n /\ n < Len(t) /\ t[n] = ":" /\ t[n + 1] = "SP"
    BY <1>1, <1>4
  <2>2. AllIn(t, 1, n - 1, Token) /\ AllIn(t, n + 2, Len(t), Visible \cup {"SP"})
    BY <1>1, <1>4 DEF AllIn
  <2> QED BY <2>1, <2>2 DEF HeaderForm
<1>5. ASSUME NEW c \in 1..n, b \in Visible \cup {"SP"}, HeaderForm(l, c)
      PROVE  c \in 1..Len(t) /\ HeaderForm(t, c)
  <2>1. AllIn(t, c + 2, Len(t), Visible \cup {"SP"})
    <3>1. c + 2 \in 1..(n + 2)
      BY <1>1
    <3> QED BY <1>2, <1>5, <3>1 DEF HeaderForm
  <2>2. AllIn(t, 1, c - 1, Token)
    BY <1>1, <1>5 DEF HeaderForm, AllIn
  <2>3. c < Len(t) /\ t[c] = ":" /\ t[c + 1] = "SP" /\ c \in 1..Len(t)
    BY <1>1, <1>5 DEF HeaderForm
  <2> QED BY <1>5, <2>1, <2>2, <2>3 DEF HeaderForm
<1>6. ASSUME NEW d \in 1..n, b \in Visible \cup {"SP"}, ContinuationForm(l, d)
      PROVE  d \in 1..Len(t) /\ ContinuationForm(t, d)
  <2>1. AllIn(t, d, Len(t), Visible \cup {"SP"})
    <3>1. d \in 1..(n + 2)
      BY <1>1
    <3> QED BY <1>2, <1>6, <3>1 DEF ContinuationForm
  <2>2. AllIn(t, 1, d - 1, Blank)
    BY <1>1, <1>6 DEF ContinuationForm, AllIn
  <2>3. t[d] \in Visible /\ d \in 1..Len(t)
    BY <1>1, <1>6 DEF ContinuationForm
  <2> QED BY <1>6, <2>1, <2>2, <2>3 DEF ContinuationForm
<1> QED BY <1>3, <1>4, <1>5, <1>6

\* A line of headers goes on.
LEMMA LateMoves ==
    ASSUME NEW l \in Seq(Byte), NEW b \in Byte, b \notin {"CR", "LF"},
           NEW st, NEW st2, NEW hs, NEW more, NEW lines,
           LateShape(st, hs, lines, l), Late(st, hs, b, st2)
    PROVE  /\ LateShape(st2, more, lines, Append(l, b))
           /\ st \notin AfterCR
           /\ st2 \in {"header_name", "space_before_header_value", "header_value", "header_lws"}
<1>1. PICK t : t = Append(l, b)
  OBVIOUS
<1>2. /\ Len(t) = Len(l) + 1 /\ Len(l) \in Nat /\ t \in Seq(Byte) /\ t # <<>>
      /\ t[Len(l) + 1] = b /\ \A i \in 1..Len(l) : t[i] = l[i]
  BY <1>1, LastElement
<1>3. /\ \A from \in 1..(Len(l) + 2), to \in Int : \A S :
             to <= Len(l) /\ AllIn(l, from, to, S) => AllIn(t, from, to, S)
      /\ \A from \in 1..(Len(l) + 2) : \A S :
             AllIn(l, from, Len(l), S) /\ b \in S => AllIn(t, from, Len(t), S)
  <2> SUFFICES ASSUME NEW from \in 1..(Len(l) + 2), NEW S
               PROVE  /\ \A to \in Int : to <= Len(l) /\ AllIn(l, from, to, S) => AllIn(t, from, to, S)
                      /\ AllIn(l, from, Len(l), S) /\ b \in S => AllIn(t, from, Len(t), S)
    OBVIOUS
  <2>1. from \in Nat /\ from >= 1
    BY <1>2
  <2> QED BY <1>1, <2>1, AllInGrows
<1>4. /\ st \notin AfterCR
      /\ st2 \in {"header_name", "space_before_header_value", "header_value", "header_lws"}
  BY DEF Late, AfterCR, Blank
<1>5. CASE st = "header_line_start"
  <2>1. GoodLines(lines) /\ l = <<>> /\ (hs # <<>> => Len(lines) >= 2)
    BY <1>5 DEF LateShape
  <2>2. Len(t) = 1 /\ t[1] = b
    BY <1>2, <2>1
  <2>3. CASE b \in Blank /\ hs # <<>> /\ st2 = "header_lws"
    BY <1>1, <1>2, <1>4, <2>1, <2>2, <2>3 DEF LateShape, AllIn
  <2>4. CASE b \in Token /\ st2 = "header_name"
    BY <1>1, <1>2, <1>4, <2>1, <2>2, <2>4 DEF LateShape, AllIn
  <2> QED BY <1>5, <2>3, <2>4 DEF Late
<1>6. CASE st = "header_lws"
  <2>1. GoodLines(lines) /\ Len(lines) >= 2 /\ l # <<>> /\ AllIn(l, 1, Len(l), Blank)
    BY <1>6 DEF LateShape
  <2>2. CASE b \in Blank /\ st2 = "header_lws"
    <3>1. AllIn(t, 1, Len(t), Blank)
      BY <1>2, <1>3, <2>1, <2>2
    <3> QED BY <1>1, <1>2, <1>4, <2>1, <2>2, <3>1 DEF LateShape
  <2>3. CASE b \in Visible /\ st2 = "header_value"
    <3>1. Len(l) + 1 \in 1..Len(t) /\ ContinuationForm(t, Len(l) + 1)
      BY <1>1, <2>1, <2>3, FormsGrow
    <3> QED BY <1>1, <1>4, <2>1, <2>3, <3>1 DEF LateShape
  <2> QED BY <1>6, <2>2, <2>3 DEF Late
<1>7. CASE st = "header_name"
  <2>1. GoodLines(lines) /\ l # <<>> /\ AllIn(l, 1, Len(l), Token)
    BY <1>7 DEF LateShape
  <2>2. CASE b = ":" /\ st2 = "space_before_header_value"
    <3>1. 1 < Len(t) /\ t[Len(t)] = ":" /\ Len(t) - 1 = Len(l)
      BY <1>2, <2>1, <2>2
    <3>2. AllIn(t, 1, Len(t) - 1, Token)
      BY <1>2, <1>3, <2>1, <3>1
    <3> QED BY <1>1, <1>4, <2>1, <2>2, <3>1, <3>2 DEF LateShape
  <2>3. CASE b \in Token /\ st2 = "header_name"
    <3>1. AllIn(t, 1, Len(t), Token)
      BY <1>2, <1>3, <2>1, <2>3
    <3> QED BY <1>1, <1>2, <1>4, <2>1, <2>3, <3>1 DEF LateShape
  <2> QED BY <1>7, <2>2, <2>3 DEF Late
<1>8. CASE st = "space_before_header_value"
  <2>1. /\ GoodLines(lines) /\ 1 < Len(l) /\ l[Len(l)] = ":" /\ AllIn(l, 1, Len(l) - 1, Token)
        /\ b = "SP" /\ st2 = "header_value"
    BY <1>8 DEF LateShape, Late
  <2>2. Len(l) \in 1..Len(t) /\ HeaderForm(t, Len(l))
    BY <1>1, <2>1, FormsGrow
  <2> QED BY <1>1, <1>4, <2>1, <2>2 DEF LateShape
<1>9. CASE st = "header_value"
  <2>1. b \in Visible \cup {"SP"} /\ st2 = "header_value" /\ GoodLines(lines)
    BY <1>9 DEF Late, LateShape
  <2>2. \A c \in 1..Len(l) :
           /\ HeaderForm(l, c) => c \in 1..Len(t) /\ HeaderForm(t, c)
           /\ ContinuationForm(l, c) => c \in 1..Len(t) /\ ContinuationForm(t, c)
    BY <1>1, <2>1, FormsGrow
  <2>3. \/ \E c \in 1..Len(l) : HeaderForm(l, c)
        \/ Len(lines) >= 2 /\ \E d \in 1..Len(l) : ContinuationForm(l, d)
    BY <1>9 DEF LateShape
  <2>4. \/ \E c \in 1..Len(t) : HeaderForm(t, c)
        \/ Len(lines) >= 2 /\ \E d \in 1..Len(t) : ContinuationForm(t, d)
    BY <2>2, <2>3
  <2> QED BY <1>1, <1>4, <2>1, <2>4 DEF LateShape
<1> QED
  BY <1>5, <1>6, <1>7, <1>8, <1>9 DEF Late

\* A line of headers, or the empty one, ends.
LEMMA LateEnds ==
    ASSUME NEW l \in Seq(Byte), NEW lines \in Seq(Seq(Byte)),
           NEW st, NEW st2, NEW hs, NEW more,
           LateShape(st, hs, lines, l), Late(st, hs, "CR", st2),
           st2 \in NeedsHeader => more # <<>>
    PROVE  /\ LateShape(st2, more, Append(lines, l), <<>>)
           /\ st \notin AfterCR /\ st2 \in AfterCR
<1>1. \/ st = "header_line_start" /\ st2 = "expecting_newline_3"
      \/ st = "header_lws" /\ st2 = "expecting_newline_2"
      \/ st = "header_value" /\ st2 = "expecting_newline_2"
  BY DEF Late, Blank, Token, Visible
<1>2. st \notin AfterCR /\ st2 \in AfterCR
  BY <1>1 DEF AfterCR
<1>3. CASE st = "header_line_start"
  <2>1. GoodLines(lines) /\ l = <<>> /\ st2 = "expecting_newline_3"
    BY <1>1, <1>3 DEF LateShape
  <2> QED BY <1>2, <2>1 DEF LateShape
<1>4. CASE st \in {"header_lws", "header_value"}
  <2>1. GoodLines(lines) /\ st2 = "expecting_newline_2" /\ more # <<>>
    BY <1>1, <1>4 DEF LateShape, NeedsHeader
  <2>2. IsHeader(l) \/ (Len(lines) >= 2 /\ IsContinuation(l))
    <3>1. CASE st = "header_lws"
      BY <3>1, ContinuationFormIsContinuation DEF LateShape
    <3>2. CASE st = "header_value"
      BY <3>2, HeaderFormIsHeader, ContinuationFormIsContinuation DEF LateShape
    <3> QED BY <1>4, <3>1, <3>2
  <2>3. GoodLines(Append(lines, l)) /\ Len(Append(lines, l)) >= 2
    BY <2>1, <2>2, GoodLinesGrow
  <2> QED BY <1>2, <2>1, <2>3 DEF LateShape
<1> QED BY <1>1, <1>3, <1>4

\* What a byte makes of the text that the state stands for.
LEMMA ShapeMoves ==
    ASSUME NEW l \in Seq(Byte), NEW lines \in Seq(Seq(Byte)), NEW st, NEW hs, NEW b \in Byte,
           NEW a, a.result = "indeterminate", Verdict(st, hs, b, a), Shape(st, hs, lines, l),
           a.state \in NeedsHeader => a.request.headers # <<>>
    PROVE  /\ b \notin {"CR", "LF"} =>
                 /\ Shape(a.state, a.request.headers, lines, Append(l, b))
                 /\ st \notin AfterCR /\ a.state \notin AfterCR
           /\ b = "CR" =>
                 /\ Shape(a.state, a.request.headers, Append(lines, l), <<>>)
                 /\ st \notin AfterCR /\ a.state \in AfterCR
           /\ b = "LF" =>
                 /\ Shape(a.state, a.request.headers, lines, <<>>)
                 /\ st \in AfterCR /\ a.state = "header_line_start"
<1>1. PICK st2, more : st2 = a.state /\ more = a.request.headers
  OBVIOUS
<1>2. \/ Early(st, b, st2) /\ more = hs
      \/ /\ Late(st, hs, b, st2)
         /\ st2 \in AfterCR \cup {"header_line_start"} => more = hs
  BY <1>1 DEF Verdict
<1>3. CASE Early(st, b, st2) /\ more = hs
  <2>1. st \in EarlyStates
    BY <1>3 DEF Early, EarlyStates
  <2>2. EarlyShape(st, l) /\ lines = <<>> /\ hs = <<>>
    BY <2>1 DEF Shape
  <2>3. b # "LF" /\ st \notin AfterCR
    BY <1>3 DEF Early, AfterCR, Token, Visible
  <2>4. CASE b # "CR"
    <3>1. EarlyShape(st2, Append(l, b)) /\ st2 \in EarlyStates
      BY <1>3, <2>2, <2>4, EarlyMoves
    <3>2. st2 \notin AfterCR
      BY <3>1 DEF EarlyStates, AfterCR
    <3>3. Shape(st2, more, lines, Append(l, b))
      BY <1>3, <2>2, <3>1 DEF Shape
    <3> QED BY <1>1, <2>3, <2>4, <3>2, <3>3
  <2>5. CASE b = "CR"
    <3>1. st = "http_version_minor" /\ st2 = "expecting_newline_1"
      BY <1>3, <2>5 DEF Early, Token, Visible
    <3>2. IsRequestLine(l)
      BY <2>2, <3>1, RequestLineEnds
    <3>3. Append(lines, l) = <<l>>
      BY <2>2
    <3>4. GoodLines(<<l>>) /\ Len(<<l>>) = 1
      BY <3>2 DEF GoodLines
    <3>5. st2 \notin EarlyStates /\ st2 \in AfterCR
      BY <3>1 DEF EarlyStates, AfterCR
    <3>6. LateShape(st2, more, Append(lines, l), <<>>)
      BY <1>3, <2>2, <3>1, <3>3, <3>4 DEF LateShape
    <3>7. Shape(st2, more, Append(lines, l), <<>>)
      BY <3>5, <3>6 DEF Shape
    <3> QED BY <1>1, <2>3, <2>5, <3>5, <3>7
  <2> QED BY <2>4, <2>5
<1>4. CASE /\ Late(st, hs, b, st2)
           /\ st2 \in AfterCR \cup {"header_line_start"} => more = hs
  <2>1. st \notin EarlyStates /\ st2 \notin EarlyStates
    BY <1>4 DEF Late, EarlyStates
  <2>2. LateShape(st, hs, lines, l)
    BY <2>1 DEF Shape
  <2>3. CASE b \notin {"CR", "LF"}
    <3>1. /\ LateShape(st2, more, lines, Append(l, b)) /\ st \notin AfterCR
          /\ st2 \in {"header_name", "space_before_header_value", "header_value", "header_lws"}
      BY <1>4, <2>2, <2>3, LateMoves
    <3>2. st2 \notin AfterCR
      BY <3>1 DEF AfterCR
    <3>3. Shape(st2, more, lines, Append(l, b))
      BY <2>1, <3>1 DEF Shape
    <3> QED BY <1>1, <2>3, <3>1, <3>2, <3>3
  <2>4. CASE b = "CR"
    <3>0. st2 \in NeedsHeader => more # <<>>
      BY <1>1
    <3>1. LateShape(st2, more, Append(lines, l), <<>>) /\ st \notin AfterCR /\ st2 \in AfterCR
      BY <3>0, <1>4, <2>2, <2>4, LateEnds
    <3>2. Shape(st2, more, Append(lines, l), <<>>)
      BY <2>1, <3>1 DEF Shape
    <3> QED BY <1>1, <2>4, <3>1, <3>2
  <2>5. CASE b = "LF"
    <3>1. st2 = "header_line_start" /\ st \in {"expecting_newline_1", "expecting_newline_2"}
      BY <1>4, <2>5 DEF Late, Token, Visible, Blank
    <3>2. more = hs /\ st \in AfterCR
      BY <1>4, <3>1 DEF AfterCR
    <3>3. GoodLines(lines) /\ (hs # <<>> <=> Len(lines) >= 2)
      <4>1. CASE st = "expecting_newline_1"
        <5>1. GoodLines(lines) /\ Len(lines) = 1 /\ hs = <<>>
          BY <2>2, <4>1 DEF LateShape
        <5>2. ~(Len(lines) >= 2)
          BY <5>1
        <5> QED BY <5>1, <5>2, Zenon
      <4>2. CASE st = "expecting_newline_2"
        BY <2>2, <4>2 DEF LateShape
      <4> QED BY <3>1, <4>1, <4>2
    <3>5. LateShape(st2, more, lines, <<>>)
      BY <3>1, <3>2, <3>3 DEF LateShape
    <3>4. Shape(st2, more, lines, <<>>)
      BY <2>1, <3>5 DEF Shape
    <3> QED BY <1>1, <2>5, <3>1, <3>2, <3>4
  <2> QED BY <2>3, <2>4, <2>5
<1> QED BY <1>2, <1>3, <1>4

-----------------------------------------------------------------------------
(* What has been read does not change: the lines of a text that goes on,   *)
(* and the beginning of the line that it was in.                           *)

StartsWith(line, l) == Len(l) <= Len(line) /\ \A i \in 1..Len(l) : line[i] = l[i]

Continues(p, w) ==
    LET n == Len(LinesOf(p))
    IN  /\ Ranked(LineEnds(w)) /\ LinesOf(w) \in Seq(Seq(Byte))
        /\ Len(LinesOf(w)) >= n /\ \A k \in 1..n : LinesOf(w)[k] = LinesOf(p)[k]
        /\ LineBegin(p) <= Len(p) + 1 =>
              /\ Len(LinesOf(w)) = n =>
                    LineBegin(w) <= Len(w) + 1 /\ StartsWith(Rest(w), Rest(p))
              /\ Len(LinesOf(w)) > n => StartsWith(LinesOf(w)[n + 1], Rest(p))

LEMMA ContinuesStep ==
    ASSUME NEW p \in Seq(Byte), NEW w \in Seq(Byte), NEW c \in Byte,
           Ranked(LineEnds(p)), LinesOf(p) \in Seq(Seq(Byte)), Continues(p, w)
    PROVE  Continues(p, Append(w, c))
<1>1. PICK v, n, lines, r, pl :
         /\ v = Append(w, c) /\ n = Len(LinesOf(p)) /\ lines = LinesOf(w) /\ r = Rest(w)
         /\ pl = Rest(p)
  OBVIOUS
<1>2. v \in Seq(Byte) /\ Len(v) = Len(w) + 1 /\ Len(w) \in Nat
  BY <1>1, LastElement
<1>3. /\ Ranked(LineEnds(w)) /\ lines \in Seq(Seq(Byte)) /\ Len(lines) >= n
      /\ \A k \in 1..n : lines[k] = LinesOf(p)[k]
  BY <1>1 DEF Continues
<1>4. r \in Seq(Byte) /\ pl \in Seq(Byte) /\ LineBegin(w) \in Nat /\ n \in Nat /\ Len(lines) \in Nat
  BY <1>1, <1>3, RestGrows
<1>5. CASE c # "CR"
  <2>1. Ranked(LineEnds(v)) /\ LinesOf(v) = lines /\ LineBegin(v) = LineBegin(w)
    BY <1>1, <1>3, <1>5, LineGoesOn
  <2>2. ASSUME LineBegin(p) <= Len(p) + 1, Len(lines) = n
        PROVE  LineBegin(v) <= Len(v) + 1 /\ StartsWith(Rest(v), pl)
    <3>1. LineBegin(w) <= Len(w) + 1 /\ StartsWith(r, pl)
      BY <1>1, <2>2 DEF Continues
    <3>2. Rest(v) = Append(r, c)
      BY <1>1, <1>3, <1>5, <3>1, RestGrows
    <3>3. Len(Append(r, c)) = Len(r) + 1 /\ \A i \in 1..Len(r) : Append(r, c)[i] = r[i]
      BY <1>4, LastElement
    <3>4. StartsWith(Append(r, c), pl)
      BY <1>4, <3>1, <3>3 DEF StartsWith
    <3>5. LineBegin(v) <= Len(v) + 1
      BY <1>2, <1>4, <2>1, <3>1
    <3> QED BY <3>2, <3>4, <3>5
  <2>3. ASSUME LineBegin(p) <= Len(p) + 1, Len(lines) > n
        PROVE  StartsWith(lines[n + 1], pl)
    BY <1>1, <2>3 DEF Continues
  <2>4. Continues(p, v)
    BY <1>1, <1>3, <2>1, <2>2, <2>3, Zenon DEF Continues
  <2> QED BY <1>1, <2>4
<1>6. CASE c = "CR"
  <2>1. Ranked(LineEnds(v)) /\ LinesOf(v) = Append(lines, r)
    BY <1>1, <1>3, <1>6, LineIsMade
  <2>2. PICK more : more = Append(lines, r)
    OBVIOUS
  <2>3. /\ more \in Seq(Seq(Byte)) /\ Len(more) = Len(lines) + 1 /\ more[Len(lines) + 1] = r
        /\ \A k \in 1..Len(lines) : more[k] = lines[k]
    BY <1>3, <1>4, <2>2
  <2>4. Len(more) > n /\ \A k \in 1..n : more[k] = LinesOf(p)[k]
    BY <1>3, <1>4, <2>3
  <2>5. ASSUME LineBegin(p) <= Len(p) + 1 PROVE StartsWith(more[n + 1], pl)
    <3>1. CASE Len(lines) = n
      BY <1>1, <2>3, <2>5, <3>1 DEF Continues
    <3>2. CASE Len(lines) > n
      <4>1. StartsWith(lines[n + 1], pl)
        BY <1>1, <2>5, <3>2 DEF Continues
      <4>2. more[n + 1] = lines[n + 1]
        <5>1. n + 1 \in 1..Len(lines)
          BY <1>4, <3>2
        <5> QED BY <2>3, <5>1
      <4> QED BY <4>1, <4>2
    <3> QED BY <1>3, <1>4, <3>1, <3>2
  <2>6. Len(more) # n /\ Len(more) >= n
    BY <1>3, <1>4, <2>3
  <2>7. Continues(p, v)
    BY <1>1, <2>1, <2>2, <2>3, <2>4, <2>5, <2>6, Zenon DEF Continues
  <2> QED BY <1>1, <2>7
<1> QED BY <1>5, <1>6

LEMMA Concat ==
    ASSUME NEW s \in Seq(Byte), NEW u \in Seq(Byte), NEW b \in Byte
    PROVE  /\ s \o <<>> = s /\ s \o u \in Seq(Byte)
           /\ s \o Append(u, b) = Append(s \o u, b)
           /\ Len(s \o u) = Len(s) + Len(u)
           /\ \A i \in 1..Len(s) : (s \o u)[i] = s[i]
OBVIOUS

LEMMA LinesStay ==
    ASSUME NEW p \in Seq(Byte), Ranked(LineEnds(p)), LinesOf(p) \in Seq(Seq(Byte)),
           NEW u \in Seq(Byte)
    PROVE  Continues(p, p \o u)
<1> DEFINE G == {x \in Seq(Byte) : Continues(p, p \o x)}
<1>1. <<>> \in G
  <2>1. p \o <<>> = p /\ <<>> \in Seq(Byte)
    OBVIOUS
  <2>2. \A l : StartsWith(l, l) <=> Len(l) <= Len(l)
    BY DEF StartsWith
  <2>3. StartsWith(Rest(p), Rest(p))
    <3>1. Rest(p) \in Seq(Byte)
      BY RestGrows DEF Byte
    <3>2. Len(Rest(p)) <= Len(Rest(p))
      BY <3>1
    <3> QED BY <2>2, <3>2
  <2>4. PICK n : n = Len(LinesOf(p))
    OBVIOUS
  <2>5. n \in Nat /\ n >= n /\ ~(n > n)
    <3>1. n \in Nat
      BY <2>4
    <3> QED BY <3>1
  <2>6. Continues(p, p)
    BY <2>3, <2>4, <2>5, Zenon DEF Continues
  <2> QED BY <2>1, <2>6
<1>2. ASSUME NEW x \in G, NEW c \in Byte PROVE Append(x, c) \in G
  <2>1. x \in Seq(Byte) /\ Continues(p, p \o x)
    OBVIOUS
  <2>2. p \o x \in Seq(Byte) /\ p \o Append(x, c) = Append(p \o x, c)
    BY <2>1, Concat
  <2>3. Continues(p, Append(p \o x, c))
    BY <2>1, <2>2, ContinuesStep
  <2>4. Append(x, c) \in Seq(Byte)
    BY <2>1
  <2> QED BY <2>2, <2>3, <2>4
<1>3. G \in SUBSET Seq(Byte)
  OBVIOUS
<1> HIDE DEF G
<1>4. u \in G
  BY <1>1, <1>2, <1>3, InductionOnSeq
<1> QED BY <1>4 DEF G

-----------------------------------------------------------------------------
(* What a form asks for.  If the line that the parser is in is to become a *)
(* line of the form, the next byte, CR if it is complete, takes it on.     *)

FullRequestLine(line, i, j, dot) ==
    /\ RequestLine(line, i, j)
    /\ j + 6 < dot /\ dot < Len(line) /\ line[dot] = "."
    /\ \A k \in 1..5 : line[j + k] = Http[k]
    /\ \A k \in (j + 6)..Len(line) : k # dot => line[k] = "1"

LEMMA RequestLineIs ==
    ASSUME NEW line \in Seq(Byte), IsRequestLine(line)
    PROVE  \E i, j, dot \in 1..Len(line) : FullRequestLine(line, i, j, dot)
<1>1. PICK i, j \in 1..Len(line) :
         /\ RequestLine(line, i, j)
         /\ \E d \in 1..Len(SubSeq(line, j + 1, Len(line))) :
               Version(SubSeq(line, j + 1, Len(line)), d)
  BY Zenon DEF IsRequestLine
<1>2. PICK v : v = SubSeq(line, j + 1, Len(line))
  OBVIOUS
<1>3. PICK d \in 1..Len(v) : Version(v, d)
  BY <1>1, <1>2
<1>4. /\ v \in Seq(Byte) /\ Len(v) = Len(line) - j
      /\ \A k \in 1..Len(v) : v[k] = line[j + k]
  <2>1. /\ v \in Seq(Byte) /\ Len(v) = Len(line) - (j + 1) + 1
        /\ \A k \in 1..Len(v) : v[k] = line[(j + 1) + k - 1]
    <3>1. j + 1 \in Nat /\ j + 1 >= 1 /\ j + 1 <= Len(line) + 1 /\ Len(line) \in Nat
      OBVIOUS
    <3> QED BY <1>2, <3>1, SubSeqIs
  <2>2. \A k \in 1..Len(v) : (j + 1) + k - 1 = j + k
    BY <2>1
  <2> QED BY <2>1, <2>2
<1>5. /\ 6 < d /\ d < Len(v) /\ SubSeq(v, 1, 5) = Http
      /\ v[d] = "." /\ \A k \in 6..Len(v) : k # d => v[k] = "1"
  BY <1>3 DEF Version, Http
<1>6. \A k \in 1..5 : line[j + k] = Http[k]
  <2>1. PICK h : h = SubSeq(v, 1, 5)
    OBVIOUS
  <2>2. \A k \in 1..5 : k \in 1..Len(v)
    BY <1>4, <1>5
  <2>3. /\ Len(h) = 5 /\ \A k \in 1..Len(h) : h[k] = v[1 + k - 1]
    <3>1. 5 <= Len(v)
      BY <1>4, <1>5
    <3> QED BY <1>4, <2>1, <3>1, SubSeqIs
  <2>4. \A k \in 1..5 : h[k] = v[k]
    BY <2>3
  <2> QED BY <1>4, <1>5, <2>1, <2>2, <2>4
<1>7. PICK dot : dot = j + d
  OBVIOUS
<1>8. dot \in 1..Len(line) /\ j + 6 < dot /\ dot < Len(line) /\ line[dot] = "."
  BY <1>4, <1>5, <1>7
<1>9. ASSUME NEW k \in (j + 6)..Len(line), k # dot PROVE line[k] = "1"
  <2>1. PICK m : m = k - j
    OBVIOUS
  <2>2. m \in 6..Len(v) /\ m # d /\ m \in 1..Len(v) /\ j + m = k
    BY <1>4, <1>7, <1>9, <2>1
  <2> QED BY <1>4, <1>5, <2>2
<1> QED BY <1>1, <1>6, <1>8, <1>9 DEF FullRequestLine

\* The spaces of two request lines, one of which begins the other.
LEMMA SameSpaces ==
    ASSUME NEW l \in Seq(Byte), NEW line \in Seq(Byte), StartsWith(line, l),
           NEW i \in 1..Len(line), NEW j \in 1..Len(line), RequestLine(line, i, j),
           NEW i2 \in 1..Len(l), NEW j2 \in 1..Len(l), RequestLine(l, i2, j2)
    PROVE  i = i2 /\ j = j2
<1>1. "SP" \notin Token /\ "SP" \notin Visible
  BY DEF Token, Visible
<1>2. \A k \in 1..Len(l) : line[k] = l[k] /\ k \in 1..Len(line)
  BY DEF StartsWith
<1>3. /\ line[i] = "SP" /\ \A k \in 1..(i - 1) : line[k] \in Token
      /\ line[j] = "SP" /\ \A k \in (i + 1)..(j - 1) : line[k] \in Visible
      /\ i < j
  BY DEF RequestLine, AllIn
<1>4. /\ l[i2] = "SP" /\ \A k \in 1..(i2 - 1) : l[k] \in Token
      /\ l[j2] = "SP" /\ \A k \in (i2 + 1)..(j2 - 1) : l[k] \in Visible
      /\ i2 < j2
  BY DEF RequestLine, AllIn
<1>5. Len(l) \in Nat /\ Len(line) \in Nat
  OBVIOUS
<1>6. i = i2
  <2>1. CASE i < i2
    <3>1. i \in 1..(i2 - 1) /\ i \in 1..Len(l)
      BY <1>5, <2>1
    <3> QED BY <1>1, <1>2, <1>3, <1>4, <3>1
  <2>2. CASE i2 < i
    <3>1. i2 \in 1..(i - 1)
      BY <1>5, <2>2
    <3> QED BY <1>1, <1>2, <1>3, <1>4, <3>1
  <2> QED BY <1>5, <2>1, <2>2
<1>7. j = j2
  <2>1. CASE j < j2
    <3>1. j \in (i2 + 1)..(j2 - 1) /\ j \in 1..Len(l)
      BY <1>3, <1>5, <1>6, <2>1
    <3> QED BY <1>1, <1>2, <1>3, <1>4, <3>1
  <2>2. CASE j2 < j
    <3>1. j2 \in (i + 1)..(j - 1)
      BY <1>4, <1>5, <1>6, <2>2
    <3> QED BY <1>1, <1>2, <1>3, <1>4, <3>1
  <2> QED BY <1>5, <2>1, <2>2
<1> QED BY <1>6, <1>7

LEMMA VersionNeeds ==
    ASSUME NEW l \in Seq(Byte), NEW line \in Seq(Byte), StartsWith(line, l),
           NEW i \in 1..Len(l), NEW j \in 1..Len(l), NEW dot \in 1..Len(line),
           FullRequestLine(line, i, j, dot), NEW st, VersionShape(st, l, j)
    PROVE  /\ Len(line) = Len(l) => st = "http_version_minor"
           /\ Len(line) > Len(l) => \E st2 : Early(st, line[Len(l) + 1], st2)
<1>1. PICK q : q = Len(l) + 1
  OBVIOUS
<1>2. /\ Len(l) \in Nat /\ Len(line) \in Nat /\ Len(l) <= Len(line)
      /\ \A k \in 1..Len(l) : line[k] = l[k]
  BY DEF StartsWith
<1>3. /\ j + 6 < dot /\ dot < Len(line) /\ line[dot] = "."
      /\ \A k \in 1..5 : line[j + k] = Http[k]
      /\ \A k \in (j + 6)..Len(line) : k # dot => line[k] = "1"
  BY DEF FullRequestLine
<1>4. /\ Http[1] = "H" /\ Http[2] = "T" /\ Http[3] = "T" /\ Http[4] = "P" /\ Http[5] = "/"
  BY DEF Http
<1>5. CASE st \in {"http_version_h", "http_version_t_1", "http_version_t_2",
                   "http_version_p", "http_version_slash"}
  <2>1. PICK n \in 0..4 :
           /\ Len(l) = j + n
           /\ n = 0 <=> st = "http_version_h"
           /\ n = 1 <=> st = "http_version_t_1"
           /\ n = 2 <=> st = "http_version_t_2"
           /\ n = 3 <=> st = "http_version_p"
           /\ n = 4 <=> st = "http_version_slash"
    BY <1>2, <1>5 DEF VersionShape
  <2>2. q = j + (n + 1) /\ n + 1 \in 1..5 /\ Len(line) # Len(l)
    BY <1>1, <1>2, <1>3, <2>1
  <2>3. line[q] = Http[n + 1]
    BY <1>3, <2>2
  <2>4. \E st2 : Early(st, Http[n + 1], st2)
    BY <1>4, <1>5, <2>1 DEF Early
  <2> QED BY <1>1, <2>2, <2>3, <2>4
<1>6. CASE st = "http_version_major_start"
  <2>1. Len(l) = j + 5
    BY <1>6 DEF VersionShape
  <2>2. q = j + 6 /\ q \in (j + 6)..Len(line) /\ q # dot /\ Len(line) # Len(l)
    BY <1>1, <1>2, <1>3, <2>1
  <2>3. line[q] = "1"
    BY <1>3, <2>2
  <2> QED BY <1>1, <1>6, <2>2, <2>3 DEF Early
<1>7. CASE st = "http_version_major"
  <2>1. j + 6 <= Len(l) /\ \A k \in (j + 6)..Len(l) : l[k] = "1"
    BY <1>7 DEF VersionShape, Major, AllIn
  <2>2. dot > Len(l)
    <3>1. dot <= Len(l) => dot \in (j + 6)..Len(l) /\ dot \in 1..Len(l)
      BY <1>2, <1>3
    <3> QED BY SMTT(30), <1>2, <1>3, <2>1, <3>1
  <2>3. q \in (j + 6)..Len(line) /\ Len(line) # Len(l)
    BY SMTT(30), <1>1, <1>2, <1>3, <2>1, <2>2
  <2>4. line[q] = "1" \/ line[q] = "."
    BY <1>3, <2>3
  <2> QED BY <1>1, <1>7, <2>3, <2>4 DEF Early
<1>8. CASE st = "http_version_minor_start"
  <2>1. l[Len(l)] = "." /\ j + 6 <= Len(l) - 1
    BY <1>8 DEF VersionShape, Major
  <2>2. Len(l) \in (j + 6)..Len(line) /\ Len(l) \in 1..Len(l)
    BY <1>2, <2>1
  <2>3. dot = Len(l)
    BY <1>2, <1>3, <2>1, <2>2
  <2>4. q \in (j + 6)..Len(line) /\ q # dot /\ Len(line) # Len(l)
    BY SMTT(30), <1>1, <1>2, <1>3, <2>1, <2>3
  <2>5. line[q] = "1"
    BY <1>3, <2>4
  <2> QED BY <1>1, <1>8, <2>4, <2>5 DEF Early
<1>9. CASE st = "http_version_minor"
  <2>1. PICK d \in 1..Len(l) - 1 : l[d] = "." /\ j + 6 <= d - 1
    BY <1>9 DEF VersionShape, Major
  <2>2. d \in (j + 6)..Len(line) /\ d \in 1..Len(l)
    BY <1>2, <2>1
  <2>3. dot = d
    BY <1>2, <1>3, <2>1, <2>2
  <2>4. CASE Len(line) > Len(l)
    <3>1. q \in (j + 6)..Len(line) /\ q # dot
      BY <1>1, <1>2, <2>1, <2>3, <2>4
    <3>2. line[q] = "1"
      BY <1>3, <3>1
    <3> QED BY <1>1, <1>9, <2>4, <3>2 DEF Early
  <2> QED BY <1>9, <2>4
<1> QED BY <1>5, <1>6, <1>7, <1>8, <1>9 DEF VersionShape

LEMMA EarlyNeeds ==
    ASSUME NEW l \in Seq(Byte), NEW line \in Seq(Byte), StartsWith(line, l),
           IsRequestLine(line), NEW st, EarlyShape(st, l)
    PROVE  /\ Len(line) = Len(l) => \E st2 : Early(st, "CR", st2)
           /\ Len(line) > Len(l) => \E st2 : Early(st, line[Len(l) + 1], st2)
<1>1. PICK i, j, dot \in 1..Len(line) : FullRequestLine(line, i, j, dot)
  BY RequestLineIs
<1>2. /\ Len(l) \in Nat /\ Len(line) \in Nat /\ Len(l) <= Len(line)
      /\ \A k \in 1..Len(l) : line[k] = l[k]
  BY DEF StartsWith
<1>3. /\ 1 < i /\ i < j /\ line[i] = "SP" /\ line[j] = "SP"
      /\ \A k \in 1..(i - 1) : line[k] \in Token
      /\ \A k \in (i + 1)..(j - 1) : line[k] \in Visible
  BY <1>1 DEF FullRequestLine, RequestLine, AllIn
<1>4. "SP" \notin Token /\ "SP" \notin Visible
  BY DEF Token, Visible
<1>5. PICK q : q = Len(l) + 1
  OBVIOUS
<1>6. CASE st = "method_start"
  <2>1. Len(l) = 0
    BY <1>6 DEF EarlyShape, VersionShape
  <2>2. q \in 1..(i - 1) /\ Len(line) # Len(l)
    BY <1>2, <1>3, <1>5, <2>1
  <2>3. line[q] \in Token
    BY <1>3, <2>2
  <2> QED BY <1>5, <1>6, <2>2, <2>3 DEF Early
<1>7. CASE st = "method"
  <2>1. \A k \in 1..Len(l) : l[k] \in Token
    BY <1>7 DEF EarlyShape, VersionShape, AllIn
  <2>2. i > Len(l)
    <3>1. i <= Len(l) => i \in 1..Len(l)
      BY <1>2
    <3> QED BY <1>2, <1>3, <1>4, <2>1, <3>1
  <2>3. Len(line) # Len(l) /\ (q \in 1..(i - 1) \/ q = i)
    BY <1>2, <1>5, <2>2
  <2>4. line[q] \in Token \/ line[q] = "SP"
    BY <1>3, <2>3
  <2> QED BY <1>5, <1>7, <2>3, <2>4 DEF Early
<1>8. CASE st = "uri"
  <2>1. PICK i2 \in 1..Len(l) : /\ 1 < i2 /\ l[i2] = "SP"
                                /\ \A k \in 1..(i2 - 1) : l[k] \in Token
                                /\ \A k \in (i2 + 1)..Len(l) : l[k] \in Visible
    BY <1>8 DEF EarlyShape, VersionShape, AllIn
  <2>2. i = i2
    <3>1. CASE i < i2
      <4>1. i \in 1..(i2 - 1) /\ i \in 1..Len(l)
        BY <1>2, <3>1
      <4> QED BY <1>2, <1>3, <1>4, <2>1, <4>1
    <3>2. CASE i2 < i
      <4>1. i2 \in 1..(i - 1)
        BY <1>2, <3>2
      <4> QED BY <1>2, <1>3, <1>4, <2>1, <4>1
    <3> QED BY <1>2, <3>1, <3>2
  <2>3. j > Len(l)
    <3>1. j <= Len(l) => j \in (i2 + 1)..Len(l) /\ j \in 1..Len(l)
      BY <1>2, <1>3, <2>2
    <3> QED BY <1>2, <1>3, <1>4, <2>1, <3>1
  <2>4. Len(line) # Len(l) /\ (q \in (i + 1)..(j - 1) \/ q = j)
    BY <1>2, <1>5, <2>2, <2>3
  <2>5. line[q] \in Visible \/ line[q] = "SP"
    BY <1>3, <2>4
  <2> QED BY <1>5, <1>8, <2>4, <2>5 DEF Early
<1>9. CASE st \notin {"method_start", "method", "uri"}
  <2>1. PICK i2, j2 \in 1..Len(l) : RequestLine(l, i2, j2) /\ VersionShape(st, l, j2)
    BY <1>9 DEF EarlyShape
  <2>2. i = i2 /\ j = j2
    BY <1>1, <2>1, SameSpaces DEF FullRequestLine
  <2>3. /\ Len(line) = Len(l) => st = "http_version_minor"
        /\ Len(line) > Len(l) => \E st2 : Early(st, line[Len(l) + 1], st2)
    BY <1>1, <2>1, <2>2, VersionNeeds
  <2>4. Early("http_version_minor", "CR", "expecting_newline_1")
    BY DEF Early
  <2> QED BY <2>3, <2>4
<1> QED BY <1>6, <1>7, <1>8, <1>9

LEMMA HeaderIs ==
    ASSUME NEW line \in Seq(Byte), IsHeader(line)
    PROVE  \E colon \in 1..Len(line) : HeaderForm(line, colon)
<1> DEFINE at == {i \in 1..Len(line) : line[i] = ":"}
<1>1. PICK colon : colon = Position(line, ":")
  OBVIOUS
<1>2. /\ 1 < colon /\ colon < Len(line) /\ AllIn(line, 1, colon - 1, Token)
      /\ line[colon + 1] = "SP" /\ AllIn(line, colon + 2, Len(line), Visible \cup {"SP"})
  BY <1>1 DEF IsHeader
<1>3. colon = IF at = {} THEN 0 ELSE CHOOSE i \in at : \A j \in at : i <= j
  BY <1>1 DEF Position
<1>4. at # {}
  BY <1>2, <1>3
<1>5. \E i \in at : \A j \in at : i <= j
  <2>1. at \in SUBSET Nat
    OBVIOUS
  <2>2. PICK a : a \in at
    BY <1>4
  <2> HIDE DEF at
  <2> QED BY <2>1, <2>2, LeastNumber
<1>6. colon \in at
  <2> HIDE DEF at
  <2> QED BY <1>3, <1>4, <1>5
<1> QED BY <1>2, <1>6 DEF HeaderForm

\* A line of a header begins with a token, one that goes on with a blank.
LEMMA FirstByte ==
    ASSUME NEW line \in Seq(Byte)
    PROVE  /\ IsHeader(line) => Len(line) >= 1 /\ line[1] \in Token /\ line[1] \notin Blank
           /\ IsContinuation(line) => Len(line) >= 1 /\ line[1] \in Blank /\ line[1] \notin Token
<1>1. \A b \in Token : b \notin Blank
  BY DEF Token, Blank
<1>2. ASSUME IsHeader(line) PROVE Len(line) >= 1 /\ line[1] \in Token
  <2>1. PICK colon \in 1..Len(line) : HeaderForm(line, colon)
    BY <1>2, HeaderIs
  <2> QED BY <2>1 DEF HeaderForm, AllIn
<1>3. ASSUME IsContinuation(line) PROVE Len(line) >= 1 /\ line[1] \in Blank
  BY <1>3 DEF IsContinuation
<1> QED BY <1>1, <1>2, <1>3

LEMMA LateNeeds ==
    ASSUME NEW l \in Seq(Byte), NEW line \in Seq(Byte), StartsWith(line, l),
           NEW lines, NEW hs, NEW st, st \notin AfterCR, LateShape(st, hs, lines, l),
           IsHeader(line) \/ (Len(lines) >= 2 /\ IsContinuation(line)) \/ line = <<>>
    PROVE  /\ Len(line) = Len(l) => \E st2 : Late(st, hs, "CR", st2)
           /\ Len(line) > Len(l) => \E st2 : Late(st, hs, line[Len(l) + 1], st2)
<1>1. PICK q : q = Len(l) + 1
  OBVIOUS
<1>2. /\ Len(l) \in Nat /\ Len(line) \in Nat /\ Len(l) <= Len(line)
      /\ \A k \in 1..Len(l) : line[k] = l[k]
  BY DEF StartsWith
<1>3. /\ IsHeader(line) => Len(line) >= 1 /\ line[1] \in Token /\ line[1] \notin Blank
      /\ IsContinuation(line) => Len(line) >= 1 /\ line[1] \in Blank /\ line[1] \notin Token
  BY FirstByte
<1>4. ":" \notin Token /\ ":" \notin Blank
  BY DEF Token, Blank
<1>5. \A c \in 1..Len(line) : HeaderForm(line, c) =>
         /\ 1 < c /\ c < Len(line) /\ line[c] = ":" /\ line[c + 1] = "SP"
         /\ \A k \in 1..(c - 1) : line[k] \in Token
         /\ \A k \in (c + 2)..Len(line) : line[k] \in Visible \cup {"SP"}
  BY DEF HeaderForm, AllIn
<1>6. CASE st = "header_line_start"
  <2>1. l = <<>> /\ (hs # <<>> <=> Len(lines) >= 2)
    BY <1>6 DEF LateShape
  <2>2. q = 1 /\ Len(l) = 0
    BY <1>1, <2>1
  <2>3. Late(st, hs, "CR", "expecting_newline_3")
    BY <1>6 DEF Late
  <2>4. CASE IsHeader(line)
    BY <1>1, <1>3, <1>6, <2>2, <2>4 DEF Late
  <2>5. CASE Len(lines) >= 2 /\ IsContinuation(line)
    BY <1>1, <1>3, <1>6, <2>1, <2>2, <2>5 DEF Late
  <2>6. CASE line = <<>>
    BY <2>2, <2>3, <2>6
  <2> QED BY <2>4, <2>5, <2>6
<1>7. CASE st = "header_name"
  <2>1. l # <<>> /\ \A k \in 1..Len(l) : l[k] \in Token
    BY <1>7 DEF LateShape, AllIn
  <2>2. Len(l) >= 1 /\ line[1] \in Token /\ line # <<>>
    BY <1>2, <2>1
  <2>3. IsHeader(line)
    BY <1>3, <2>2
  <2>4. PICK c \in 1..Len(line) : HeaderForm(line, c)
    BY <2>3, HeaderIs
  <2>5. c > Len(l)
    <3>1. c <= Len(l) => c \in 1..Len(l)
      BY <1>2
    <3> QED BY <1>2, <1>4, <1>5, <2>1, <2>4, <3>1
  <2>6. Len(line) # Len(l) /\ (q \in 1..(c - 1) \/ q = c)
    BY <1>1, <1>2, <2>5
  <2>7. line[q] \in Token \/ line[q] = ":"
    BY <1>5, <2>4, <2>6
  <2> QED BY <1>1, <1>7, <2>6, <2>7 DEF Late
<1>8. CASE st = "space_before_header_value"
  <2>1. 1 < Len(l) /\ l[Len(l)] = ":" /\ \A k \in 1..(Len(l) - 1) : l[k] \in Token
    BY <1>8 DEF LateShape, AllIn
  <2>2. line[1] \in Token /\ line # <<>> /\ Len(l) \in 1..Len(line) /\ line[Len(l)] = ":"
    BY <1>2, <2>1
  <2>3. PICK c \in 1..Len(line) : HeaderForm(line, c)
    BY <1>3, <2>2, HeaderIs
  <2>4. c = Len(l)
    <3>1. CASE c < Len(l)
      <4>1. c \in 1..(Len(l) - 1) /\ c \in 1..Len(l)
        BY <1>2, <3>1
      <4> QED BY <1>2, <1>4, <1>5, <2>1, <2>3, <4>1
    <3>2. CASE Len(l) < c
      <4>1. Len(l) \in 1..(c - 1)
        BY <1>2, <2>1, <3>2
      <4> QED BY <1>4, <1>5, <2>2, <2>3, <4>1
    <3> QED BY <1>2, <3>1, <3>2
  <2>5. Len(line) # Len(l) /\ line[q] = "SP"
    BY <1>1, <1>2, <1>5, <2>3, <2>4
  <2> QED BY <1>1, <1>8, <2>5 DEF Late
<1>9. CASE st = "header_value"
  <2>1. Late(st, hs, "CR", "expecting_newline_2")
    BY <1>9 DEF Late
  <2> SUFFICES ASSUME Len(line) > Len(l)
               PROVE  line[q] \in Visible \cup {"SP"}
    BY <1>1, <1>9, <2>1 DEF Late
  <2>2. \/ \E c \in 1..Len(l) : HeaderForm(l, c)
        \/ \E d \in 1..Len(l) : ContinuationForm(l, d)
    BY <1>9 DEF LateShape
  <2>3. ASSUME NEW c2 \in 1..Len(l), HeaderForm(l, c2) PROVE line[q] \in Visible \cup {"SP"}
    <3>1. /\ 1 < c2 /\ c2 < Len(l) /\ l[c2] = ":" /\ \A k \in 1..(c2 - 1) : l[k] \in Token
      BY <2>3 DEF HeaderForm, AllIn
    <3>2. line[1] \in Token /\ line # <<>>
      BY <1>2, <3>1
    <3>3. PICK c \in 1..Len(line) : HeaderForm(line, c)
      BY <1>3, <3>2, HeaderIs
    <3>4. c = c2
      <4>1. CASE c < c2
        <5>1. c \in 1..(c2 - 1) /\ c \in 1..Len(l)
          BY <1>2, <4>1
        <5> QED BY <1>2, <1>4, <1>5, <3>1, <3>3, <5>1
      <4>2. CASE c2 < c
        <5>1. c2 \in 1..(c - 1) /\ c2 \in 1..Len(l)
          BY <1>2, <4>2
        <5> QED BY <1>2, <1>4, <1>5, <3>1, <3>3, <5>1
      <4> QED BY <1>2, <4>1, <4>2
    <3>5. q \in (c + 2)..Len(line)
      BY <1>1, <1>2, <3>1, <3>4
    <3> QED BY <1>5, <3>3, <3>5
  <2>4. ASSUME NEW d \in 1..Len(l), ContinuationForm(l, d) PROVE line[q] \in Visible \cup {"SP"}
    <3>1. 1 < d /\ l[d] \in Visible /\ \A k \in 1..(d - 1) : l[k] \in Blank
      BY <2>4 DEF ContinuationForm, AllIn
    <3>2. line[1] \in Blank /\ line # <<>>
      BY <1>2, <3>1
    <3>3. IsContinuation(line)
      BY <1>3, <3>2
    <3>4. AllIn(line, 1, d - 1, Blank) /\ line[d] \notin Blank /\ d \in 1..Len(line) + 1
      <4>1. line[d] \notin Blank
        BY <1>2, <3>1 DEF Visible, Token, Blank
      <4> QED BY <1>2, <3>1, <4>1 DEF AllIn
    <3>5. Indent(line) = d
      BY <3>4, IndentIs
    <3>6. q \in d..Len(line)
      BY <1>1, <1>2
    <3> QED BY <3>3, <3>5, <3>6 DEF IsContinuation, AllIn
  <2> QED BY <2>2, <2>3, <2>4
<1>10. CASE st = "header_lws"
  <2>1. l # <<>> /\ \A k \in 1..Len(l) : l[k] \in Blank
    BY <1>10 DEF LateShape, AllIn
  <2>2. line[1] \in Blank /\ line # <<>>
    BY <1>2, <2>1
  <2>3. IsContinuation(line)
    BY <1>3, <2>2
  <2>4. Late(st, hs, "CR", "expecting_newline_2")
    BY <1>10 DEF Late
  <2>5. ASSUME Len(line) > Len(l), line[q] \notin Blank PROVE line[q] \in Visible
    <3>1. AllIn(line, 1, q - 1, Blank) /\ q \in 1..Len(line) + 1 /\ q \in q..Len(line)
      BY <1>1, <1>2, <2>1, <2>5 DEF AllIn
    <3>2. Indent(line) = q
      BY <2>5, <3>1, IndentIs
    <3>3. line[q] \in Visible \cup {"SP"}
      BY <2>3, <3>1, <3>2 DEF IsContinuation, AllIn
    <3> QED BY <2>5, <3>3 DEF Blank
  <2> QED BY <1>1, <1>10, <2>4, <2>5 DEF Late
<1> QED
  BY <1>6, <1>7, <1>8, <1>9, <1>10 DEF LateShape, AfterCR

LEMMA NoLines ==
    /\ LineEnds(<<>>) = {} /\ Ranked(LineEnds(<<>>)) /\ LinesOf(<<>>) = <<>>
    /\ LineBegin(<<>>) = 1 /\ Rest(<<>>) = <<>> /\ EndsAreWhole(<<>>)
<1>0. PICK s : s = <<>>
  OBVIOUS
<1>s. s \in Seq(Byte) /\ Len(s) = 0 /\ DOMAIN s = {}
  BY <1>0
<1>1. LineEnds(s) = {}
  BY <1>s DEF LineEnds
<1>2. Cardinality({}) = 0
  BY FS_EmptySet
<1>3. Ranked({})
  BY <1>2 DEF Ranked
<1>4. LinesOf(s) = <<>>
  <2>1. Ascending({}) = <<>>
    BY <1>2 DEF Ascending
  <2>2. PICK ends : ends = Ascending(LineEnds(s))
    OBVIOUS
  <2>3. ends = <<>> /\ Len(ends) = 0 /\ 1..Len(ends) = {}
    BY <1>1, <2>1, <2>2
  <2>4. PICK lines : lines = LinesOf(s)
    OBVIOUS
  <2>5. lines = [k \in 1..Len(ends) |-> lines[k]]
    BY <2>2, <2>4, Zenon DEF LinesOf
  <2>6. lines = <<>>
    BY <2>3, <2>5
  <2> QED BY <2>4, <2>6
<1>5. LineBegin(s) = 1
  BY <1>1 DEF LineBegin
<1>6. Rest(s) = <<>>
  BY <1>s, <1>5 DEF Rest
<1>7. EndsAreWhole(s)
  BY <1>s, <1>1 DEF EndsAreWhole
<1> QED BY <1>0, <1>1, <1>3, <1>4, <1>5, <1>6, <1>7

\* Where the text is cut into lines, and what shape it has: all that is
\* known of a text s that has led the parser to state st with headers hs.
Read(st, hs, s) ==
    /\ Ranked(LineEnds(s))
    /\ LinesOf(s) \in Seq(Seq(Byte))
    /\ st \in AfterCR =>
          WholeUpto(s, Len(s)) /\ Len(s) \in LineEnds(s) /\ LineBegin(s) = Len(s) + 2
    /\ st \notin AfterCR => EndsAreWhole(s) /\ LineBegin(s) <= Len(s) + 1
    /\ Shape(st, hs, LinesOf(s), Rest(s))
    /\ st # "header_line_start" => (s = <<>> \/ s[Len(s)] # "LF")

\* A byte on which the parser goes on.
LEMMA ReadGoesOn ==
    ASSUME NEW s \in Seq(Byte), NEW b \in Byte, NEW st, NEW hs, NEW a,
           Read(st, hs, s), Verdict(st, hs, b, a), a.result = "indeterminate",
           a.state \in NeedsHeader => a.request.headers # <<>>
    PROVE  Read(a.state, a.request.headers, Append(s, b))
<1>1. PICK t, l, lines : t = Append(s, b) /\ l = Rest(s) /\ lines = LinesOf(s)
  OBVIOUS
<1>2. /\ t \in Seq(Byte) /\ Len(t) = Len(s) + 1 /\ Len(s) \in Nat /\ t[Len(t)] = b
  BY <1>1, LastElement
<1>3. l \in Seq(Byte) /\ lines \in Seq(Seq(Byte)) /\ Shape(st, hs, lines, l) /\ Ranked(LineEnds(s))
  BY <1>1, RestGrows DEF Read
<1>4. PICK st2, more : st2 = a.state /\ more = a.request.headers
  OBVIOUS
<1>5. CASE b \notin {"CR", "LF"}
  <2>1. Shape(st2, more, lines, Append(l, b)) /\ st \notin AfterCR /\ st2 \notin AfterCR
    BY <1>3, <1>4, <1>5, ShapeMoves
  <2>2. EndsAreWhole(s) /\ LineBegin(s) <= Len(s) + 1
    BY <2>1 DEF Read
  <2>3. Ranked(LineEnds(t)) /\ LinesOf(t) = lines /\ LineBegin(t) = LineBegin(s)
    BY <1>1, <1>3, <1>5, LineGoesOn
  <2>4. LineBegin(s) \in Nat /\ Rest(t) = Append(l, b)
    BY <1>1, <1>3, <1>5, <2>2, RestGrows
  <2>5. EndsAreWhole(t)
    BY <1>1, <1>5, <2>2, EndsStayWhole
  <2>6. LineBegin(t) <= Len(t) + 1
    BY <1>2, <2>2, <2>3, <2>4
  <2>7. Read(st2, more, t)
    BY <1>2, <1>3, <1>5, <2>1, <2>3, <2>4, <2>5, <2>6 DEF Read
  <2> QED BY <1>1, <1>4, <2>7
<1>6. CASE b = "CR"
  <2>1. Shape(st2, more, Append(lines, l), <<>>) /\ st \notin AfterCR /\ st2 \in AfterCR
    BY <1>3, <1>4, <1>6, ShapeMoves
  <2>2. /\ Ranked(LineEnds(t)) /\ Len(t) \in LineEnds(t)
        /\ LinesOf(t) = Append(lines, l) /\ LineBegin(t) = Len(t) + 2
    BY <1>1, <1>3, <1>6, LineIsMade
  <2>3. Rest(t) = <<>>
    BY <1>2, <2>2, RestGrows
  <2>4. WholeUpto(t, Len(t))
    BY <1>1, <1>6, <2>1, EndsStayWhole DEF Read
  <2>5. Append(lines, l) \in Seq(Seq(Byte))
    BY <1>3
  <2>6. Read(st2, more, t)
    BY <1>2, <1>6, <2>1, <2>2, <2>3, <2>4, <2>5 DEF Read
  <2> QED BY <1>1, <1>4, <2>6
<1>7. CASE b = "LF"
  <2>1. Shape(st2, more, lines, <<>>) /\ st \in AfterCR /\ st2 = "header_line_start"
    BY <1>3, <1>4, <1>7, ShapeMoves
  <2>2. Ranked(LineEnds(t)) /\ LinesOf(t) = lines /\ LineBegin(t) = LineBegin(s)
    BY <1>1, <1>3, <1>7, LineGoesOn
  <2>3. WholeUpto(s, Len(s)) /\ Len(s) \in LineEnds(s) /\ LineBegin(s) = Len(s) + 2
    BY <2>1 DEF Read
  <2>4. EndsAreWhole(t)
    BY <1>1, <1>7, <2>3, EndsStayWhole
  <2>5. LineBegin(t) <= Len(t) + 1 /\ LineBegin(t) > Len(t)
    BY <1>2, <2>2, <2>3
  <2>6. Rest(t) = <<>>
    BY <1>2, <2>2, <2>5, RestGrows
  <2>7. st2 \notin AfterCR
    BY <2>1 DEF AfterCR
  <2>8. Read(st2, more, t)
    BY <1>3, <2>1, <2>2, <2>4, <2>5, <2>6, <2>7 DEF Read
  <2> QED BY <1>1, <1>4, <2>8
<1> QED BY <1>5, <1>6, <1>7

\* The byte on which it says good.
LEMMA ReadEnds ==
    ASSUME NEW s \in Seq(Byte), NEW hs, Read("expecting_newline_3", hs, s)
    PROVE  Valid(Append(s, "LF"))
<1>0. PICK b \in Byte : b = "LF"
  BY DEF Byte
<1>1. PICK t, lines : t = Append(s, b) /\ lines = LinesOf(s)
  OBVIOUS
<1>2. t \in Seq(Byte) /\ Len(t) = Len(s) + 1 /\ Len(s) \in Nat /\ t[Len(t)] = "LF"
  BY <1>0, <1>1, LastElement
<1>3. /\ Ranked(LineEnds(s)) /\ WholeUpto(s, Len(s)) /\ Len(s) \in LineEnds(s)
      /\ Shape("expecting_newline_3", hs, lines, Rest(s))
  BY <1>1 DEF Read, AfterCR
<1>4. LinesOf(t) = lines
  BY <1>0, <1>1, <1>3, LineGoesOn
<1>5. EndsAreWhole(t)
  BY <1>0, <1>1, <1>3, EndsStayWhole
<1>6. PICK good \in Seq(Seq(Byte)) : GoodLines(good) /\ lines = Append(good, <<>>)
  BY <1>3 DEF Shape, LateShape, EarlyStates
<1>7. PICK n : n = Len(good)
  OBVIOUS
<1>8. /\ n \in Nat /\ n >= 1 /\ Len(lines) = n + 1 /\ lines[n + 1] = <<>>
      /\ \A k \in 1..n : lines[k] = good[k]
  BY <1>6, <1>7 DEF GoodLines
<1>9. IsRequestLine(lines[1])
  BY <1>6, <1>8 DEF GoodLines
<1>10. \A k \in 2..(n + 1) - 1 : IsHeader(lines[k]) \/ (k > 2 /\ IsContinuation(lines[k]))
  <2>1. \A k \in 2..(n + 1) - 1 : k \in 1..n /\ k \in 2..Len(good)
    BY <1>7, <1>8
  <2> QED BY <1>6, <1>8, <2>1 DEF GoodLines
<1>11. Len(lines) >= 2
  BY <1>8
<1> QED BY <1>0, <1>1, <1>2, <1>4, <1>5, <1>8, <1>9, <1>10, <1>11 DEF Valid

\* Good lines are not empty.
LEMMA GoodLinesAreFull ==
    ASSUME NEW lines, NEW n \in Nat, n = Len(lines), n >= 2, GoodLines(lines)
    PROVE  lines[n] # <<>>
<1> SUFFICES ASSUME lines[n] = <<>> PROVE FALSE
  OBVIOUS
<1>1. n \in 2..n
  OBVIOUS
<1>2. IsHeader(<<>>) \/ IsContinuation(<<>>)
  BY <1>1 DEF GoodLines
<1>3. ~IsContinuation(<<>>)
  BY DEF IsContinuation
<1>4. ~IsHeader(<<>>)
  <2>1. Position(<<>>, ":") = 0
    BY DEF Position
  <2> QED BY <2>1 DEF IsHeader
<1> QED BY <1>2, <1>3, <1>4

\* As long as the parser has not said good, the request is not complete.
LEMMA ReadIsIncomplete ==
    ASSUME NEW s \in Seq(Byte), NEW st, NEW hs, Read(st, hs, s)
    PROVE  ~Valid(s)
<1> SUFFICES ASSUME Valid(s) PROVE FALSE
  OBVIOUS
<1>1. PICK lines, n : lines = LinesOf(s) /\ n = Len(lines)
  OBVIOUS
<1>2. /\ lines \in Seq(Seq(Byte)) /\ n \in Nat /\ n >= 2 /\ s[Len(s)] = "LF" /\ lines[n] = <<>>
  BY <1>1 DEF Valid, Read
<1>3. s # <<>>
  BY <1>1, <1>2, NoLines
<1>4. st = "header_line_start"
  BY <1>2, <1>3 DEF Read
<1>5. GoodLines(lines)
  BY <1>1, <1>4 DEF Read, Shape, LateShape, EarlyStates
<1> QED BY <1>1, <1>2, <1>5, GoodLinesAreFull

\* A byte on which it says bad: nothing that follows makes the text valid.
LEMMA ReadIsDoomed ==
    ASSUME NEW s \in Seq(Byte), NEW b \in Byte, NEW st \in States, NEW hs,
           Read(st, hs, s), Stuck(st, hs, b), NEW u \in Seq(Byte)
    PROVE  ~Valid(Append(s, b) \o u)
<1> SUFFICES ASSUME Valid(Append(s, b) \o u) PROVE FALSE
  OBVIOUS
<1>1. PICK t, w, m : t = Append(s, b) /\ w = t \o u /\ m = Len(s) + 1
  OBVIOUS
<1>2. /\ t \in Seq(Byte) /\ Len(t) = m /\ Len(s) \in Nat /\ t[m] = b
      /\ \A i \in 1..Len(s) : t[i] = s[i]
  BY <1>1, LastElement
<1>3. /\ w \in Seq(Byte) /\ Len(w) = m + Len(u) /\ \A i \in 1..m : w[i] = t[i]
  BY <1>1, <1>2, Concat
<1>4. /\ m \in 1..Len(w) + 1 /\ m \in DOMAIN w /\ m - 1 = Len(s) /\ w[m] = b
      /\ \A i \in 1..Len(s) : w[i] = s[i] /\ i \in 1..Len(w)
  BY <1>1, <1>2, <1>3
<1>5. (b = "LF") <=> Len(s) \in LineEnds(w)
  BY <1>1, <1>4 DEF Valid, EndsAreWhole
<1>6. CASE st \in AfterCR
  <2>1. b # "LF"
    <3>1. /\ st = "expecting_newline_1" => Late(st, hs, "LF", "header_line_start")
          /\ st = "expecting_newline_2" => Late(st, hs, "LF", "header_line_start")
      BY DEF Late
    <3> QED BY <1>6, <3>1 DEF Stuck, AfterCR
  <2>2. Len(s) \in LineEnds(w)
    BY <1>4, <1>6 DEF Read, LineEnds
  <2> QED BY <1>5, <2>1, <2>2
<1>7. CASE st \notin AfterCR
  <2>1. EndsAreWhole(s) /\ LineBegin(s) <= Len(s) + 1
    BY <1>7 DEF Read
  <2>2. b # "LF"
    <3> SUFFICES ASSUME b = "LF" PROVE FALSE
      OBVIOUS
    <3>1. Len(s) \in LineEnds(s)
      BY <1>2, <1>4, <1>5 DEF LineEnds
    <3>2. m \in 1..Len(s) + 1 /\ m \notin DOMAIN s
      BY <1>1, <1>2
    <3> QED BY <1>4, <2>1, <3>1, <3>2 DEF EndsAreWhole
  <2>3. PICK lines, l, all, n, N :
           /\ lines = LinesOf(s) /\ l = Rest(s) /\ all = LinesOf(w)
           /\ n = Len(lines) /\ N = Len(all)
    OBVIOUS
  <2>4. /\ Ranked(LineEnds(s)) /\ lines \in Seq(Seq(Byte)) /\ l \in Seq(Byte) /\ n \in Nat
        /\ Shape(st, hs, lines, l)
    BY <2>3, RestGrows DEF Read
  <2>5. Continues(s, w)
    <3>1. <<b>> \o u \in Seq(Byte) /\ s \o (<<b>> \o u) = w
      BY <1>1
    <3> QED BY <2>3, <2>4, <3>1, LinesStay
  <2>6. /\ all \in Seq(Seq(Byte)) /\ N \in Nat /\ N >= n
        /\ \A k \in 1..n : all[k] = lines[k]
        /\ N > n => StartsWith(all[n + 1], l)
    BY <2>1, <2>3, <2>5 DEF Continues
  <2>7. /\ N >= 2 /\ all[N] = <<>> /\ IsRequestLine(all[1])
        /\ \A k \in 2..N - 1 : IsHeader(all[k]) \/ (k > 2 /\ IsContinuation(all[k]))
    BY <1>1, <2>3 DEF Valid
  <2>8. /\ st \in EarlyStates => n = 0 /\ EarlyShape(st, l)
        /\ st \notin EarlyStates => n >= 1 /\ GoodLines(lines) /\ LateShape(st, hs, lines, l)
    <3>1. ASSUME st \in EarlyStates PROVE n = 0 /\ EarlyShape(st, l)
      BY <2>3, <2>4, <3>1 DEF Shape
    <3>2. ASSUME st \notin EarlyStates
          PROVE  n >= 1 /\ GoodLines(lines) /\ LateShape(st, hs, lines, l)
      <4>1. LateShape(st, hs, lines, l)
        BY <2>4, <3>2 DEF Shape
      <4>2. GoodLines(lines)
        BY <1>7, <4>1 DEF LateShape, AfterCR
      <4>3. lines # <<>>
        BY <4>2 DEF GoodLines
      <4> QED BY <2>3, <2>4, <4>1, <4>2, <4>3
    <3> QED BY <3>1, <3>2
  <2>9. N > n
    <3> SUFFICES ASSUME N = n PROVE FALSE
      BY <2>4, <2>6
    <3>1. n >= 2 /\ lines[n] = <<>>
      BY <2>6, <2>7
    <3>2. GoodLines(lines)
      BY <2>8, <3>1
    <3> QED BY <2>3, <2>4, <3>1, <3>2, GoodLinesAreFull
  <2>10. PICK line : line = all[n + 1]
    OBVIOUS
  <2>11. line \in Seq(Byte) /\ StartsWith(line, l)
    <3>1. n + 1 \in 1..N
      BY <2>4, <2>6, <2>9
    <3> QED BY <2>3, <2>6, <2>9, <2>10, <3>1
  <2>12. Continues(t, w) /\ LinesOf(t) \in Seq(Seq(Byte))
    <3>1. Ranked(LineEnds(t)) /\ LinesOf(t) \in Seq(Seq(Byte))
      <4>1. CASE b = "CR"
        <5>1. Ranked(LineEnds(t)) /\ LinesOf(t) = Append(lines, l)
          BY <1>1, <2>3, <2>4, <4>1, LineIsMade
        <5>2. Append(lines, l) \in Seq(Seq(Byte))
          BY <2>4
        <5> QED BY <5>1, <5>2
      <4>2. CASE b # "CR"
        BY <1>1, <2>3, <2>4, <4>2, LineGoesOn
      <4> QED BY <4>1, <4>2
    <3> QED BY <1>1, <1>2, <3>1, LinesStay
  <2>13. \/ b = "CR" /\ Len(line) = Len(l)
         \/ b # "CR" /\ Len(line) > Len(l) /\ line[Len(l) + 1] = b
    <3>1. CASE b = "CR"
      <4>1. LinesOf(t) = Append(lines, l)
        BY <1>1, <2>3, <2>4, <3>1, LineIsMade
      <4>2. Len(LinesOf(t)) = n + 1 /\ LinesOf(t)[n + 1] = l
        BY <2>3, <2>4, <4>1
      <4>3. n + 1 \in 1..Len(LinesOf(t))
        BY <2>4, <4>2
      <4>4. all[n + 1] = l
        BY <2>3, <2>12, <4>2, <4>3 DEF Continues
      <4> QED BY <2>10, <3>1, <4>4
    <3>2. CASE b # "CR"
      <4>1. LinesOf(t) = lines /\ LineBegin(t) = LineBegin(s)
        BY <1>1, <2>3, <2>4, <3>2, LineGoesOn
      <4>2. Rest(t) = Append(l, b)
        BY <1>1, <2>1, <2>3, <2>4, <3>2, RestGrows
      <4>3. LineBegin(t) <= Len(t) + 1
        <5>1. LineBegin(s) \in Nat
          BY <2>4, RestGrows
        <5> QED BY <1>1, <1>2, <2>1, <4>1, <5>1
      <4>4. StartsWith(line, Append(l, b))
        BY <2>3, <2>9, <2>10, <2>12, <4>1, <4>2, <4>3 DEF Continues
      <4>5. /\ Len(Append(l, b)) = Len(l) + 1 /\ Append(l, b)[Len(l) + 1] = b
            /\ Len(l) \in Nat /\ Len(line) \in Nat /\ Len(l) + 1 \in 1..Len(l) + 1
        BY <2>4, <2>11, LastElement
      <4> QED BY <3>2, <4>4, <4>5 DEF StartsWith
    <3> QED BY <3>1, <3>2
  <2>14. CASE st \in EarlyStates
    <3>1. IsRequestLine(line)
      BY <2>7, <2>8, <2>10, <2>14
    <3>2. \E st2 : Early(st, b, st2)
      BY <2>4, <2>8, <2>11, <2>13, <2>14, <3>1, EarlyNeeds
    <3> QED BY <3>2 DEF Stuck
  <2>15. CASE st \notin EarlyStates
    <3>1. IsHeader(line) \/ (n >= 2 /\ IsContinuation(line)) \/ line = <<>>
      <4>1. n + 1 \in 2..N - 1 \/ n + 1 = N
        BY <2>4, <2>6, <2>8, <2>9, <2>15
      <4>2. n + 1 > 2 => n >= 2
        BY <2>4
      <4> QED BY <2>7, <2>10, <4>1, <4>2
    <3>2. LateShape(st, hs, lines, l)
      BY <2>8, <2>15
    <3>3. IsHeader(line) \/ (Len(lines) >= 2 /\ IsContinuation(line)) \/ line = <<>>
      BY <2>3, <3>1
    <3>4. /\ Len(line) = Len(l) => \E st2 : Late(st, hs, "CR", st2)
          /\ Len(line) > Len(l) => \E st2 : Late(st, hs, line[Len(l) + 1], st2)
      BY ONLY <1>7, <2>4, <2>11, <3>2, <3>3, LateNeeds
    <3>5. \E st2 : Late(st, hs, b, st2)
      BY <2>13, <3>4
    <3> QED BY <3>5 DEF Stuck
  <2> QED BY <2>14, <2>15
<1> QED BY <1>6, <1>7

-----------------------------------------------------------------------------
(* That a text on which the parser goes on can become valid: byte i of     *)
(* Shortest takes it on from every state that stands at i.                 *)

StandsAt(st, i) ==
    \/ i = 1 /\ st = "method_start"
    \/ i = 2 /\ st = "method"
    \/ i = 3 /\ st = "uri"
    \/ i = 4 /\ st = "http_version_h"
    \/ i = 5 /\ st = "http_version_t_1"
    \/ i = 6 /\ st = "http_version_t_2"
    \/ i = 7 /\ st = "http_version_p"
    \/ i = 8 /\ st = "http_version_slash"
    \/ i = 9 /\ st = "http_version_major_start"
    \/ i = 10 /\ st = "http_version_major"
    \/ i = 11 /\ st = "http_version_minor_start"
    \/ i = 12 /\ st = "http_version_minor"
    \/ i = 13 /\ st = "expecting_newline_1"
    \/ i = 14 /\ st = "header_line_start"
    \/ i = 15 /\ st = "header_name"
    \/ i = 16 /\ st = "space_before_header_value"
    \/ i = 17 /\ st \in {"header_value", "header_lws"}
    \/ i = 18 /\ st = "expecting_newline_2"
    \/ i = 19 /\ st = "header_line_start"
    \/ i = 20 /\ st = "expecting_newline_3"

LEMMA ShortestIs ==
    /\ Shortest \in Seq(Byte) /\ Len(Shortest) = 20
    /\ Shortest[1] = "H" /\ Shortest[2] = "SP" /\ Shortest[3] = "SP" /\ Shortest[4] = "H"
    /\ Shortest[5] = "T" /\ Shortest[6] = "T" /\ Shortest[7] = "P" /\ Shortest[8] = "/"
    /\ Shortest[9] = "1" /\ Shortest[10] = "." /\ Shortest[11] = "1" /\ Shortest[12] = "CR"
    /\ Shortest[13] = "LF" /\ Shortest[14] = "H" /\ Shortest[15] = ":" /\ Shortest[16] = "SP"
    /\ Shortest[17] = "CR" /\ Shortest[18] = "LF" /\ Shortest[19] = "CR" /\ Shortest[20] = "LF"
BY DEF Shortest, Byte

LEMMA ShortestLeads ==
    ASSUME NEW i \in 1..19, NEW st, StandsAt(st, i), NEW hs
    PROVE  /\ ~Stuck(st, hs, Shortest[i])
           /\ \A st2 : Early(st, Shortest[i], st2) \/ Late(st, hs, Shortest[i], st2)
                         => StandsAt(st2, i + 1)
<1>1. PICK b : b = Shortest[i]
  OBVIOUS
<1>2. CASE i \in 1..12
  <2>1. /\ i = 1 => b = "H" /\ st = "method_start"
        /\ i = 2 => b = "SP" /\ st = "method"
        /\ i = 3 => b = "SP" /\ st = "uri"
        /\ i = 4 => b = "H" /\ st = "http_version_h"
        /\ i = 5 => b = "T" /\ st = "http_version_t_1"
        /\ i = 6 => b = "T" /\ st = "http_version_t_2"
        /\ i = 7 => b = "P" /\ st = "http_version_p"
        /\ i = 8 => b = "/" /\ st = "http_version_slash"
        /\ i = 9 => b = "1" /\ st = "http_version_major_start"
        /\ i = 10 => b = "." /\ st = "http_version_major"
        /\ i = 11 => b = "1" /\ st = "http_version_minor_start"
        /\ i = 12 => b = "CR" /\ st = "http_version_minor"
    BY <1>1, <1>2, ShortestIs DEF StandsAt
  <2>2. \E st2 : Early(st, b, st2)
    BY <1>2, <2>1 DEF Early, Token
  <2>3. ASSUME NEW st2, Early(st, b, st2) \/ Late(st, hs, b, st2) PROVE StandsAt(st2, i + 1)
    BY <1>2, <2>1, <2>3 DEF Early, Late, StandsAt, Token, Visible
  <2> QED BY <1>1, <2>2, <2>3 DEF Stuck
<1>3. CASE i \in 13..19
  <2>1. /\ i = 13 => b = "LF" /\ st = "expecting_newline_1"
        /\ i = 14 => b = "H" /\ st = "header_line_start"
        /\ i = 15 => b = ":" /\ st = "header_name"
        /\ i = 16 => b = "SP" /\ st = "space_before_header_value"
        /\ i = 17 => b = "CR" /\ st \in {"header_value", "header_lws"}
        /\ i = 18 => b = "LF" /\ st = "expecting_newline_2"
        /\ i = 19 => b = "CR" /\ st = "header_line_start"
    BY <1>1, <1>3, ShortestIs DEF StandsAt
  <2>2. \E st2 : Late(st, hs, b, st2)
    BY <1>3, <2>1 DEF Late, Token
  <2>3. ASSUME NEW st2, Early(st, b, st2) \/ Late(st, hs, b, st2) PROVE StandsAt(st2, i + 1)
    BY <1>3, <2>1, <2>3 DEF Early, Late, StandsAt, Token, Visible, Blank
  <2> QED BY <1>1, <2>2, <2>3 DEF Stuck
<1> QED BY <1>2, <1>3

\* The rest of Shortest from byte i.
ShortestFrom(i) == SubSeq(Shortest, i, Len(Shortest))

LEMMA ConcatIs ==
    ASSUME NEW s \in Seq(Byte), NEW u \in Seq(Byte)
    PROVE  /\ s \o u \in Seq(Byte) /\ Len(s \o u) = Len(s) + Len(u)
           /\ \A k \in 1..Len(s) : (s \o u)[k] = s[k]
           /\ \A k \in 1..Len(u) : (s \o u)[Len(s) + k] = u[k]
OBVIOUS

LEMMA OneByteMore ==
    ASSUME NEW s \in Seq(Byte), NEW i \in 1..19
    PROVE  s \o ShortestFrom(i) = Append(s, Shortest[i]) \o ShortestFrom(i + 1)
<1>1. PICK z, u, v, b : z = Shortest /\ u = ShortestFrom(i) /\ v = ShortestFrom(i + 1) /\ b = z[i]
  OBVIOUS
<1>2. z \in Seq(Byte) /\ Len(z) = 20 /\ b \in Byte
  <2>1. z \in Seq(Byte) /\ Len(z) = 20
    BY <1>1, ShortestIs
  <2>2. i \in 1..Len(z)
    BY <2>1
  <2>3. z[i] \in Byte
    <3>1. \A w \in Seq(Byte) : \A j \in 1..Len(w) : w[j] \in Byte
      OBVIOUS
    <3> QED BY ONLY <2>1, <2>2, <3>1
  <2>4. b = z[i]
    BY <1>1
  <2> QED BY <2>1, <2>3, <2>4
<1>3. u \in Seq(Byte) /\ Len(u) = 21 - i /\ \A k \in 1..Len(u) : u[k] = z[i + k - 1]
  <2>1. u = SubSeq(z, i, 20)
    BY <1>1, <1>2 DEF ShortestFrom
  <2>2. PICK j, n : j = i /\ n = 20
    OBVIOUS
  <2>3. j \in Nat /\ n \in Nat /\ j >= 1 /\ j <= n + 1 /\ n <= Len(z)
    BY <1>2, <2>2
  <2>4. u = SubSeq(z, j, n)
    BY <2>1, <2>2
  <2>5. z \in Seq(Byte)
    BY <1>2
  <2>6. /\ SubSeq(z, j, n) \in Seq(Byte) /\ Len(SubSeq(z, j, n)) = n - j + 1
        /\ \A k \in 1..Len(SubSeq(z, j, n)) : SubSeq(z, j, n)[k] = z[j + k - 1]
    BY ONLY <2>3, <2>5, SubSeqIs
  <2>7. /\ u \in Seq(Byte) /\ Len(u) = n - j + 1
        /\ \A k \in 1..Len(u) : u[k] = z[j + k - 1]
    BY ONLY <2>4, <2>6
  <2> QED BY <2>2, <2>7
<1>4. v \in Seq(Byte) /\ Len(v) = 20 - i /\ \A k \in 1..Len(v) : v[k] = z[(i + 1) + k - 1]
  <2>1. v = SubSeq(z, i + 1, 20)
    BY <1>1, <1>2 DEF ShortestFrom
  <2>2. PICK j, n : j = i + 1 /\ n = 20
    OBVIOUS
  <2>3. j \in Nat /\ n \in Nat /\ j >= 1 /\ j <= n + 1 /\ n <= Len(z)
    BY <1>2, <2>2
  <2>4. v = SubSeq(z, j, n)
    BY <2>1, <2>2
  <2>5. z \in Seq(Byte)
    BY <1>2
  <2>6. /\ SubSeq(z, j, n) \in Seq(Byte) /\ Len(SubSeq(z, j, n)) = n - j + 1
        /\ \A k \in 1..Len(SubSeq(z, j, n)) : SubSeq(z, j, n)[k] = z[j + k - 1]
    BY ONLY <2>3, <2>5, SubSeqIs
  <2>7. /\ v \in Seq(Byte) /\ Len(v) = n - j + 1
        /\ \A k \in 1..Len(v) : v[k] = z[j + k - 1]
    BY ONLY <2>4, <2>6
  <2> QED BY <2>2, <2>7
<1>5. PICK t : t = Append(s, b)
  OBVIOUS
<1>6. /\ t \in Seq(Byte) /\ Len(t) = Len(s) + 1 /\ Len(s) \in Nat
      /\ t[Len(s) + 1] = b /\ \A k \in 1..Len(s) : t[k] = s[k]
  BY <1>2, <1>5, LastElement
<1>7. /\ s \o u \in Seq(Byte) /\ Len(s \o u) = Len(s) + Len(u)
      /\ \A k \in 1..Len(s) : (s \o u)[k] = s[k]
      /\ \A k \in 1..Len(u) : (s \o u)[Len(s) + k] = u[k]
  <2>1. u \in Seq(Byte)
    BY <1>3
  <2> QED BY ONLY <2>1, s \in Seq(Byte), ConcatIs
<1>8. /\ t \o v \in Seq(Byte) /\ Len(t \o v) = Len(t) + Len(v)
      /\ \A k \in 1..Len(t) : (t \o v)[k] = t[k]
      /\ \A k \in 1..Len(v) : (t \o v)[Len(t) + k] = v[k]
  <2>1. t \in Seq(Byte)
    BY <1>6
  <2>2. v \in Seq(Byte)
    BY <1>4
  <2> QED BY ONLY <2>1, <2>2, ConcatIs
<1>9. PICK x, y : x = s \o u /\ y = t \o v
  OBVIOUS
<1>10. Len(x) = Len(y)
  <2>1. i \in Int /\ Len(s) + (21 - i) = (Len(s) + 1) + (20 - i)
    BY <1>6
  <2>2. Len(x) = Len(s) + (21 - i)
    BY <1>3, <1>7, <1>9
  <2>3. Len(y) = (Len(s) + 1) + (20 - i)
    BY <1>4, <1>6, <1>8, <1>9
  <2> QED BY <2>1, <2>2, <2>3
<1>11. ASSUME NEW k \in 1..Len(x) PROVE x[k] = y[k]
  <2>1. CASE k \in 1..Len(s)
    BY <1>6, <1>7, <1>8, <1>9, <2>1
  <2>2. CASE k = Len(s) + 1
    <3>0. Len(u) = 21 - i
      BY <1>3
    <3>1. 1 \in 1..Len(u) /\ i + 1 - 1 = i
      <4>1. 21 - i >= 1 /\ 21 - i \in Nat
        OBVIOUS
      <4> QED BY ONLY <3>0, <4>1, i \in 1..19
    <3>2. x[k] = u[1] /\ u[1] = z[i]
      BY <1>3, <1>7, <1>9, <2>2, <3>1
    <3>3. k \in 1..Len(t)
      BY <1>6, <2>2
    <3> QED BY <1>1, <1>6, <1>8, <1>9, <2>2, <3>2, <3>3
  <2>3. CASE k > Len(s) + 1
    <3>1. PICK m : m = k - Len(s) - 1
      OBVIOUS
    <3>0. PICK p : p = Len(s)
      OBVIOUS
    <3>5. p \in Nat /\ i \in 1..19 /\ k \in 1..p + (21 - i) /\ k > p + 1 /\ m = k - p - 1
      BY <1>3, <1>6, <1>7, <1>9, <2>3, <3>0, <3>1
    <3>6. /\ m \in 1..20 - i /\ m + 1 \in 1..21 - i
          /\ k = p + (m + 1) /\ k = (p + 1) + m /\ i + (m + 1) - 1 = (i + 1) + m - 1
      BY <3>5
    <3>2. /\ m \in 1..Len(v) /\ m + 1 \in 1..Len(u)
          /\ k = Len(s) + (m + 1) /\ k = Len(t) + m /\ i + (m + 1) - 1 = (i + 1) + m - 1
      BY <1>3, <1>4, <1>6, <3>0, <3>6
    <3>3. x[k] = u[m + 1] /\ y[k] = v[m]
      BY <1>7, <1>8, <1>9, <3>2
    <3>4. u[m + 1] = z[i + (m + 1) - 1] /\ v[m] = z[(i + 1) + m - 1]
      BY <1>3, <1>4, <3>2
    <3> QED BY <3>2, <3>3, <3>4
  <2>4. k \in Int /\ k >= 1 /\ Len(s) \in Nat
    BY <1>6, <1>7, <1>9
  <2>5. k \in 1..Len(s) \/ k = Len(s) + 1 \/ k > Len(s) + 1
    BY <2>4
  <2> QED BY <2>1, <2>2, <2>3, <2>5
<1>12. x = y
  BY <1>7, <1>8, <1>9, <1>10, <1>11, SameSequences
<1> QED BY <1>1, <1>5, <1>9, <1>12

LEMMA ReadCanComplete ==
    ASSUME NEW s \in Seq(Byte), NEW st, NEW req, Fits(st, req), Read(st, req.headers, s)
    PROVE  CanBecomeValid(s)
<1> DEFINE Completes(k) ==
              \A i \in 1..20, x \in States, r \in Request, t \in Seq(Byte) :
                 i + k = 20 /\ StandsAt(x, i) /\ Fits(x, r) /\ Read(x, r.headers, t)
                   => Valid(t \o ShortestFrom(i))
           S == {k \in Nat : Completes(k)}
<1>1. 0 \in S
  <2> SUFFICES ASSUME NEW i \in 1..20, NEW x \in States, NEW r \in Request, NEW t \in Seq(Byte),
                      i + 0 = 20, StandsAt(x, i), Read(x, r.headers, t)
               PROVE  Valid(t \o ShortestFrom(i))
    OBVIOUS
  <2>1. i = 20 /\ x = "expecting_newline_3"
    BY DEF StandsAt
  <2>2. Valid(Append(t, "LF"))
    BY <2>1, ReadEnds
  <2>3. ShortestFrom(20) = <<"LF">>
    <3>1. PICK z, u, n : z = Shortest /\ u = ShortestFrom(20) /\ n = 20
      OBVIOUS
    <3>2. z \in Seq(Byte) /\ Len(z) = 20 /\ z[20] = "LF"
      BY <3>1, ShortestIs
    <3>3. u = SubSeq(z, n, n) /\ n \in Nat /\ n >= 1 /\ n <= n + 1 /\ n <= Len(z)
      BY <3>1, <3>2 DEF ShortestFrom
    <3>6. z \in Seq(Byte)
      BY <3>2
    <3>7. /\ SubSeq(z, n, n) \in Seq(Byte) /\ Len(SubSeq(z, n, n)) = n - n + 1
          /\ \A j \in 1..Len(SubSeq(z, n, n)) : SubSeq(z, n, n)[j] = z[n + j - 1]
      BY ONLY <3>3, <3>6, SubSeqIs
    <3>4. /\ u \in Seq(Byte) /\ Len(u) = n - n + 1
          /\ \A j \in 1..Len(u) : u[j] = z[n + j - 1]
      BY ONLY <3>3, <3>7
    <3>5. Len(u) = 1 /\ u[1] = "LF"
      BY <3>1, <3>2, <3>4
    <3> QED BY <3>1, <3>4, <3>5
  <2>4. t \o <<"LF">> = Append(t, "LF")
    BY DEF Byte
  <2> QED BY <2>1, <2>2, <2>3, <2>4
<1>2. ASSUME NEW k \in S PROVE k + 1 \in S
  <2> SUFFICES ASSUME NEW i \in 1..20, NEW x \in States, NEW r \in Request, NEW t \in Seq(Byte),
                      i + (k + 1) = 20, StandsAt(x, i), Fits(x, r), Read(x, r.headers, t)
               PROVE  Valid(t \o ShortestFrom(i))
    OBVIOUS
  <2>1. k \in Nat /\ i \in 1..19 /\ i + 1 \in 1..20 /\ (i + 1) + k = 20
    OBVIOUS
  <2>2. PICK b, a : b = Shortest[i] /\ a = Consume(x, r, b)
    OBVIOUS
  <2>3. b \in Byte
    <3>1. Shortest \in Seq(Byte) /\ i \in 1..Len(Shortest)
      BY <2>1, ShortestIs
    <3> QED BY <2>2, <3>1
  <2>4. Verdict(x, r.headers, b, a)
    BY <2>2, <2>3, ConsumeMoves
  <2>5. Fits(a.state, a.request)
    BY <2>2, <2>3, ConsumeFits
  <2>6. ~Stuck(x, r.headers, b)
    BY <2>1, <2>2, ShortestLeads
  <2>7. x # "expecting_newline_3"
    BY <2>1 DEF StandsAt
  <2>8. /\ a.result = "indeterminate"
        /\ Early(x, b, a.state) \/ Late(x, r.headers, b, a.state)
    BY <2>4, <2>6, <2>7 DEF Verdict
  <2>9. StandsAt(a.state, i + 1)
    BY <2>1, <2>2, <2>8, ShortestLeads
  <2>10. a.state \in States /\ a.request \in Request
         /\ (a.state \in NeedsHeader => a.request.headers # <<>>)
    BY <2>5 DEF Fits
  <2>11. Read(a.state, a.request.headers, Append(t, b))
    BY <2>3, <2>4, <2>8, <2>10, ReadGoesOn
  <2>12. Append(t, b) \in Seq(Byte)
    BY <2>3
  <2>13. Valid(Append(t, b) \o ShortestFrom(i + 1))
    BY <2>1, <2>5, <2>9, <2>10, <2>11, <2>12
  <2> QED BY <2>1, <2>2, <2>13, OneByteMore
<1>3. \A k \in Nat : Completes(k)
  <2> HIDE DEF Completes
  <2>1. S \in SUBSET Nat
    OBVIOUS
  <2> HIDE DEF S
  <2>2. \A k \in Nat : k \in S
    BY <1>1, <1>2, <2>1, InductionOnNat
  <2> QED BY <2>2 DEF S
<1>4. st \in States /\ req \in Request
  BY DEF Fits
<1>5. \E i \in 1..20 : StandsAt(st, i)
  BY <1>4 DEF States, LiteralStates, StandsAt
<1>6. PICK i \in 1..20 : StandsAt(st, i)
  BY <1>5
<1>7. PICK k : k = 20 - i
  OBVIOUS
<1>8. k \in Nat /\ i + k = 20
  BY <1>7
<1>9. Valid(s \o ShortestFrom(i))
  BY <1>3, <1>4, <1>6, <1>8
<1> QED BY <1>6, <1>9, ShortestIs DEF CanBecomeValid, ShortestFrom

\* The inductive invariant: while the result is open the text has the shape
\* that the state stands for, and a verdict is right.
GrammarInv ==
    /\ result = "indeterminate" => Read(state, request.headers, input)
    /\ result = "good" => Valid(input)
    /\ result = "bad" => \A u \in Seq(Byte) : ~Valid(input \o u)

LEMMA InitGrammarInv == Init => GrammarInv
<1> SUFFICES ASSUME Init PROVE GrammarInv
  OBVIOUS
<1>1. state = "method_start" /\ result = "indeterminate" /\ input = <<>>
  BY DEF Init
<1>2. request.headers = <<>>
  BY DEF Init
<1>3. Shape("method_start", <<>>, <<>>, <<>>)
  BY DEF Shape, EarlyStates, EarlyShape
<1>4. "method_start" \notin AfterCR /\ Len(<<>>) = 0 /\ <<>> \in Seq(Seq(Byte))
  BY DEF AfterCR
<1>5. Read("method_start", <<>>, <<>>)
  <2>1. PICK s : s = <<>>
    OBVIOUS
  <2>2. /\ Ranked(LineEnds(s)) /\ LinesOf(s) = <<>> /\ LineBegin(s) = 1
        /\ Rest(s) = <<>> /\ EndsAreWhole(s) /\ 1 <= Len(s) + 1
    BY <1>4, <2>1, NoLines
  <2>3. Read("method_start", <<>>, s)
    BY <1>3, <1>4, <2>1, <2>2, Zenon DEF Read
  <2> QED BY <2>1, <2>3
<1> QED BY <1>1, <1>2, <1>5 DEF GrammarInv

LEMMA NextGrammarInv == IInv /\ GrammarInv /\ [Next]_vars => GrammarInv'
<1> SUFFICES ASSUME IInv, GrammarInv, [Next]_vars PROVE GrammarInv'
  OBVIOUS
<1>1. ASSUME NEW b \in Byte, Feed(b) PROVE GrammarInv'
  <2>1. PICK a : a = Consume(state, request, b)
    OBVIOUS
  <2>2. /\ result = "indeterminate" /\ input' = Append(input, b) /\ state' = a.state
        /\ request' = a.request /\ result' = a.result
    BY <1>1, <2>1 DEF Feed
  <2>3. input \in Seq(Byte) /\ Fits(state, request)
    BY DEF IInv
  <2>4. Verdict(state, request.headers, b, a)
    BY <2>1, <2>3, ConsumeMoves
  <2>5. Read(state, request.headers, input)
    BY <2>2 DEF GrammarInv
  <2>6. CASE a.result = "indeterminate"
    <3>1. Fits(a.state, a.request)
      BY <2>1, <2>3, ConsumeFits
    <3>2. a.state \in NeedsHeader => a.request.headers # <<>>
      BY <3>1 DEF Fits
    <3>3. Read(a.state, a.request.headers, Append(input, b))
      BY <2>3, <2>4, <2>5, <2>6, <3>2, ReadGoesOn
    <3> QED BY <2>2, <2>6, <3>3 DEF GrammarInv
  <2>7. CASE a.result = "good"
    <3>1. state = "expecting_newline_3" /\ b = "LF"
      BY <2>4, <2>7 DEF Verdict
    <3>2. Valid(Append(input, b))
      BY <2>3, <2>5, <3>1, ReadEnds
    <3> QED BY <2>2, <2>7, <3>2 DEF GrammarInv
  <2>8. CASE a.result = "bad"
    <3>1. Stuck(state, request.headers, b) /\ state \in States
      BY <2>3, <2>4, <2>8 DEF Verdict, Fits
    <3>2. \A u \in Seq(Byte) : ~Valid(Append(input, b) \o u)
      BY <2>3, <2>5, <3>1, ReadIsDoomed
    <3> QED BY <2>2, <2>8, <3>2 DEF GrammarInv
  <2> QED BY <2>4, <2>6, <2>7, <2>8 DEF Verdict
<1>2. CASE UNCHANGED vars
  BY <1>2 DEF GrammarInv, vars
<1> QED
  BY <1>1, <1>2 DEF Next

\* The parser says good exactly when what it has read, however long, is a
\* request of the grammar.
THEOREM GrammarAccepted == Spec => []GoodIsValid
<1>1. IInv /\ GrammarInv => GoodIsValid
  <2> SUFFICES ASSUME IInv, GrammarInv PROVE GoodIsValid
    OBVIOUS
  <2>1. input \in Seq(Byte) /\ result \in {"good", "bad", "indeterminate"}
    BY DEF IInv
  <2>2. result = "indeterminate" => ~Valid(input)
    BY <2>1, ReadIsIncomplete DEF GrammarInv
  <2>3. result = "bad" => ~Valid(input)
    <3>1. input \o <<>> = input /\ <<>> \in Seq(Byte)
      BY <2>1
    <3> QED BY <3>1 DEF GrammarInv
  <2> QED BY <2>1, <2>2, <2>3 DEF GrammarInv, GoodIsValid
<1> QED
  BY <1>1, InitIInv, NextIInv, InitGrammarInv, NextGrammarInv, PTL DEF Spec

\* It says bad exactly when nothing that can follow, however long, makes a
\* request of what it has read, and goes on otherwise.
THEOREM VerdictsAreTimely == Spec => []VerdictIsTimely
<1>1. IInv /\ GrammarInv => VerdictIsTimely
  <2> SUFFICES ASSUME IInv, GrammarInv PROVE VerdictIsTimely
    OBVIOUS
  <2>1. /\ input \in Seq(Byte) /\ result \in {"good", "bad", "indeterminate"}
        /\ result = "indeterminate" => Fits(state, request)
    BY DEF IInv
  <2>2. result = "indeterminate" => CanBecomeValid(input)
    BY <2>1, ReadCanComplete DEF GrammarInv
  <2>3. result = "bad" => ~CanBecomeValid(input)
    <3>1. ASSUME NEW i \in 1..Len(Shortest) PROVE SubSeq(Shortest, i, Len(Shortest)) \in Seq(Byte)
      <4>1. PICK z, j, n : z = Shortest /\ j = i /\ n = Len(Shortest)
        OBVIOUS
      <4>2. z \in Seq(Byte)
        BY <4>1, ShortestIs
      <4>3. j \in Nat /\ n \in Nat /\ j >= 1 /\ j <= n + 1 /\ n <= Len(z)
        BY <4>1, ShortestIs
      <4>4. SubSeq(z, j, n) \in Seq(Byte)
        BY ONLY <4>2, <4>3, SubSeqIs
      <4> QED BY <4>1, <4>4
    <3> QED BY <3>1 DEF GrammarInv, CanBecomeValid
  <2> QED BY <2>1, <2>2, <2>3 DEF VerdictIsTimely
<1> QED
  BY <1>1, InitIInv, NextIInv, InitGrammarInv, NextGrammarInv, PTL DEF Spec

-----------------------------------------------------------------------------
(* The request that a text stands for.                                     *)

\* Byte b, which takes the parser from st to st2, makes req2 of req.
Builds(st, b, st2, req, req2) ==
    /\ req2.method = IF st2 = "method" THEN Append(req.method, b) ELSE req.method
    /\ req2.uri = IF st = "uri" /\ st2 = "uri" THEN Append(req.uri, b) ELSE req.uri
    /\ req2.major = IF st = "http_version_slash" THEN 0
                    ELSE IF st2 = "http_version_major" THEN 10 * req.major + 1
                    ELSE req.major
    /\ req2.minor = IF st = "http_version_slash" THEN 0
                    ELSE IF st2 = "http_version_minor" THEN 10 * req.minor + 1
                    ELSE req.minor
    /\ req2.headers =
          IF st2 = "header_name"
          THEN IF st = "header_name" THEN AddName(req, b).headers
               ELSE Append(req.headers, [name |-> <<b>>, value |-> <<>>])
          ELSE IF st2 = "header_value" /\ st # "space_before_header_value"
               THEN AddValue(req, b).headers
          ELSE req.headers

\* What has been read of the version, behind position j, is in the request.
NumbersMean(st, req, l, j) ==
    /\ st = "http_version_major_start" => req.major = 0 /\ req.minor = 0
    /\ st = "http_version_major" => req.major = Ones(Len(l) - (j + 5)) /\ req.minor = 0
    /\ st = "http_version_minor_start" => req.major = Ones(Len(l) - (j + 6)) /\ req.minor = 0
    /\ st = "http_version_minor" =>
          \E dot \in 1..Len(l) - 1 :
             /\ l[dot] = "." /\ Major(l, j, dot - 1)
             /\ req.major = Ones(dot - (j + 6)) /\ req.minor = Ones(Len(l) - dot)

\* The method and the URI of a request line with spaces at i and j.
LineMeans(req, l, i, j) ==
    /\ RequestLine(l, i, j)
    /\ req.method = SubSeq(l, 1, i - 1) /\ req.uri = SubSeq(l, i + 1, j - 1)

\* What has been read of the request line is in the request.
EarlyMeans(st, req, l) ==
    \/ st = "method_start" /\ l = <<>> /\ req.method = <<>> /\ req.uri = <<>>
    \/ st = "method" /\ l # <<>> /\ AllIn(l, 1, Len(l), Token) /\ req.method = l /\ req.uri = <<>>
    \/ /\ st = "uri"
       /\ \E i \in 1..Len(l) : /\ 1 < i /\ l[i] = "SP" /\ AllIn(l, 1, i - 1, Token)
                               /\ AllIn(l, i + 1, Len(l), Visible)
                               /\ req.method = SubSeq(l, 1, i - 1)
                               /\ req.uri = SubSeq(l, i + 1, Len(l))
    \/ \E i, j \in 1..Len(l) :
          LineMeans(req, l, i, j) /\ VersionShape(st, l, j) /\ NumbersMean(st, req, l, j)

\* Headers with v added to the value of the last one.
Longer(hs, v) == [hs EXCEPT ![Len(hs)].value = @ \o v]

\* The headers of the lines read, and what has been read of the next line,
\* are the headers of the request.
LateMeans(st, hs, lines, l) ==
    LET before == HeadersOf(lines)
        With(n, v) == Append(before, [name |-> n, value |-> v])
    IN  \/ /\ st \in {"header_line_start", "header_lws"} \cup AfterCR
           /\ hs = before
        \/ st = "header_name" /\ hs = With(l, <<>>)
        \/ /\ st = "space_before_header_value"
           /\ hs = With(SubSeq(l, 1, Len(l) - 1), <<>>)
        \/ /\ st = "header_value"
           /\ \/ \E colon \in 1..Len(l) :
                    /\ HeaderForm(l, colon)
                    /\ hs = With(SubSeq(l, 1, colon - 1), SubSeq(l, colon + 2, Len(l)))
              \/ \E indent \in 1..Len(l) :
                    /\ Len(lines) >= 2 /\ ContinuationForm(l, indent)
                    /\ hs = Longer(before, SubSeq(l, indent, Len(l)))

\* The request line, once it has been read, is in the request.
FirstLineIsMeant(req, l) == EarlyMeans("http_version_minor", req, l)

Meant(st, req, lines, l) ==
    IF st \in EarlyStates THEN EarlyMeans(st, req, l)
    ELSE FirstLineIsMeant(req, lines[1]) /\ LateMeans(st, req.headers, lines, l)

-----------------------------------------------------------------------------
(* Recursion.  A function that says of each number what it is from what it *)
(* is of the one before exists, and is unique.                             *)

\* f begins with first and goes on as step says.
Follows(n, first, step, f) == f[0] = first /\ \A i \in 1..n : f[i] = step[i][f[i - 1]]

LEMMA Recursion ==
    ASSUME NEW D, NEW n \in Nat, NEW first \in D, NEW step \in [1..n -> [D -> D]]
    PROVE  \E f \in [0..n -> D] : Follows(n, first, step, f)
<1> DEFINE Upto(k, f) == Follows(k, first, step, f)
           S == {k \in Nat : k <= n => \E f \in [0..k -> D] : Upto(k, f)}
<1>1. 0 \in S
  <2>1. PICK f : f = [i \in 0..0 |-> first]
    OBVIOUS
  <2>2. f \in [0..0 -> D] /\ f[0] = first
    BY <2>1
  <2>3. Upto(0, f)
    BY <2>2 DEF Follows
  <2> QED BY <2>2, <2>3
<1>2. ASSUME NEW k \in S PROVE k + 1 \in S
  <2> SUFFICES ASSUME k + 1 <= n PROVE \E f \in [0..(k + 1) -> D] : Upto(k + 1, f)
    OBVIOUS
  <2>1. k \in Nat /\ k <= n /\ k + 1 \in 1..n
    OBVIOUS
  <2>2. PICK g \in [0..k -> D] : Upto(k, g)
    BY <2>1
  <2>3. PICK x : x = step[k + 1][g[k]]
    OBVIOUS
  <2>4. x \in D
    BY <2>1, <2>3
  <2>5. PICK f : f = [i \in 0..(k + 1) |-> IF i = k + 1 THEN x ELSE g[i]]
    OBVIOUS
  <2>6. f \in [0..(k + 1) -> D] /\ f[k + 1] = x /\ \A i \in 0..k : f[i] = g[i]
    BY <2>1, <2>4, <2>5
  <2>7. ASSUME NEW i \in 1..(k + 1) PROVE f[i] = step[i][f[i - 1]]
    <3>1. CASE i = k + 1
      <4>1. i - 1 = k /\ k \in 0..k
        BY <2>1, <3>1
      <4> QED BY <2>3, <2>6, <3>1, <4>1
    <3>2. CASE i # k + 1
      <4>1. i \in 1..k /\ i \in 0..k /\ i - 1 \in 0..k
        BY <2>1, <3>2
      <4> QED BY <2>2, <2>6, <4>1 DEF Follows
    <3> QED BY <3>1, <3>2
  <2>8. f[0] = first
    BY <2>1, <2>2, <2>6 DEF Follows
  <2>9. Upto(k + 1, f)
    BY <2>7, <2>8 DEF Follows
  <2> QED BY <2>6, <2>9
<1> HIDE DEF S
<1>3. n \in S
  <2>1. S \in SUBSET Nat
    BY DEF S
  <2> QED BY <1>1, <1>2, <2>1, InductionOnNat
<1> QED BY <1>3 DEF S

LEMMA RecursionIsUnique ==
    ASSUME NEW n \in Nat, NEW f, NEW g, f[0] = g[0],
           \A i \in 1..n : f[i - 1] = g[i - 1] => f[i] = g[i]
    PROVE  f[n] = g[n]
<1> DEFINE S == {k \in Nat : k <= n => f[k] = g[k]}
<1>1. 0 \in S
  OBVIOUS
<1>2. ASSUME NEW k \in S PROVE k + 1 \in S
  <2> SUFFICES ASSUME k + 1 <= n PROVE f[k + 1] = g[k + 1]
    OBVIOUS
  <2>1. k \in Nat /\ k <= n /\ k + 1 \in 1..n /\ (k + 1) - 1 = k
    OBVIOUS
  <2>2. f[k] = g[k]
    BY <2>1
  <2> QED BY <2>1, <2>2
<1> HIDE DEF S
<1>3. \A k \in Nat : k \in S
  <2>1. S \in SUBSET Nat
    BY DEF S
  <2> QED BY <1>1, <1>2, <2>1, InductionOnNat
<1> QED BY <1>3 DEF S

\* f says of each number up to n what so many digits 1 are.
Counts(n, f) == f[0] = 0 /\ \A i \in 1..n : f[i] = 10 * f[i - 1] + 1

LEMMA OnesIs ==
    ASSUME NEW n \in Nat, NEW f \in [0..n -> Nat], Counts(n, f)
    PROVE  Ones(n) = f[n]
<1> DEFINE Is(g) == g = [k \in 0..n |-> IF k = 0 THEN 0 ELSE 10 * g[k - 1] + 1]
<1>1. Is(f)
  <2>1. \A k \in 0..n : k = 0 \/ k \in 1..n
    OBVIOUS
  <2>2. \A k \in 0..n : f[k] = IF k = 0 THEN 0 ELSE 10 * f[k - 1] + 1
    BY <2>1 DEF Counts
  <2> QED BY <2>2
<1>2. PICK g : g = CHOOSE h : Is(h)
  OBVIOUS
<1>3. Is(g)
  <2> HIDE DEF Is
  <2> QED BY <1>1, <1>2
<1>4. Ones(n) = g[n]
  BY <1>2 DEF Ones
<1>5. g[0] = 0 /\ \A i \in 1..n : g[i] = 10 * g[i - 1] + 1
  <2>1. \A k \in 0..n : g[k] = IF k = 0 THEN 0 ELSE 10 * g[k - 1] + 1
    BY <1>3
  <2>2. 0 \in 0..n /\ \A i \in 1..n : i \in 0..n /\ i # 0
    OBVIOUS
  <2> QED BY ONLY <2>1, <2>2
<1>6. f[n] = g[n]
  <2>1. f[0] = g[0]
    BY <1>5 DEF Counts
  <2>2. \A i \in 1..n : f[i - 1] = g[i - 1] => f[i] = g[i]
    BY <1>5 DEF Counts
  <2> QED BY <2>1, <2>2, RecursionIsUnique
<1> QED BY <1>4, <1>6

\* A digit more.
LEMMA OnesGrow ==
    /\ Ones(0) = 0
    /\ \A n \in Nat : Ones(n) \in Nat /\ Ones(n + 1) = 10 * Ones(n) + 1
<1>1. Ones(0) = 0
  <2>1. PICK f : f = [k \in 0..0 |-> 0]
    OBVIOUS
  <2>2. f \in [0..0 -> Nat] /\ f[0] = 0 /\ Counts(0, f)
    BY <2>1 DEF Counts
  <2> QED BY <2>2, OnesIs
<1>2. ASSUME NEW n \in Nat PROVE Ones(n) \in Nat /\ Ones(n + 1) = 10 * Ones(n) + 1
  <2>1. PICK m : m = n + 1
    OBVIOUS
  <2>2. PICK step : step = [i \in 1..m |-> [x \in Nat |-> 10 * x + 1]]
    OBVIOUS
  <2>3. PICK f \in [0..m -> Nat] : Follows(m, 0, step, f)
    <3>1. step \in [1..m -> [Nat -> Nat]] /\ m \in Nat /\ 0 \in Nat
      BY <2>1, <2>2
    <3> QED BY <3>1, Recursion, Zenon
  <2>4. Counts(m, f)
    <3>1. \A i \in 1..m : i - 1 \in 0..m /\ f[i - 1] \in Nat
      BY <2>1, <2>3
    <3> QED BY <2>2, <2>3, <3>1 DEF Counts, Follows
  <2>5. PICK g : g = [k \in 0..n |-> f[k]]
    OBVIOUS
  <2>6. \A k \in 0..n : k \in 0..m /\ f[k] \in Nat /\ g[k] = f[k]
    BY <2>1, <2>3, <2>5
  <2>7. g \in [0..n -> Nat]
    BY <2>5, <2>6
  <2>8. Counts(n, g)
    <3>1. \A i \in 1..n : i \in 1..m /\ i \in 0..n /\ i - 1 \in 0..n
      BY <2>1
    <3> QED BY <2>4, <2>6, <3>1 DEF Counts
  <2>9. Ones(n) = g[n] /\ Ones(m) = f[m]
    BY SMTT(30), <2>1, <2>4, <2>7, <2>8, OnesIs
  <2>10. f[m] = 10 * f[n] + 1
    BY <2>1, <2>4 DEF Counts
  <2> QED BY <2>1, <2>6, <2>9, <2>10
<1> QED BY <1>1, <1>2

\* f joins the first n of the texts ss.
Joins(n, ss, f) == f[0] = <<>> /\ \A i \in 1..n : f[i] = f[i - 1] \o ss[i]

LEMMA FlattenIs ==
    ASSUME NEW ss \in Seq(Seq(Byte)), NEW n \in Nat, n = Len(ss),
           NEW f \in [0..n -> Seq(Byte)], Joins(n, ss, f)
    PROVE  FlattenSeq(ss) = f[n]
<1> DEFINE Is(g) == g = [i \in 1..Len(ss) |-> IF i = 1 THEN ss[i] ELSE g[i - 1] \o ss[i]]
<1>1. CASE n = 0
  <2>1. ss = <<>> /\ FlattenSeq(ss) = ss
    <3>1. ss = <<>> /\ Len(ss) = 0
      <4>1. PICK D : D = Seq(Byte)
        OBVIOUS
      <4>2. \A s \in Seq(D) : Len(s) = 0 => s = <<>>
        OBVIOUS
      <4>3. ss \in Seq(D) /\ Len(ss) = 0
        BY <1>1, <4>1
      <4> QED BY ONLY <4>2, <4>3
    <3> QED BY <3>1, Zenon DEF FlattenSeq
  <2> QED BY <1>1, <2>1 DEF Joins
<1>2. CASE n # 0
  <2>1. \A i \in 1..n : ss[i] \in Seq(Byte)
    OBVIOUS
  <2>2. 1 \in 1..n /\ f[1] = ss[1]
    <3>1. 1 \in 1..n /\ 1 - 1 = 0
      BY <1>2
    <3>2. f[1] = <<>> \o ss[1]
      BY <3>1 DEF Joins
    <3> QED BY <2>1, <3>1, <3>2
  <2>3. PICK k : k = [i \in 1..n |-> f[i]]
    OBVIOUS
  <2>4. \A i \in 1..n : k[i] = IF i = 1 THEN ss[i] ELSE k[i - 1] \o ss[i]
    <3>1. \A i \in 1..n : k[i] = f[i] /\ (i # 1 => i - 1 \in 1..n)
      BY <2>3
    <3> QED BY <2>2, <3>1 DEF Joins
  <2>5. Is(k)
    BY <2>3, <2>4
  <2>6. PICK g : g = CHOOSE h : Is(h)
    OBVIOUS
  <2>7. Is(g)
    <3> HIDE DEF Is
    <3> QED BY <2>5, <2>6
  <2>8. FlattenSeq(ss) = g[n]
    BY <1>2, <2>6 DEF FlattenSeq
  <2>9. \A i \in 1..n : g[i] = IF i = 1 THEN ss[i] ELSE g[i - 1] \o ss[i]
    BY <2>7
  <2>10. PICK e : e = [i \in 0..n |-> IF i = 0 THEN <<>> ELSE g[i]]
    OBVIOUS
  <2>11. e[0] = <<>> /\ \A i \in 1..n : e[i] = g[i]
    BY <2>10
  <2>12. \A i \in 1..n : f[i - 1] = e[i - 1] => f[i] = e[i]
    <3> SUFFICES ASSUME NEW i \in 1..n, f[i - 1] = e[i - 1] PROVE f[i] = e[i]
      OBVIOUS
    <3>1. CASE i = 1
      BY <2>2, <2>9, <2>11, <3>1
    <3>2. CASE i # 1
      <4>1. i - 1 \in 1..n
        BY <3>2
      <4>2. e[i] = g[i - 1] \o ss[i] /\ g[i - 1] = e[i - 1]
        BY <2>9, <2>11, <3>2, <4>1
      <4>3. f[i] = f[i - 1] \o ss[i]
        BY DEF Joins
      <4> QED BY <4>2, <4>3
    <3> QED BY <3>1, <3>2
  <2>13. f[n] = e[n]
    <3>1. f[0] = e[0]
      BY <2>11 DEF Joins
    <3> QED BY ONLY <2>12, <3>1, n \in Nat, RecursionIsUnique
  <2> QED BY <1>2, <2>8, <2>11, <2>13
<1> QED BY <1>1, <1>2

\* A text more.
LEMMA FlattenGrows ==
    ASSUME NEW ss \in Seq(Seq(Byte)), NEW x \in Seq(Byte)
    PROVE  /\ FlattenSeq(ss) \in Seq(Byte)
           /\ FlattenSeq(Append(ss, x)) = FlattenSeq(ss) \o x
<1>1. PICK tt, n, m : tt = Append(ss, x) /\ n = Len(ss) /\ m = n + 1
  OBVIOUS
<1>2. /\ tt \in Seq(Seq(Byte)) /\ Len(tt) = m /\ n \in Nat /\ m \in Nat /\ tt[m] = x
      /\ \A i \in 1..n : tt[i] = ss[i]
  BY <1>1
<1>3. PICK step : step = [i \in 1..m |-> [y \in Seq(Byte) |-> y \o tt[i]]]
  OBVIOUS
<1>4. PICK f \in [0..m -> Seq(Byte)] : Follows(m, <<>>, step, f)
  <2>1. \A i \in 1..m : tt[i] \in Seq(Byte)
    BY <1>2
  <2>2. \A y, z \in Seq(Byte) : y \o z \in Seq(Byte)
    OBVIOUS
  <2>3. step \in [1..m -> [Seq(Byte) -> Seq(Byte)]]
    BY <1>3, <2>1, <2>2
  <2>4. <<>> \in Seq(Byte)
    OBVIOUS
  <2> QED BY <1>2, <2>3, <2>4, Recursion, Zenon
<1>14. \A k \in 0..m : f[k] \in Seq(Byte)
  OBVIOUS
<1>5. Joins(m, tt, f)
  <2>0. \A i \in 1..m : i - 1 \in 0..m
    BY <1>2
  <2>1. \A i \in 1..m : f[i - 1] \in Seq(Byte)
    BY <1>14, <2>0, Zenon
  <2> QED BY <1>3, <1>4, <2>1 DEF Joins, Follows
<1>6. PICK g : g = [k \in 0..n |-> f[k]]
  OBVIOUS
<1>7. \A k \in 0..n : k \in 0..m /\ f[k] \in Seq(Byte) /\ g[k] = f[k]
  <2>1. \A k \in 0..n : k \in 0..m
    BY <1>1, <1>2
  <2> QED BY <1>6, <1>14, <2>1, Zenon
<1>8. g \in [0..n -> Seq(Byte)]
  BY <1>6, <1>7
<1>9. Joins(n, ss, g)
  <2>1. \A i \in 1..n : i \in 1..m /\ i \in 0..n /\ i - 1 \in 0..n
    BY <1>1, <1>2
  <2>2. 0 \in 0..n
    BY <1>2
  <2> QED BY <1>2, <1>5, <1>7, <2>1, <2>2 DEF Joins
<1>10. FlattenSeq(ss) = g[n]
  BY <1>1, <1>2, <1>8, <1>9, FlattenIs
<1>11. FlattenSeq(tt) = f[m]
  BY <1>2, <1>5, FlattenIs
<1>12. f[m] = f[n] \o x
  <2>1. m \in 1..m /\ m - 1 = n
    BY <1>1, <1>2
  <2> QED BY <1>2, <1>5, <2>1 DEF Joins
<1>13. n \in 0..n
  BY <1>2
<1> QED BY <1>1, <1>7, <1>10, <1>11, <1>12, <1>13

LEMMA FlattenNone == FlattenSeq(<<>>) = <<>>
BY DEF FlattenSeq

-----------------------------------------------------------------------------
(* The headers of lines that grow by a line.                               *)

LEMMA SequenceIs ==
    ASSUME NEW D, NEW n \in Nat, NEW p, p = [i \in 1..n |-> p[i]], \A i \in 1..n : p[i] \in D
    PROVE  p \in Seq(D) /\ Len(p) = n
<1>1. p \in [1..n -> D]
  BY Zenon
<1> QED BY <1>1

LEMMA IndentExists ==
    ASSUME NEW l \in Seq(Byte)
    PROVE  Indent(l) \in 1..Len(l) + 1 /\ Unindented(l) \in Seq(Byte)
<1> DEFINE A == {i \in 1..Len(l) + 1 : i = Len(l) + 1 \/ l[i] \notin Blank}
<1>1. Len(l) \in Nat /\ Len(l) + 1 \in A /\ A \in SUBSET Nat
  OBVIOUS
<1>2. PICK i \in A : \A j \in A : i <= j
  <2> HIDE DEF A
  <2> QED BY <1>1, LeastNumber
<1>3. i \in 1..Len(l) + 1 /\ (i <= Len(l) => l[i] \notin Blank)
  BY <1>1
<1>4. AllIn(l, 1, i - 1, Blank)
  <2> SUFFICES ASSUME NEW j \in 1..(i - 1), l[j] \notin Blank PROVE FALSE
    BY DEF AllIn
  <2>1. j \in A /\ ~(i <= j)
    BY <1>1, <1>3
  <2> QED BY <1>2, <2>1
<1>5. Indent(l) = i
  BY <1>3, <1>4, IndentIs
<1>6. SubSeq(l, i, Len(l)) \in Seq(Byte)
  <2>1. i \in Nat /\ Len(l) \in Nat /\ i >= 1 /\ i <= Len(l) + 1 /\ Len(l) <= Len(l)
    BY <1>1, <1>3
  <2> QED BY <2>1, SubSeqIs
<1> QED BY <1>3, <1>5, <1>6 DEF Unindented

\* Lines up to m continue the header in line k, and no more.
Lasts(lines, k, m) ==
    /\ \A j \in k + 1..m : IsContinuation(lines[j])
    /\ m = Len(lines) \/ ~IsContinuation(lines[m + 1])

LEMMA LastIs ==
    ASSUME NEW lines \in Seq(Seq(Byte)), NEW k \in 1..Len(lines),
           NEW m \in k..Len(lines), Lasts(lines, k, m)
    PROVE  LastOf(lines, k) = m
<1>1. Len(lines) \in Nat
  OBVIOUS
<1>2. ASSUME NEW i \in k..Len(lines), Lasts(lines, k, i) PROVE i = m
  <2>1. CASE i < m
    <3>1. i + 1 \in k + 1..m /\ i # Len(lines)
      BY <1>1, <2>1
    <3> QED BY <1>2, <3>1 DEF Lasts
  <2>2. CASE m < i
    <3>1. m + 1 \in k + 1..i /\ m # Len(lines)
      BY <1>1, <2>2
    <3> QED BY <1>2, <3>1 DEF Lasts
  <2> QED BY <1>1, <2>1, <2>2
<1>3. (CHOOSE i \in k..Len(lines) : Lasts(lines, k, i)) = m
  BY <1>2
<1> QED BY <1>3 DEF LastOf, Lasts

LEMMA LastExists ==
    ASSUME NEW lines \in Seq(Seq(Byte)), NEW k \in 1..Len(lines)
    PROVE  LastOf(lines, k) \in k..Len(lines) /\ Lasts(lines, k, LastOf(lines, k))
<1> DEFINE A == {m \in k..Len(lines) : m = Len(lines) \/ ~IsContinuation(lines[m + 1])}
<1>1. Len(lines) \in Nat /\ Len(lines) \in A /\ A \in SUBSET Nat
  OBVIOUS
<1>2. PICK m \in A : \A j \in A : m <= j
  <2> HIDE DEF A
  <2> QED BY <1>1, LeastNumber
<1>3. m \in k..Len(lines)
  OBVIOUS
<1>4. Lasts(lines, k, m)
  <2>1. ASSUME NEW j \in k + 1..m, ~IsContinuation(lines[j]) PROVE FALSE
    <3>1. j - 1 \in k..Len(lines) /\ (j - 1) + 1 = j /\ ~(m <= j - 1)
      BY <1>1, <1>3
    <3>2. j - 1 \in A
      BY <2>1, <3>1
    <3> QED BY <1>2, <3>1, <3>2
  <2> QED BY <2>1 DEF Lasts
<1> QED BY <1>3, <1>4, LastIs

\* The parts of the value of the header in line k that are in other lines.
Pieces(lines, k, m) == [i \in 1..m - k |-> Unindented(lines[k + i])]

LEMMA PiecesAre ==
    ASSUME NEW lines \in Seq(Seq(Byte)), NEW k \in 1..Len(lines), NEW m \in k..Len(lines)
    PROVE  /\ Pieces(lines, k, m) \in Seq(Seq(Byte))
           /\ FlattenSeq(Pieces(lines, k, m)) \in Seq(Byte)
<1>1. Len(lines) \in Nat /\ m - k \in Nat
  OBVIOUS
<1>2. \A i \in 1..m - k : k + i \in 1..Len(lines)
  BY <1>1
<1>3. \A i \in 1..m - k : Unindented(lines[k + i]) \in Seq(Byte)
  BY SMTT(30), <1>2, IndentExists
<1>4. PICK p, n : p = Pieces(lines, k, m) /\ n = m - k
  OBVIOUS
<1>5. p = [i \in 1..n |-> p[i]] /\ \A i \in 1..n : p[i] \in Seq(Byte)
  BY <1>3, <1>4 DEF Pieces
<1>6. p \in Seq(Seq(Byte))
  <2>1. n \in Nat
    BY <1>1, <1>4
  <2> QED BY ONLY <1>5, <2>1, SequenceIs
<1>7. <<>> \in Seq(Byte)
  OBVIOUS
<1> QED BY <1>4, <1>6, <1>7, FlattenGrows

\* The first position of a byte.
LEMMA PositionIs ==
    ASSUME NEW l \in Seq(Byte), NEW b, NEW i \in 1..Len(l), l[i] = b,
           \A j \in 1..(i - 1) : l[j] # b
    PROVE  Position(l, b) = i
<1> DEFINE at == {j \in 1..Len(l) : l[j] = b}
<1>1. i \in at /\ Len(l) \in Nat
  OBVIOUS
<1>2. \A j \in at : i <= j
  <2> SUFFICES ASSUME NEW j \in at, j < i PROVE FALSE
    BY <1>1
  <2>1. j \in 1..(i - 1) /\ l[j] = b
    BY <1>1
  <2> QED BY <2>1
<1>3. \A j \in at : (\A k \in at : j <= k) => j = i
  BY <1>1, <1>2
<1>4. (CHOOSE j \in at : \A k \in at : j <= k) = i
  BY <1>1, <1>2, <1>3
<1> QED BY <1>1, <1>4 DEF Position

\* The name and the value of a header are texts.
LEMMA HeaderIsTyped ==
    ASSUME NEW l \in Seq(Byte), NEW c \in 1..Len(l), HeaderForm(l, c)
    PROVE  /\ Position(l, ":") = c
           /\ NameOf(l) = SubSeq(l, 1, c - 1) /\ ValueOf(l) = SubSeq(l, c + 2, Len(l))
           /\ NameOf(l) \in Seq(Byte) /\ ValueOf(l) \in Seq(Byte)
<1>1. /\ Len(l) \in Nat /\ 1 < c /\ c < Len(l) /\ l[c] = ":"
      /\ \A j \in 1..(c - 1) : l[j] # ":"
  BY DEF HeaderForm, AllIn, Token
<1>2. Position(l, ":") = c
  BY <1>1, PositionIs
<1>3. PICK from, to : from = c + 2 /\ to = c - 1
  OBVIOUS
<1>4. /\ from \in Nat /\ to \in Nat /\ from >= 1 /\ from <= Len(l) + 1 /\ 1 <= to + 1
      /\ to <= Len(l)
  BY <1>1, <1>3
<1>5. SubSeq(l, from, Len(l)) \in Seq(Byte)
  BY <1>1, <1>4, SubSeqIs
<1>6. SubSeq(l, 1, to) \in Seq(Byte)
  BY <1>1, <1>4, SubSeqIs
<1>7. NameOf(l) = SubSeq(l, 1, to) /\ ValueOf(l) = SubSeq(l, from, Len(l))
  BY <1>2, <1>3 DEF NameOf, ValueOf
<1> QED BY <1>2, <1>3, <1>5, <1>6, <1>7

LEMMA ConcatTwice ==
    ASSUME NEW s \in Seq(Byte), NEW t \in Seq(Byte)
    PROVE  /\ s \o t \in Seq(Byte) /\ s \o <<>> = s /\ <<>> \o s = s
OBVIOUS

LEMMA ConcatRegroups ==
    ASSUME NEW s \in Seq(Byte), NEW t \in Seq(Byte), NEW u \in Seq(Byte)
    PROVE  (s \o t) \o u = s \o (t \o u)
OBVIOUS

\* The header in line k, if m is the last line that continues it.
LEMMA HeaderAtIs ==
    ASSUME NEW lines \in Seq(Seq(Byte)), NEW k \in 1..Len(lines), IsHeader(lines[k]),
           NEW m \in k..Len(lines), Lasts(lines, k, m)
    PROVE  /\ HeaderAt(lines, k) \in Header
           /\ HeaderAt(lines, k) =
                 [ name  |-> NameOf(lines[k]),
                   value |-> ValueOf(lines[k]) \o FlattenSeq(Pieces(lines, k, m)) ]
<1>1. LastOf(lines, k) = m
  BY LastIs
<1>2. HeaderAt(lines, k) =
         [ name  |-> NameOf(lines[k]),
           value |-> ValueOf(lines[k]) \o FlattenSeq(Pieces(lines, k, m)) ]
  BY <1>1 DEF HeaderAt, Pieces
<1>3. lines[k] \in Seq(Byte)
  OBVIOUS
<1>4. NameOf(lines[k]) \in Seq(Byte) /\ ValueOf(lines[k]) \in Seq(Byte)
  BY <1>3, HeaderIs, HeaderIsTyped
<1>5. FlattenSeq(Pieces(lines, k, m)) \in Seq(Byte)
  BY PiecesAre
<1>6. ValueOf(lines[k]) \o FlattenSeq(Pieces(lines, k, m)) \in Seq(Byte)
  BY <1>4, <1>5, ConcatTwice
<1> QED BY <1>2, <1>4, <1>6 DEF Header

\* The lines with l behind them.
LEMMA LineIsAdded ==
    ASSUME NEW lines \in Seq(Seq(Byte)), NEW l \in Seq(Byte)
    PROVE  /\ Append(lines, l) \in Seq(Seq(Byte)) /\ Len(lines) \in Nat
           /\ Len(Append(lines, l)) = Len(lines) + 1 /\ Append(lines, l)[Len(lines) + 1] = l
           /\ \A i \in 1..Len(lines) : Append(lines, l)[i] = lines[i]
<1>1. PICK D : D = Seq(Byte)
  OBVIOUS
<1>2. lines \in Seq(D) /\ l \in D
  BY <1>1
<1>3. PICK t : t = Append(lines, l)
  OBVIOUS
<1>4. /\ t \in Seq(D) /\ Len(t) = Len(lines) + 1 /\ Len(lines) \in Nat
      /\ t[Len(lines) + 1] = l /\ \A i \in 1..Len(lines) : t[i] = lines[i]
  BY ONLY <1>2, <1>3, LastElement
<1> QED BY <1>1, <1>3, <1>4

\* A line that does not continue the header in line k leaves it alone.
LEMMA HeaderStays ==
    ASSUME NEW lines \in Seq(Seq(Byte)), NEW l \in Seq(Byte),
           NEW k \in 1..Len(lines), IsHeader(lines[k]),
           LastOf(lines, k) < Len(lines) \/ ~IsContinuation(l)
    PROVE  HeaderAt(Append(lines, l), k) = HeaderAt(lines, k)
<1>1. PICK more, n, m : more = Append(lines, l) /\ n = Len(lines) /\ m = LastOf(lines, k)
  OBVIOUS
<1>2. /\ more \in Seq(Seq(Byte)) /\ n \in Nat /\ Len(more) = n + 1 /\ more[n + 1] = l
      /\ \A i \in 1..n : more[i] = lines[i]
  BY <1>1, LineIsAdded
<1>3. m \in k..n /\ Lasts(lines, k, m)
  BY <1>1, LastExists
<1>4. k \in 1..n + 1 /\ m \in k..n + 1 /\ more[k] = lines[k]
  BY <1>1, <1>2, <1>3
<1>5. Lasts(more, k, m)
  <2>1. \A j \in k + 1..m : j \in 1..n
    BY <1>1, <1>3, <1>2
  <2>2. CASE m = n
    <3>1. ~IsContinuation(more[m + 1])
      BY <1>1, <1>2, <2>2
    <3> QED BY <1>2, <1>3, <2>1, <3>1 DEF Lasts
  <2>3. CASE m # n
    <3>1. m + 1 \in 1..n
      BY <1>1, <1>2, <1>3, <2>3
    <3> QED BY <1>1, <1>2, <1>3, <2>1, <2>3, <3>1 DEF Lasts
  <2> QED BY <2>2, <2>3
<1>6. Pieces(more, k, m) = Pieces(lines, k, m)
  <2>1. \A i \in 1..m - k : k + i \in 1..n
    BY <1>1, <1>2, <1>3
  <2>2. \A i \in 1..m - k : Unindented(more[k + i]) = Unindented(lines[k + i])
    BY <1>2, <2>1
  <2> QED BY <2>2 DEF Pieces
<1>7. /\ HeaderAt(more, k) = [ name  |-> NameOf(more[k]),
                               value |-> ValueOf(more[k]) \o FlattenSeq(Pieces(more, k, m)) ]
      /\ k \in 1..Len(more) /\ m \in k..Len(more)
  <2>1. k \in 1..Len(more) /\ m \in k..Len(more) /\ IsHeader(more[k])
    BY <1>2, <1>4
  <2> QED BY <1>2, <1>5, <2>1, HeaderAtIs
<1>8. HeaderAt(lines, k) = [ name  |-> NameOf(lines[k]),
                             value |-> ValueOf(lines[k]) \o FlattenSeq(Pieces(lines, k, m)) ]
  <2>1. m \in k..Len(lines)
    BY <1>1, <1>3
  <2> QED BY <1>3, <2>1, HeaderAtIs
<1> QED BY <1>1, <1>4, <1>6, <1>7, <1>8

\* A line that continues it, behind the last line that does.
LEMMA HeaderGoesOn ==
    ASSUME NEW lines \in Seq(Seq(Byte)), NEW l \in Seq(Byte),
           NEW k \in 1..Len(lines), IsHeader(lines[k]),
           LastOf(lines, k) = Len(lines), IsContinuation(l)
    PROVE  /\ HeaderAt(lines, k) \in Header
           /\ HeaderAt(Append(lines, l), k) =
                 [HeaderAt(lines, k) EXCEPT !.value = @ \o Unindented(l)]
<1>1. PICK more, n, m : more = Append(lines, l) /\ n = Len(lines) /\ m = n + 1
  OBVIOUS
<1>2. /\ more \in Seq(Seq(Byte)) /\ n \in Nat /\ Len(more) = m /\ more[m] = l
      /\ \A i \in 1..n : more[i] = lines[i]
  BY <1>1, LineIsAdded
<1>3. k \in 1..n /\ k \in 1..m /\ m \in k..m /\ n \in k..n /\ more[k] = lines[k]
  BY <1>1, <1>2
<1>4. Lasts(lines, k, n)
  BY <1>1, LastExists
<1>5. Lasts(more, k, m)
  <2>1. \A j \in k + 1..m : j = m \/ (j \in k + 1..n /\ j \in 1..n)
    BY <1>1, <1>2, <1>3
  <2> QED BY <1>2, <1>4, <2>1 DEF Lasts
<1>6. PICK p, q : p = Pieces(lines, k, n) /\ q = Pieces(more, k, m)
  OBVIOUS
<1>7. p \in Seq(Seq(Byte)) /\ FlattenSeq(p) \in Seq(Byte)
  BY <1>1, <1>3, <1>6, PiecesAre
<1>8. Unindented(l) \in Seq(Byte)
  BY IndentExists
<1>9. q = Append(p, Unindented(l))
  <2>1. PICK d, r : d = n - k /\ r = Append(p, Unindented(l))
    OBVIOUS
  <2>2. d \in Nat /\ m - k = d + 1 /\ k + (d + 1) = m
    BY <1>1, <1>2, <1>3, <2>1
  <2>3. Len(p) = d /\ \A i \in 1..d : p[i] = Unindented(lines[k + i])
    BY <1>6, <2>1, <2>2 DEF Pieces
  <2>4. /\ r \in Seq(Seq(Byte)) /\ Len(r) = d + 1 /\ r[d + 1] = Unindented(l)
        /\ \A i \in 1..d : r[i] = p[i]
    BY <1>7, <1>8, <2>1, <2>3, LineIsAdded
  <2>5. q \in Seq(Seq(Byte))
    <3>1. k \in 1..Len(more) /\ m \in k..Len(more)
      BY <1>2, <1>3
    <3> QED BY <1>2, <1>6, <3>1, PiecesAre
  <2>6. Len(q) = d + 1 /\ \A i \in 1..(d + 1) : q[i] = Unindented(more[k + i])
    BY <1>6, <2>2 DEF Pieces
  <2>7. ASSUME NEW i \in 1..(d + 1) PROVE q[i] = r[i]
    <3>1. CASE i = d + 1
      BY <1>2, <2>2, <2>4, <2>6, <3>1
    <3>2. CASE i # d + 1
      <4>1. i \in 1..d /\ k + i \in 1..n
        BY <1>2, <1>3, <2>1, <2>2, <3>2
      <4> QED BY <1>2, <2>3, <2>4, <2>6, <4>1
    <3> QED BY <3>1, <3>2
  <2>8. q = r
    <3>1. PICK D : D = Seq(Byte)
      OBVIOUS
    <3>2. q \in Seq(D) /\ r \in Seq(D) /\ Len(q) = Len(r) /\ \A i \in 1..Len(q) : q[i] = r[i]
      BY <2>4, <2>5, <2>6, <2>7, <3>1
    <3> QED BY ONLY <3>2, SameSequences
  <2> QED BY <2>1, <2>8
<1>10. FlattenSeq(q) = FlattenSeq(p) \o Unindented(l)
  BY <1>7, <1>8, <1>9, FlattenGrows
<1>11. HeaderAt(more, k) = [ name  |-> NameOf(lines[k]), value |-> ValueOf(lines[k]) \o FlattenSeq(q) ]
  <2>1. k \in 1..Len(more) /\ m \in k..Len(more) /\ IsHeader(more[k])
    BY <1>2, <1>3
  <2> QED BY <1>2, <1>3, <1>5, <1>6, <2>1, HeaderAtIs
<1>12. /\ HeaderAt(lines, k) \in Header
       /\ HeaderAt(lines, k) = [ name  |-> NameOf(lines[k]),
                                 value |-> ValueOf(lines[k]) \o FlattenSeq(p) ]
  BY <1>1, <1>3, <1>4, <1>6, HeaderAtIs
<1>13. lines[k] \in Seq(Byte)
  OBVIOUS
<1>14. ValueOf(lines[k]) \in Seq(Byte)
  BY <1>13, HeaderIs, HeaderIsTyped
<1>15. ValueOf(lines[k]) \o FlattenSeq(q)
         = (ValueOf(lines[k]) \o FlattenSeq(p)) \o Unindented(l)
  <2>1. PICK v, t, u : v = ValueOf(lines[k]) /\ t = FlattenSeq(p) /\ u = Unindented(l)
    OBVIOUS
  <2>2. v \in Seq(Byte) /\ t \in Seq(Byte) /\ u \in Seq(Byte)
    BY <1>7, <1>8, <1>14, <2>1
  <2>3. (v \o t) \o u = v \o (t \o u)
    BY <2>2, ConcatRegroups
  <2> QED BY <1>10, <2>1, <2>3
<1>16. [HeaderAt(lines, k) EXCEPT !.value = @ \o Unindented(l)]
         = [ name  |-> NameOf(lines[k]),
             value |-> (ValueOf(lines[k]) \o FlattenSeq(p)) \o Unindented(l) ]
  <2>1. PICK x, v, u : x = NameOf(lines[k]) /\ v = ValueOf(lines[k]) \o FlattenSeq(p)
                       /\ u = Unindented(l)
    OBVIOUS
  <2>2. \A w : [[name |-> x, value |-> v] EXCEPT !.value = w] = [name |-> x, value |-> w]
    OBVIOUS
  <2> QED BY <1>12, <2>1, <2>2, Zenon
<1> QED BY <1>1, <1>11, <1>12, <1>15, <1>16

\* The line of the header itself.
LEMMA HeaderBegins ==
    ASSUME NEW lines \in Seq(Seq(Byte)), NEW l \in Seq(Byte), IsHeader(l)
    PROVE  /\ HeaderAt(Append(lines, l), Len(lines) + 1) = [name |-> NameOf(l), value |-> ValueOf(l)]
           /\ HeaderAt(Append(lines, l), Len(lines) + 1) \in Header
<1>1. PICK more, m : more = Append(lines, l) /\ m = Len(lines) + 1
  OBVIOUS
<1>2. more \in Seq(Seq(Byte)) /\ Len(more) = m /\ more[m] = l /\ Len(lines) \in Nat
  BY <1>1, LineIsAdded
<1>3. m \in 1..Len(more) /\ m \in m..Len(more) /\ IsHeader(more[m]) /\ m \in Nat
  BY <1>1, <1>2
<1>4. Lasts(more, m, m)
  BY <1>2, <1>3 DEF Lasts
<1>5. /\ HeaderAt(more, m) \in Header
      /\ HeaderAt(more, m) = [ name |-> NameOf(l), value |-> ValueOf(l) \o FlattenSeq(Pieces(more, m, m)) ]
  BY <1>2, <1>3, <1>4, HeaderAtIs
<1>6. Pieces(more, m, m) = <<>>
  <2>1. m - m = 0
    BY <1>3
  <2>2. 1..0 = {}
    OBVIOUS
  <2> QED BY <2>1, <2>2 DEF Pieces
<1>7. ValueOf(l) \in Seq(Byte)
  BY HeaderIs, HeaderIsTyped
<1>8. ValueOf(l) \o FlattenSeq(Pieces(more, m, m)) = ValueOf(l)
  BY <1>6, <1>7, FlattenNone, ConcatTwice
<1> QED BY <1>1, <1>5, <1>8

\* The elements of a finite set of numbers have every rank.
LEMMA AllAreRanked ==
    ASSUME NEW n \in Nat, NEW T \in SUBSET (1..n)
    PROVE  T \in SUBSET Nat /\ IsFiniteSet(T) /\ Ranked(T) /\ Cardinality(T) \in Nat
<1> DEFINE S == {m \in Nat : \A U \in SUBSET (1..m) : Ranked(U)}
<1>1. ASSUME NEW m \in Nat, NEW U \in SUBSET (1..m)
      PROVE  U \in SUBSET Nat /\ IsFiniteSet(U) /\ Cardinality(U) \in Nat
  <2>1. IsFiniteSet(1..m)
    BY FS_Interval
  <2>2. IsFiniteSet(U)
    BY <2>1, FS_Subset
  <2> QED BY <2>2, FS_CardinalityType
<1>2. 0 \in S
  <2>1. Cardinality({}) = 0
    BY FS_EmptySet
  <2>2. Ranked({})
    BY <2>1 DEF Ranked
  <2>3. \A U \in SUBSET (1..0) : U = {}
    OBVIOUS
  <2> QED BY <2>2, <2>3
<1>3. ASSUME NEW m \in S PROVE m + 1 \in S
  <2> SUFFICES ASSUME NEW U \in SUBSET (1..(m + 1)) PROVE Ranked(U)
    OBVIOUS
  <2>1. PICK x, V : x = m + 1 /\ V = U \ {x}
    OBVIOUS
  <2>2. V \in SUBSET (1..m) /\ x \in Nat /\ m \in Nat /\ \A y \in V : y < x
    BY <2>1
  <2>3. Ranked(V) /\ V \in SUBSET Nat /\ IsFiniteSet(V)
    BY <1>1, <2>2
  <2>4. CASE x \in U
    <3>1. U = V \cup {x}
      BY <2>1, <2>4
    <3>2. Ranked(V \cup {x})
      BY <2>2, <2>3, AscendingAdd
    <3> QED BY <3>1, <3>2
  <2>5. CASE x \notin U
    BY <2>1, <2>3, <2>5
  <2> QED BY <2>4, <2>5
<1> HIDE DEF S
<1>4. n \in S
  <2>1. S \in SUBSET Nat
    BY DEF S
  <2> QED BY <1>2, <1>3, <2>1, InductionOnNat
<1> QED BY <1>1, <1>4 DEF S

\* The lines that are headers.
HeaderLines(lines) == {k \in 2..Len(lines) : IsHeader(lines[k])}

LEMMA HeadsAre ==
    ASSUME NEW lines \in Seq(Seq(Byte)), NEW heads, heads = Ascending(HeaderLines(lines)),
           NEW n, n = Cardinality(HeaderLines(lines))
    PROVE  /\ HeaderLines(lines) \in SUBSET Nat /\ IsFiniteSet(HeaderLines(lines))
           /\ Ranked(HeaderLines(lines))
           /\ n \in Nat /\ Len(heads) = n
           /\ \A h \in 1..n : heads[h] \in HeaderLines(lines) /\ Rank(HeaderLines(lines), heads[h]) = h
<1>1. PICK K, m : K = HeaderLines(lines) /\ m = Len(lines)
  OBVIOUS
<1>2. m \in Nat /\ K \in SUBSET (1..m)
  BY <1>1 DEF HeaderLines
<1>3. K \in SUBSET Nat /\ IsFiniteSet(K) /\ Ranked(K) /\ Cardinality(K) \in Nat
  BY <1>2, AllAreRanked
<1> QED BY <1>1, <1>3, AscendingRank

LEMMA HeadersAre ==
    ASSUME NEW lines \in Seq(Seq(Byte)), NEW heads, heads = Ascending(HeaderLines(lines)),
           NEW n, n = Cardinality(HeaderLines(lines))
    PROVE  /\ HeadersOf(lines) \in Seq(Header) /\ Len(HeadersOf(lines)) = n /\ n \in Nat
           /\ \A h \in 1..n : HeadersOf(lines)[h] = HeaderAt(lines, heads[h])
<1>1. /\ n \in Nat /\ Len(heads) = n /\ \A h \in 1..n : heads[h] \in HeaderLines(lines)
  BY HeadsAre
<1>2. PICK hs : hs = HeadersOf(lines)
  OBVIOUS
<1>3. hs = [h \in 1..n |-> HeaderAt(lines, heads[h])]
  BY <1>1, <1>2, Zenon DEF HeadersOf, HeaderLines
<1>4. \A h \in 1..n : hs[h] = HeaderAt(lines, heads[h])
  BY <1>3
<1>5. ASSUME NEW h \in 1..n PROVE hs[h] \in Header
  <2>1. PICK k : k = heads[h]
    OBVIOUS
  <2>2. k \in 1..Len(lines) /\ IsHeader(lines[k])
    BY <1>1, <2>1 DEF HeaderLines
  <2>3. LastOf(lines, k) \in k..Len(lines) /\ Lasts(lines, k, LastOf(lines, k))
    BY <2>2, LastExists
  <2>4. HeaderAt(lines, k) \in Header
    BY <2>2, <2>3, HeaderAtIs
  <2> QED BY <1>4, <2>1, <2>4
<1>6. hs = [h \in 1..n |-> hs[h]]
  BY <1>3, <1>4
<1>7. hs \in Seq(Header) /\ Len(hs) = n
  BY <1>1, <1>5, <1>6, SequenceIs
<1> QED BY <1>1, <1>2, <1>4, <1>7

LEMMA SameHeaders ==
    ASSUME NEW s \in Seq(Header), NEW t \in Seq(Header), Len(s) = Len(t),
           \A i \in 1..Len(s) : s[i] = t[i]
    PROVE  s = t
BY SameSequences

LEMMA HeaderIsAppended ==
    ASSUME NEW s \in Seq(Header), NEW x \in Header
    PROVE  /\ Append(s, x) \in Seq(Header) /\ Len(Append(s, x)) = Len(s) + 1 /\ Len(s) \in Nat
           /\ Append(s, x)[Len(s) + 1] = x /\ \A i \in 1..Len(s) : Append(s, x)[i] = s[i]
BY LastElement

\* A request line has no headers.
LEMMA NoHeaders ==
    ASSUME NEW lines \in Seq(Seq(Byte)), Len(lines) = 1
    PROVE  HeadersOf(lines) = <<>>
<1>1. HeaderLines(lines) = {}
  BY DEF HeaderLines
<1>2. PICK hs : hs = HeadersOf(lines)
  OBVIOUS
<1>3. Cardinality(HeaderLines(lines)) = 0
  BY <1>1, FS_EmptySet
<1>4. hs \in Seq(Header) /\ Len(hs) = 0
  BY <1>2, <1>3, HeadersAre
<1>5. hs = <<>>
  BY <1>4
<1> QED BY <1>2, <1>5

\* A line that neither begins nor continues a header.
LEMMA HeadersStayWith ==
    ASSUME NEW lines \in Seq(Seq(Byte)), lines # <<>>, NEW l \in Seq(Byte),
           ~IsHeader(l), ~IsContinuation(l)
    PROVE  HeadersOf(Append(lines, l)) = HeadersOf(lines)
<1>1. PICK more, heads, n, s, t :
         /\ more = Append(lines, l) /\ heads = Ascending(HeaderLines(lines))
         /\ n = Cardinality(HeaderLines(lines)) /\ s = HeadersOf(more) /\ t = HeadersOf(lines)
  OBVIOUS
<1>2. /\ more \in Seq(Seq(Byte)) /\ Len(lines) \in Nat /\ Len(more) = Len(lines) + 1
      /\ more[Len(lines) + 1] = l /\ \A i \in 1..Len(lines) : more[i] = lines[i]
  BY <1>1, LineIsAdded
<1>3. HeaderLines(more) = HeaderLines(lines)
  <2>1. \A k \in 2..Len(more) : k \in 2..Len(lines) \/ k = Len(lines) + 1
    BY <1>2
  <2>2. \A k \in 2..Len(lines) : k \in 2..Len(more) /\ more[k] = lines[k]
    BY <1>2
  <2> QED BY <1>2, <2>1, <2>2 DEF HeaderLines
<1>4. t \in Seq(Header) /\ Len(t) = n /\ \A h \in 1..n : t[h] = HeaderAt(lines, heads[h])
  BY <1>1, HeadersAre
<1>5. s \in Seq(Header) /\ Len(s) = n /\ \A h \in 1..n : s[h] = HeaderAt(more, heads[h])
  <2>1. more \in Seq(Seq(Byte)) /\ heads = Ascending(HeaderLines(more)) /\ n = Cardinality(HeaderLines(more))
    BY <1>1, <1>2, <1>3, Zenon
  <2>2. /\ HeadersOf(more) \in Seq(Header) /\ Len(HeadersOf(more)) = n
        /\ \A h \in 1..n : HeadersOf(more)[h] = HeaderAt(more, heads[h])
    BY ONLY <2>1, HeadersAre
  <2> QED BY <1>1, <2>2, Zenon
<1>6. ASSUME NEW h \in 1..n PROVE s[h] = t[h]
  <2>1. PICK k : k = heads[h]
    OBVIOUS
  <2>2. k \in HeaderLines(lines)
    BY <1>1, <2>1, HeadsAre
  <2>3. k \in 1..Len(lines) /\ IsHeader(lines[k])
    BY <2>2 DEF HeaderLines
  <2>4. HeaderAt(more, k) = HeaderAt(lines, k)
    BY <1>1, <2>3, HeaderStays
  <2> QED BY <1>4, <1>5, <2>1, <2>4
<1>7. s = t
  BY <1>4, <1>5, <1>6, SameHeaders
<1> QED BY <1>1, <1>7

\* A line that begins a header.
LEMMA HeaderComesLast ==
    ASSUME NEW lines \in Seq(Seq(Byte)), lines # <<>>, NEW l \in Seq(Byte), IsHeader(l)
    PROVE  /\ HeadersOf(lines) \in Seq(Header)
           /\ HeadersOf(Append(lines, l))
                = Append(HeadersOf(lines), [name |-> NameOf(l), value |-> ValueOf(l)])
<1>1. PICK more, heads, heads2, n, s, t, m, x :
         /\ more = Append(lines, l) /\ heads = Ascending(HeaderLines(lines))
         /\ n = Cardinality(HeaderLines(lines)) /\ s = HeadersOf(more) /\ t = HeadersOf(lines)
         /\ m = Len(lines) + 1 /\ x = [name |-> NameOf(l), value |-> ValueOf(l)]
         /\ heads2 = Ascending(HeaderLines(more))
  OBVIOUS
<1>2. /\ more \in Seq(Seq(Byte)) /\ Len(lines) \in Nat /\ Len(more) = m
      /\ more[m] = l /\ \A i \in 1..Len(lines) : more[i] = lines[i]
  BY <1>1, LineIsAdded
<1>3. HeaderLines(more) = HeaderLines(lines) \cup {m}
  <2>1. \A k \in 2..Len(more) : k \in 2..Len(lines) \/ k = m
    BY <1>1, <1>2
  <2>2. \A k \in 2..Len(lines) : k \in 2..Len(more) /\ more[k] = lines[k]
    BY <1>1, <1>2
  <2>3. m \in 2..Len(more)
    BY <1>1, <1>2
  <2> QED BY <1>2, <2>1, <2>2, <2>3 DEF HeaderLines
<1>4. t \in Seq(Header) /\ Len(t) = n /\ n \in Nat /\ \A h \in 1..n : t[h] = HeaderAt(lines, heads[h])
  BY <1>1, HeadersAre
<1>5. /\ HeaderLines(lines) \in SUBSET Nat /\ IsFiniteSet(HeaderLines(lines)) /\ Ranked(HeaderLines(lines))
      /\ \A h \in 1..n : heads[h] \in HeaderLines(lines)
  BY <1>1, HeadsAre
<1>6. /\ Cardinality(HeaderLines(more)) = n + 1 /\ heads2[n + 1] = m
      /\ \A h \in 1..n : heads2[h] = heads[h]
  <2>1. PICK K : K = HeaderLines(lines)
    OBVIOUS
  <2>2. \A k \in K : k < m
    BY <1>1, <1>2, <2>1 DEF HeaderLines
  <2>3. m \in Nat
    BY <1>1, <1>2
  <2>4. K \in SUBSET Nat /\ IsFiniteSet(K) /\ Ranked(K)
    BY <1>5, <2>1
  <2>5. /\ Cardinality(K \cup {m}) = Cardinality(K) + 1
        /\ \A h \in 1..Cardinality(K) : Ascending(K \cup {m})[h] = Ascending(K)[h]
        /\ Ascending(K \cup {m})[Cardinality(K) + 1] = m
    BY <2>2, <2>3, <2>4, AscendingAdd
  <2> QED BY <1>1, <1>3, <2>1, <2>5
<1>7. s \in Seq(Header) /\ Len(s) = n + 1 /\ \A h \in 1..(n + 1) : s[h] = HeaderAt(more, heads2[h])
  <2>1. PICK n2 : n2 = n + 1
    OBVIOUS
  <2>2. /\ more \in Seq(Seq(Byte))
        /\ heads2 = Ascending(HeaderLines(more)) /\ n2 = Cardinality(HeaderLines(more))
    BY <1>1, <1>2, <1>6, <2>1
  <2>3. /\ HeadersOf(more) \in Seq(Header) /\ Len(HeadersOf(more)) = n2
        /\ \A h \in 1..n2 : HeadersOf(more)[h] = HeaderAt(more, heads2[h])
    BY ONLY <2>2, HeadersAre
  <2> QED BY <1>1, <2>1, <2>3
<1>8. HeaderAt(more, m) = x /\ x \in Header
  BY <1>1, HeaderBegins
<1>9. ~IsContinuation(l)
  BY FirstByte
<1>10. PICK r : r = Append(t, x)
  OBVIOUS
<1>11. /\ r \in Seq(Header) /\ Len(r) = n + 1 /\ r[n + 1] = x
       /\ \A i \in 1..n : r[i] = t[i]
  BY <1>4, <1>8, <1>10, HeaderIsAppended
<1>12. ASSUME NEW h \in 1..(n + 1) PROVE s[h] = r[h]
  <2>1. CASE h = n + 1
    BY <1>6, <1>7, <1>8, <1>11, <2>1
  <2>2. CASE h # n + 1
    <3>0. h \in 1..n
      BY <1>4, <2>2
    <3>1. PICK k : k = heads[h]
      OBVIOUS
    <3>2. k \in HeaderLines(lines)
      BY <1>5, <3>0, <3>1
    <3>3. k \in 1..Len(lines) /\ IsHeader(lines[k])
      BY <3>2 DEF HeaderLines
    <3>4. HeaderAt(more, k) = HeaderAt(lines, k)
      BY <1>1, <1>9, <3>3, HeaderStays
    <3>5. heads2[h] = k
      BY <1>6, <3>0, <3>1
    <3> QED BY <1>4, <1>7, <1>11, <3>0, <3>1, <3>4, <3>5
  <2> QED BY <2>1, <2>2
<1>13. s = r
  BY <1>7, <1>11, <1>12, SameHeaders
<1> QED BY <1>1, <1>4, <1>10, <1>13

\* Headers with v added to the value of the last one.
LEMMA LongerIs ==
    ASSUME NEW hs \in Seq(Header), hs # <<>>, NEW v \in Seq(Byte)
    PROVE  /\ Longer(hs, v) \in Seq(Header) /\ Len(Longer(hs, v)) = Len(hs)
           /\ Len(hs) \in Nat /\ Len(hs) >= 1
           /\ Longer(hs, v)[Len(hs)] = [hs[Len(hs)] EXCEPT !.value = @ \o v]
           /\ \A i \in 1..Len(hs) : i # Len(hs) => Longer(hs, v)[i] = hs[i]
<1>1. PICK n, x, y : n = Len(hs) /\ x = hs[n] /\ y = [x EXCEPT !.value = @ \o v]
  OBVIOUS
<1>2. n \in 1..Len(hs) /\ n \in Nat /\ n >= 1 /\ x \in Header
  BY <1>1
<1>3. y \in Header
  <2>1. x.value \in Seq(Byte)
    BY <1>2 DEF Header
  <2>2. x.value \o v \in Seq(Byte)
    BY <2>1, ConcatTwice
  <2> QED BY <1>1, <1>2, <2>2 DEF Header
<1>4. Longer(hs, v) = [hs EXCEPT ![n] = y]
  BY <1>1, Zenon DEF Longer
<1>5. PICK r : r = [hs EXCEPT ![n] = y]
  OBVIOUS
<1>6. /\ r \in Seq(Header) /\ Len(r) = Len(hs) /\ r[n] = y
      /\ \A i \in 1..Len(hs) : i # n => r[i] = hs[i]
  BY <1>2, <1>3, <1>5
<1> QED BY <1>1, <1>2, <1>4, <1>5, <1>6

\* A line that goes on with the last header.
LEMMA LastHeaderGrows ==
    ASSUME NEW lines \in Seq(Seq(Byte)), GoodLines(lines), Len(lines) >= 2,
           NEW l \in Seq(Byte), IsContinuation(l)
    PROVE  /\ HeadersOf(lines) \in Seq(Header) /\ HeadersOf(lines) # <<>>
           /\ HeadersOf(Append(lines, l)) = Longer(HeadersOf(lines), Unindented(l))
<1>1. PICK more, heads, n, s, t, K, z :
         /\ more = Append(lines, l) /\ K = HeaderLines(lines) /\ heads = Ascending(K)
         /\ n = Cardinality(K) /\ s = HeadersOf(more) /\ t = HeadersOf(lines)
         /\ z = Len(lines)
  OBVIOUS
<1>2. /\ more \in Seq(Seq(Byte)) /\ z \in Nat /\ Len(more) = z + 1
      /\ more[z + 1] = l /\ \A i \in 1..z : more[i] = lines[i]
  BY <1>1, LineIsAdded
<1>3. \A k \in 1..z : lines[k] \in Seq(Byte)
  BY <1>1
<1>4. \A k \in 1..z : IsHeader(lines[k]) => ~IsContinuation(lines[k])
  <2> SUFFICES ASSUME NEW k \in 1..z, IsHeader(lines[k]) PROVE ~IsContinuation(lines[k])
    OBVIOUS
  <2>1. PICK line : line = lines[k]
    OBVIOUS
  <2>2. line \in Seq(Byte) /\ IsHeader(line)
    BY <1>3, <2>1
  <2> QED BY <2>1, <2>2, FirstByte
<1>5. ~IsHeader(l)
  BY FirstByte
<1>6. HeaderLines(more) = K
  <2>1. \A k \in 2..Len(more) : k \in 2..z \/ k = z + 1
    BY <1>2
  <2>2. \A k \in 2..z : k \in 2..Len(more) /\ more[k] = lines[k]
    BY <1>2
  <2> QED BY <1>1, <1>2, <1>5, <2>1, <2>2 DEF HeaderLines
<1>7. t \in Seq(Header) /\ Len(t) = n /\ n \in Nat /\ \A h \in 1..n : t[h] = HeaderAt(lines, heads[h])
  BY <1>1, HeadersAre
<1>8. s \in Seq(Header) /\ Len(s) = n /\ \A h \in 1..n : s[h] = HeaderAt(more, heads[h])
  <2>1. more \in Seq(Seq(Byte)) /\ heads = Ascending(HeaderLines(more)) /\ n = Cardinality(HeaderLines(more))
    BY <1>1, <1>2, <1>6, Zenon
  <2>2. /\ HeadersOf(more) \in Seq(Header) /\ Len(HeadersOf(more)) = n
        /\ \A h \in 1..n : HeadersOf(more)[h] = HeaderAt(more, heads[h])
    BY ONLY <2>1, HeadersAre
  <2> QED BY <1>1, <2>2, Zenon
<1>9. /\ K \in SUBSET Nat /\ IsFiniteSet(K)
      /\ \A h \in 1..n : heads[h] \in K /\ Rank(K, heads[h]) = h
  BY <1>1, HeadsAre
<1>10. 2 \in K
  <2>1. 2 \in 2..z /\ ~(2 > 2)
    BY <1>1, <1>2
  <2>2. IsHeader(lines[2])
    BY <1>1, <2>1 DEF GoodLines
  <2> QED BY <1>1, <2>1, <2>2 DEF HeaderLines
<1>11. n >= 1
  <2>1. n # 0
    BY <1>1, <1>9, <1>10, FS_EmptySet
  <2> QED BY <1>7, <2>1
<1>12. PICK last : last = heads[n]
  OBVIOUS
<1>13. last \in K /\ \A k \in K : k <= last
  <2>1. n \in 1..n
    BY <1>7, <1>11
  <2>2. last \in K /\ Rank(K, last) = Cardinality(K)
    BY <1>1, <1>9, <1>12, <2>1
  <2> QED BY <1>9, <2>2, RankIsUnique
<1>14. last \in 2..z /\ IsHeader(lines[last]) /\ last \in 1..z
  BY <1>1, <1>2, <1>13 DEF HeaderLines
<1>15. LastOf(lines, last) = z
  <2>1. ASSUME NEW j \in last + 1..z PROVE IsContinuation(lines[j])
    <3>1. j \in 2..z /\ ~(j <= last)
      BY <1>2, <1>14
    <3>2. j \notin K
      BY <1>13, <3>1
    <3>3. ~IsHeader(lines[j])
      BY <1>1, <3>1, <3>2 DEF HeaderLines
    <3> QED BY <1>1, <3>1, <3>3 DEF GoodLines
  <2>2. Lasts(lines, last, z)
    BY <1>1, <2>1 DEF Lasts
  <2>3. last \in 1..Len(lines) /\ z \in last..Len(lines)
    BY <1>1, <1>2, <1>14
  <2> QED BY <2>2, <2>3, LastIs
<1>16. s[n] = [t[n] EXCEPT !.value = @ \o Unindented(l)]
  <2>1. n \in 1..n
    BY <1>7, <1>11
  <2>2. HeaderAt(more, last) = [HeaderAt(lines, last) EXCEPT !.value = @ \o Unindented(l)]
    <3>1. last \in 1..Len(lines) /\ IsHeader(lines[last]) /\ LastOf(lines, last) = Len(lines)
      BY <1>1, <1>14, <1>15
    <3>2. HeaderAt(Append(lines, l), last) = [HeaderAt(lines, last) EXCEPT !.value = @ \o Unindented(l)]
      BY <3>1, HeaderGoesOn, Zenon
    <3> QED BY <1>1, <3>2
  <2> QED BY <1>7, <1>8, <1>12, <2>1, <2>2
<1>17. ASSUME NEW h \in 1..n, h # n PROVE s[h] = t[h]
  <2>1. PICK k : k = heads[h]
    OBVIOUS
  <2>2. k \in K /\ k <= last /\ k # last
    <3>1. n \in 1..n
      BY <1>7, <1>11
    <3> QED BY <1>9, <1>12, <1>13, <1>17, <2>1, <3>1
  <2>3. k \in 1..z /\ IsHeader(lines[k]) /\ last \in k + 1..z
    BY <1>1, <1>2, <1>14, <2>2 DEF HeaderLines
  <2>4. LastOf(lines, k) < z
    <3>1. PICK m : m = LastOf(lines, k)
      OBVIOUS
    <3>2. m \in k..z /\ \A j \in k + 1..m : IsContinuation(lines[j])
      BY <1>1, <2>3, <3>1, LastExists DEF Lasts
    <3>3. last \notin k + 1..m
      BY <1>4, <1>14, <3>2
    <3> QED BY <1>2, <2>3, <3>1, <3>2, <3>3
  <2>5. HeaderAt(more, k) = HeaderAt(lines, k)
    BY <1>1, <2>3, <2>4, HeaderStays
  <2> QED BY <1>7, <1>8, <2>1, <2>5
<1>18. Unindented(l) \in Seq(Byte)
  BY IndentExists
<1>19. t # <<>>
  BY <1>7, <1>11
<1>20. PICK r : r = Longer(t, Unindented(l))
  OBVIOUS
<1>21. /\ r \in Seq(Header) /\ Len(r) = n
       /\ r[n] = [t[n] EXCEPT !.value = @ \o Unindented(l)]
       /\ \A i \in 1..n : i # n => r[i] = t[i]
  BY <1>7, <1>18, <1>19, <1>20, LongerIs
<1>22. \A i \in 1..n : s[i] = r[i]
  BY <1>16, <1>17, <1>21
<1>23. s = r
  BY <1>8, <1>21, <1>22, SameHeaders
<1> QED BY <1>1, <1>7, <1>19, <1>20, <1>23

-----------------------------------------------------------------------------
(* What consume does to the request, state by state.                       *)

\* States that leave the request alone.
LEMMA BuildsNothing ==
    ASSUME NEW req, NEW st, NEW b, NEW st2,
           st2 \notin {"method", "http_version_major", "http_version_minor", "header_name"},
           st # "http_version_slash", ~(st = "uri" /\ st2 = "uri"),
           st2 = "header_value" => st = "space_before_header_value"
    PROVE  Builds(st, b, st2, req, req)
BY DEF Builds

LEMMA BuildsLine ==
    ASSUME NEW req \in Request, NEW b \in Byte
    PROVE  /\ \A st : st \in {"method_start", "method"}
                 => Builds(st, b, "method", req, [req EXCEPT !.method = Append(@, b)])
           /\ Builds("uri", b, "uri", req, [req EXCEPT !.uri = Append(@, b)])
           /\ Builds("http_version_slash", b, "http_version_major_start", req,
                     [req EXCEPT !.major = 0, !.minor = 0])
           /\ \A st : IsDigit(b) /\ st \in {"http_version_major_start", "http_version_major"}
                 => Builds(st, b, "http_version_major", req,
                           [req EXCEPT !.major = @ * 10 + Digit(b)])
           /\ \A st : IsDigit(b) /\ st \in {"http_version_minor_start", "http_version_minor"}
                 => Builds(st, b, "http_version_minor", req,
                           [req EXCEPT !.minor = @ * 10 + Digit(b)])
<1>1. ASSUME NEW v
      PROVE  /\ [req EXCEPT !.method = v].method = v
             /\ [req EXCEPT !.method = v].uri = req.uri
             /\ [req EXCEPT !.method = v].major = req.major
             /\ [req EXCEPT !.method = v].minor = req.minor
             /\ [req EXCEPT !.method = v].headers = req.headers
             /\ [req EXCEPT !.uri = v].method = req.method
             /\ [req EXCEPT !.uri = v].uri = v
             /\ [req EXCEPT !.uri = v].major = req.major
             /\ [req EXCEPT !.uri = v].minor = req.minor
             /\ [req EXCEPT !.uri = v].headers = req.headers
  BY DEF Request
<1>2. ASSUME NEW v
      PROVE  /\ [req EXCEPT !.major = v].method = req.method
             /\ [req EXCEPT !.major = v].uri = req.uri
             /\ [req EXCEPT !.major = v].major = v
             /\ [req EXCEPT !.major = v].minor = req.minor
             /\ [req EXCEPT !.major = v].headers = req.headers
             /\ [req EXCEPT !.minor = v].method = req.method
             /\ [req EXCEPT !.minor = v].uri = req.uri
             /\ [req EXCEPT !.minor = v].major = req.major
             /\ [req EXCEPT !.minor = v].minor = v
             /\ [req EXCEPT !.minor = v].headers = req.headers
  BY DEF Request
<1>3. /\ [req EXCEPT !.major = 0, !.minor = 0].method = req.method
      /\ [req EXCEPT !.major = 0, !.minor = 0].uri = req.uri
      /\ [req EXCEPT !.major = 0, !.minor = 0].major = 0
      /\ [req EXCEPT !.major = 0, !.minor = 0].minor = 0
      /\ [req EXCEPT !.major = 0, !.minor = 0].headers = req.headers
  BY DEF Request
<1>4. IsDigit(b) => /\ req.major * 10 + Digit(b) = 10 * req.major + 1
                    /\ req.minor * 10 + Digit(b) = 10 * req.minor + 1
  BY DEF Request, IsDigit, Digit
<1>5. PICK m, u, z, j, n :
          /\ m = [req EXCEPT !.method = Append(@, b)] /\ u = [req EXCEPT !.uri = Append(@, b)]
          /\ z = [req EXCEPT !.major = 0, !.minor = 0]
          /\ j = [req EXCEPT !.major = @ * 10 + Digit(b)]
          /\ n = [req EXCEPT !.minor = @ * 10 + Digit(b)]
  OBVIOUS
<1>6. /\ m.method = Append(req.method, b) /\ m.uri = req.uri /\ m.major = req.major
      /\ m.minor = req.minor /\ m.headers = req.headers
  BY <1>1, <1>5, Zenon
<1>7. /\ u.method = req.method /\ u.uri = Append(req.uri, b) /\ u.major = req.major
      /\ u.minor = req.minor /\ u.headers = req.headers
  BY <1>1, <1>5, Zenon
<1>8. /\ z.method = req.method /\ z.uri = req.uri /\ z.major = 0
      /\ z.minor = 0 /\ z.headers = req.headers
  BY <1>3, <1>5, Zenon
<1>9. /\ j.method = req.method /\ j.uri = req.uri /\ j.major = req.major * 10 + Digit(b)
      /\ j.minor = req.minor /\ j.headers = req.headers
  BY <1>2, <1>5, Zenon
<1>10. /\ n.method = req.method /\ n.uri = req.uri /\ n.major = req.major
       /\ n.minor = req.minor * 10 + Digit(b) /\ n.headers = req.headers
  BY <1>2, <1>5, Zenon
<1>11. \A st : st \in {"method_start", "method"} => Builds(st, b, "method", req, m)
  BY <1>6 DEF Builds
<1>12. Builds("uri", b, "uri", req, u)
  BY <1>7 DEF Builds
<1>13. Builds("http_version_slash", b, "http_version_major_start", req, z)
  BY <1>8 DEF Builds
<1>14. \A st : IsDigit(b) /\ st \in {"http_version_major_start", "http_version_major"}
            => Builds(st, b, "http_version_major", req, j)
  BY <1>4, <1>9 DEF Builds
<1>15. \A st : IsDigit(b) /\ st \in {"http_version_minor_start", "http_version_minor"}
            => Builds(st, b, "http_version_minor", req, n)
  BY <1>4, <1>10 DEF Builds
<1> QED BY <1>5, <1>11, <1>12, <1>13, <1>14, <1>15, Zenon

LEMMA BuildsHeaders ==
    ASSUME NEW req \in Request, NEW b \in Byte, NEW st
    PROVE  /\ st = "header_line_start" => Builds(st, b, "header_name", req, NewHeader(req, b))
           /\ st = "header_name" => Builds(st, b, "header_name", req, AddName(req, b))
           /\ st \in {"header_lws", "header_value"}
                => Builds(st, b, "header_value", req, AddValue(req, b))
<1>1. ASSUME NEW v
      PROVE  /\ [req EXCEPT !.headers = v].method = req.method
             /\ [req EXCEPT !.headers = v].uri = req.uri
             /\ [req EXCEPT !.headers = v].major = req.major
             /\ [req EXCEPT !.headers = v].minor = req.minor
             /\ [req EXCEPT !.headers = v].headers = v
  BY DEF Request
<1>2. PICK x, y, z : x = NewHeader(req, b) /\ y = AddName(req, b) /\ z = AddValue(req, b)
  OBVIOUS
<1>3. /\ x.method = req.method /\ x.uri = req.uri /\ x.major = req.major /\ x.minor = req.minor
      /\ x.headers = Append(req.headers, [name |-> <<b>>, value |-> <<>>])
  BY <1>1, <1>2, Zenon DEF NewHeader
<1>4. /\ y.method = req.method /\ y.uri = req.uri /\ y.major = req.major /\ y.minor = req.minor
  BY <1>1, <1>2, Zenon DEF AddName
<1>5. /\ z.method = req.method /\ z.uri = req.uri /\ z.major = req.major /\ z.minor = req.minor
  BY <1>1, <1>2, Zenon DEF AddValue
<1> QED BY <1>2, <1>3, <1>4, <1>5 DEF Builds

LEMMA ConsumeBuilds ==
    ASSUME NEW st, NEW req, NEW b \in Byte, Fits(st, req), NEW a, a = Consume(st, req, b)
    PROVE  /\ a.result = "indeterminate" => Builds(st, b, a.state, req, a.request)
           /\ a.result = "good" => a.request = req
<1> DEFINE V(c) == /\ c.result = "indeterminate" => Builds(st, b, c.state, req, c.request)
                   /\ c.result = "good" => c.request = req
<1> SUFFICES V(Consume(st, req, b))
  OBVIOUS
<1>1. req \in Request /\ st \in States
  BY DEF Fits
<1>2. V(Bad(st, req)) /\ V(Good(st, req))
  BY DEF Bad, Good
<1>3. ASSUME NEW st2, NEW r, Builds(st, b, st2, req, r) PROVE V(To(st2, r))
  BY <1>3 DEF To
<1> HIDE DEF V
<1>4. ASSUME NEW st2,
             st2 \notin {"method", "http_version_major", "http_version_minor", "header_name"},
             st # "http_version_slash", ~(st = "uri" /\ st2 = "uri"),
             st2 = "header_value" => st = "space_before_header_value"
      PROVE  V(To(st2, req))
  BY <1>3, <1>4, BuildsNothing
<1>5. CASE st \in LiteralStates
  <2>1. Consume(st, req, b) = IF b = Literal[st][1] THEN To(Literal[st][2], req)
                              ELSE Bad(st, req)
    BY <1>5, LiteralDomain DEF Consume, LiteralStates
  <2>2. PICK st2 : st2 = Literal[st][2]
    OBVIOUS
  <2>3. /\ st2 \notin {"method", "http_version_major", "http_version_minor", "header_name"}
        /\ st # "http_version_slash" /\ st # "uri"
        /\ st2 = "header_value" => st = "space_before_header_value"
    BY <1>5, <2>2, LiteralIs DEF LiteralStates
  <2> QED BY <1>2, <1>4, <2>1, <2>2, <2>3
<1>6. CASE st \in {"method_start", "method"}
  <2>1. \/ Consume(st, req, b) = To("uri", req)
        \/ Consume(st, req, b) = To("method", [req EXCEPT !.method = Append(@, b)])
        \/ Consume(st, req, b) = Bad(st, req)
    <3>1. PICK m : m = [req EXCEPT !.method = Append(@, b)]
      OBVIOUS
    <3>2. CASE st = "method_start"
      <4>1. Consume(st, req, b) = IF IsToken(b) THEN To("method", m) ELSE Bad(st, req)
        BY <3>1, <3>2, LiteralDomain DEF Consume, LiteralStates
      <4> QED BY <3>1, <4>1, Zenon
    <3>3. CASE st = "method"
      <4>1. \/ Consume(st, req, b) = To("uri", req)
            \/ Consume(st, req, b) = To("method", m)
            \/ Consume(st, req, b) = Bad(st, req)
        BY <3>1, <3>3, LiteralDomain DEF Consume, LiteralStates
      <4> QED BY <3>1, <4>1, Zenon
    <3> QED BY <1>6, <3>2, <3>3
  <2>2. Builds(st, b, "method", req, [req EXCEPT !.method = Append(@, b)])
    BY <1>1, <1>6, BuildsLine
  <2>3. V(To("method", [req EXCEPT !.method = Append(@, b)]))
    BY <1>3, <2>2
  <2>4. V(To("uri", req))
    BY <1>4, <1>6
  <2> QED BY <1>2, <2>1, <2>3, <2>4
<1>7. CASE st = "uri"
  <2>1. \/ Consume(st, req, b) = To("http_version_h", req)
        \/ Consume(st, req, b) = To("uri", [req EXCEPT !.uri = Append(@, b)])
        \/ Consume(st, req, b) = Bad(st, req)
    BY <1>7, LiteralDomain DEF Consume, LiteralStates
  <2>2. Builds("uri", b, "uri", req, [req EXCEPT !.uri = Append(@, b)])
    BY <1>1, BuildsLine
  <2>3. V(To("uri", [req EXCEPT !.uri = Append(@, b)]))
    BY <1>3, <1>7, <2>2
  <2>4. V(To("http_version_h", req))
    BY <1>4, <1>7
  <2> QED BY <1>2, <2>1, <2>3, <2>4
<1>8. CASE st = "http_version_slash"
  <2>1. \/ Consume(st, req, b) = To("http_version_major_start", [req EXCEPT !.major = 0, !.minor = 0])
        \/ Consume(st, req, b) = Bad(st, req)
    BY <1>8, LiteralDomain DEF Consume, LiteralStates
  <2>2. Builds("http_version_slash", b, "http_version_major_start", req,
               [req EXCEPT !.major = 0, !.minor = 0])
    BY <1>1, BuildsLine
  <2>3. V(To("http_version_major_start", [req EXCEPT !.major = 0, !.minor = 0]))
    BY <1>3, <1>8, <2>2
  <2> QED BY <1>2, <2>1, <2>3
<1>9. CASE st \in {"http_version_major_start", "http_version_major"}
  <2>1. \/ Consume(st, req, b) = To("http_version_minor_start", req)
        \/ /\ Consume(st, req, b) = To("http_version_major", [req EXCEPT !.major = @ * 10 + Digit(b)])
           /\ IsDigit(b)
        \/ Consume(st, req, b) = Bad(st, req)
    BY <1>9, LiteralDomain DEF Consume, LiteralStates
  <2>2. IsDigit(b) => Builds(st, b, "http_version_major", req,
                             [req EXCEPT !.major = @ * 10 + Digit(b)])
    BY <1>1, <1>9, BuildsLine
  <2>3. IsDigit(b) => V(To("http_version_major", [req EXCEPT !.major = @ * 10 + Digit(b)]))
    BY <1>3, <2>2
  <2>4. V(To("http_version_minor_start", req))
    BY <1>4, <1>9
  <2> QED BY <1>2, <2>1, <2>3, <2>4
<1>10. CASE st \in {"http_version_minor_start", "http_version_minor"}
  <2>1. \/ Consume(st, req, b) = To("expecting_newline_1", req)
        \/ /\ Consume(st, req, b) = To("http_version_minor", [req EXCEPT !.minor = @ * 10 + Digit(b)])
           /\ IsDigit(b)
        \/ Consume(st, req, b) = Bad(st, req)
    BY <1>10, LiteralDomain DEF Consume, LiteralStates
  <2>2. IsDigit(b) => Builds(st, b, "http_version_minor", req,
                             [req EXCEPT !.minor = @ * 10 + Digit(b)])
    BY <1>1, <1>10, BuildsLine
  <2>3. IsDigit(b) => V(To("http_version_minor", [req EXCEPT !.minor = @ * 10 + Digit(b)]))
    BY <1>3, <2>2
  <2>4. V(To("expecting_newline_1", req))
    BY <1>4, <1>10
  <2> QED BY <1>2, <2>1, <2>3, <2>4
<1>11. CASE st = "header_line_start"
  <2>1. Consume(st, req, b) = HeaderLineStart(req, b)
    BY <1>11, LiteralDomain DEF Consume, LiteralStates
  <2>2. HeaderLineStart(req, b) \in
            { Bad(st, req), To("expecting_newline_3", req), To("header_lws", req),
              To("header_name", NewHeader(req, b)) }
    BY <1>11 DEF HeaderLineStart
  <2>3. V(To("expecting_newline_3", req)) /\ V(To("header_lws", req))
    BY <1>4, <1>11
  <2>4. V(To("header_name", NewHeader(req, b)))
    BY <1>1, <1>3, <1>11, BuildsHeaders
  <2> QED BY <1>2, <2>1, <2>2, <2>3, <2>4
<1>12. CASE st \in {"header_lws", "header_name", "header_value"}
  <2>1. \/ Consume(st, req, b) \in { Bad(st, req), To("expecting_newline_2", req),
                                     To("header_lws", req), To("space_before_header_value", req) }
        \/ st = "header_name" /\ Consume(st, req, b) = To("header_name", AddName(req, b))
        \/ /\ st \in {"header_lws", "header_value"}
           /\ Consume(st, req, b) = To("header_value", AddValue(req, b))
    BY <1>12, LiteralDomain DEF Consume, HeaderLws, LiteralStates
  <2>2. /\ V(To("expecting_newline_2", req)) /\ V(To("header_lws", req))
        /\ V(To("space_before_header_value", req))
    BY <1>4, <1>12
  <2>3. /\ st = "header_name" => V(To("header_name", AddName(req, b)))
        /\ st \in {"header_lws", "header_value"} => V(To("header_value", AddValue(req, b)))
    BY <1>1, <1>3, BuildsHeaders
  <2> QED BY <1>2, <2>1, <2>2, <2>3
<1>13. CASE st = "expecting_newline_3"
  <2>1. Consume(st, req, b) \in {Good(st, req), Bad(st, req)}
    BY <1>13, LiteralDomain DEF Consume, LiteralStates
  <2> QED BY <1>2, <2>1
<1> QED
  BY <1>1, <1>5, <1>6, <1>7, <1>8, <1>9, <1>10, <1>11, <1>12, <1>13 DEF States

-----------------------------------------------------------------------------
(* The request line.                                                       *)

\* The part of a text behind position from goes on with it; one inside stays.
LEMMA PartGrows ==
    ASSUME NEW l \in Seq(Byte), NEW b \in Byte, NEW from \in Nat, from >= 1,
           from <= Len(l) + 1, NEW t, t = Append(l, b)
    PROVE  /\ SubSeq(t, from, Len(t)) = Append(SubSeq(l, from, Len(l)), b)
           /\ \A to \in Int : to <= Len(l) => SubSeq(t, from, to) = SubSeq(l, from, to)
<1>1. /\ t \in Seq(Byte) /\ Len(t) = Len(l) + 1 /\ Len(l) \in Nat
      /\ t[Len(l) + 1] = b /\ \A i \in 1..Len(l) : t[i] = l[i]
  BY LastElement
<1>2. ASSUME NEW to \in Int, to <= Len(l)
      PROVE  SubSeq(t, from, to) = SubSeq(l, from, to)
  <2>1. \A i \in from..to : t[i] = l[i]
    BY <1>1, <1>2
  <2>2. to <= Len(t)
    BY <1>1, <1>2
  <2> QED BY <1>1, <1>2, <2>1, <2>2, SubSeqIsSame
<1>3. PICK u, v, w, d : /\ u = SubSeq(l, from, Len(l)) /\ v = SubSeq(t, from, Len(t))
                        /\ w = Append(u, b) /\ d = Len(l) - from + 1
  OBVIOUS
<1>4. d \in Nat /\ Len(t) - from + 1 = d + 1
  BY <1>1, <1>3
<1>5. u \in Seq(Byte) /\ Len(u) = d /\ \A k \in 1..d : u[k] = l[from + k - 1]
  <2>1. Len(l) \in Nat /\ Len(l) <= Len(l)
    BY <1>1
  <2> QED BY <1>3, <2>1, SubSeqIs
<1>6. v \in Seq(Byte) /\ Len(v) = d + 1 /\ \A k \in 1..(d + 1) : v[k] = t[from + k - 1]
  <2>1. PICK to : to = Len(t)
    OBVIOUS
  <2>2. to \in Nat /\ to <= Len(t) /\ from <= to + 1 /\ t \in Seq(Byte) /\ v = SubSeq(t, from, to)
    BY <1>1, <1>3, <2>1
  <2>3. from \in Nat /\ from >= 1
    OBVIOUS
  <2>4. /\ v \in Seq(Byte) /\ Len(v) = to - from + 1
        /\ \A k \in 1..Len(v) : v[k] = t[from + k - 1]
    BY ONLY <2>2, <2>3, SubSeqIs
  <2> QED BY <1>4, <2>1, <2>4
<1>7. w \in Seq(Byte) /\ Len(w) = d + 1 /\ w[d + 1] = b /\ \A k \in 1..d : w[k] = u[k]
  BY <1>3, <1>5, LastElement
<1>8. ASSUME NEW k \in 1..(d + 1) PROVE v[k] = w[k]
  <2>1. CASE k = d + 1
    <3>1. from + k - 1 = Len(l) + 1
      BY <1>1, <1>3, <2>1
    <3> QED BY <1>1, <1>6, <1>7, <2>1, <3>1
  <2>2. CASE k # d + 1
    <3>1. k \in 1..d /\ from + k - 1 \in 1..Len(l)
      <4>1. /\ Len(l) \in Nat /\ d = Len(l) - from + 1 /\ from \in Nat /\ from >= 1
            /\ k \in 1..(d + 1) /\ k # d + 1
        BY <1>1, <1>3, <2>2
      <4> QED BY ONLY <4>1
    <3> QED BY <1>1, <1>5, <1>6, <1>7, <3>1
  <2> QED BY <2>1, <2>2
<1>9. v = w
  BY <1>6, <1>7, <1>8, SameSequences
<1> QED BY <1>2, <1>3, <1>9

LEMMA WholePart ==
    ASSUME NEW l \in Seq(Byte)
    PROVE  SubSeq(l, 1, Len(l)) = l
OBVIOUS

LEMMA NoPart ==
    ASSUME NEW l \in Seq(Byte), NEW from \in Nat, NEW to \in Int, to < from
    PROVE  SubSeq(l, from, to) = <<>>
OBVIOUS

\* The version's numbers, with a byte more.
LEMMA NumbersGrow ==
    ASSUME NEW l \in Seq(Byte), NEW b \in Byte, b # "CR", NEW j \in 1..Len(l),
           NEW st, NEW st2, NEW req, NEW req2, VersionShape(st, l, j), Early(st, b, st2),
           NumbersMean(st, req, l, j), Builds(st, b, st2, req, req2)
    PROVE  NumbersMean(st2, req2, Append(l, b), j)
<1>1. PICK t : t = Append(l, b)
  OBVIOUS
<1>2. /\ Len(t) = Len(l) + 1 /\ Len(l) \in Nat
      /\ t[Len(l) + 1] = b /\ \A i \in 1..Len(l) : t[i] = l[i]
  BY <1>1, LastElement
<1>3. \A n \in 0..5 : Prefix(l, j, n) => Prefix(t, j, n)
  BY <1>2 DEF Prefix
<1>4. \A n \in Int : n <= Len(l) /\ Major(l, j, n) => Major(t, j, n)
  <2> SUFFICES ASSUME NEW n \in Int, n <= Len(l), Major(l, j, n) PROVE Major(t, j, n)
    OBVIOUS
  <2>1. AllIn(t, j + 6, n, {"1"})
    BY <1>2 DEF Major, AllIn
  <2> QED BY <1>3, <2>1 DEF Major
<1>5. Ones(1) = 1
  <2>1. 0 \in Nat /\ 0 + 1 = 1
    OBVIOUS
  <2>2. Ones(0 + 1) = 10 * Ones(0) + 1 /\ Ones(0) = 0
    BY OnesGrow
  <2> QED BY <2>1, <2>2
<1>6. CASE st = "http_version_slash"
  BY <1>6 DEF Early, Builds, NumbersMean
<1>7. CASE st = "http_version_major_start"
  <2>1. /\ st2 = "http_version_major" /\ Len(l) = j + 5
        /\ req.major = 0 /\ req.minor = 0
    BY <1>7 DEF Early, VersionShape, NumbersMean
  <2>2. req2.major = 1 /\ req2.minor = 0
    BY <1>7, <2>1 DEF Builds
  <2>3. Len(t) - (j + 5) = 1
    BY <1>2, <2>1
  <2> QED BY <1>1, <1>5, <2>1, <2>2, <2>3 DEF NumbersMean
<1>8. CASE st = "http_version_major"
  <2>1. PICK n : n = Len(l) - (j + 5)
    OBVIOUS
  <2>2. n \in Nat /\ req.major = Ones(n) /\ req.minor = 0
    BY <1>2, <1>8, <2>1 DEF VersionShape, Major, NumbersMean
  <2>3. Len(t) - (j + 5) = n + 1 /\ Len(t) - (j + 6) = n
    BY <1>2, <2>1
  <2>4. CASE st2 = "http_version_major"
    <3>1. req2.major = 10 * Ones(n) + 1 /\ req2.minor = 0
      BY <1>8, <2>2, <2>4 DEF Builds
    <3>2. req2.major = Ones(n + 1)
      BY <2>2, <3>1, OnesGrow
    <3> QED BY <1>1, <2>3, <2>4, <3>1, <3>2 DEF NumbersMean
  <2>5. CASE st2 = "http_version_minor_start"
    <3>1. req2.major = Ones(n) /\ req2.minor = 0
      BY <1>8, <2>2, <2>5 DEF Builds
    <3> QED BY <1>1, <2>3, <2>5, <3>1 DEF NumbersMean
  <2> QED BY <1>8, <2>4, <2>5 DEF Early
<1>9. CASE st = "http_version_minor_start"
  <2>1. /\ st2 = "http_version_minor" /\ l[Len(l)] = "." /\ Major(l, j, Len(l) - 1)
        /\ req.major = Ones(Len(l) - (j + 6)) /\ req.minor = 0
    BY <1>9 DEF Early, VersionShape, NumbersMean
  <2>2. req2.major = Ones(Len(l) - (j + 6)) /\ req2.minor = 1
    BY <1>9, <2>1 DEF Builds
  <2>3. PICK dot : dot = Len(l)
    OBVIOUS
  <2>4. dot \in 1..Len(t) - 1 /\ t[dot] = "." /\ Len(t) - dot = 1 /\ dot - 1 \in Int /\ dot - 1 <= Len(l)
    BY <1>2, <2>1, <2>3
  <2>5. Major(t, j, dot - 1)
    BY <1>4, <2>1, <2>3, <2>4
  <2> QED BY <1>1, <1>5, <2>1, <2>2, <2>3, <2>4, <2>5 DEF NumbersMean
<1>10. CASE st = "http_version_minor"
  <2>1. PICK dot \in 1..Len(l) - 1 :
           /\ l[dot] = "." /\ Major(l, j, dot - 1)
           /\ req.major = Ones(dot - (j + 6)) /\ req.minor = Ones(Len(l) - dot)
    BY <1>10 DEF NumbersMean
  <2>2. st2 = "http_version_minor"
    BY <1>10 DEF Early
  <2>3. PICK n : n = Len(l) - dot
    OBVIOUS
  <2>4. /\ n \in Nat /\ Len(t) - dot = n + 1 /\ dot \in 1..Len(t) - 1 /\ t[dot] = "."
        /\ dot - 1 \in Int /\ dot - 1 <= Len(l)
    <3>1. PICK k, m : k = Len(l) /\ m = Len(t)
      OBVIOUS
    <3>2. k \in Nat /\ m = k + 1 /\ dot \in 1..k - 1 /\ n = k - dot
      BY <1>2, <2>1, <2>3, <3>1
    <3>3. n \in Nat /\ m - dot = n + 1 /\ dot \in 1..m - 1 /\ dot - 1 \in Int /\ dot - 1 <= k /\ dot \in 1..k
      BY ONLY <3>2
    <3>4. t[dot] = "."
      BY <1>2, <2>1, <3>1, <3>3
    <3> QED BY <3>1, <3>3, <3>4
  <2>5. req2.major = Ones(dot - (j + 6)) /\ req2.minor = 10 * Ones(n) + 1
    BY <1>10, <2>1, <2>2, <2>3 DEF Builds
  <2>6. req2.minor = Ones(n + 1)
    BY <2>4, <2>5, OnesGrow
  <2>7. Major(t, j, dot - 1)
    BY <1>4, <2>1, <2>4
  <2> QED BY <1>1, <2>2, <2>4, <2>5, <2>6, <2>7 DEF NumbersMean
<1>11. CASE st \notin {"http_version_slash", "http_version_major_start", "http_version_major",
                       "http_version_minor_start", "http_version_minor"}
  <2>1. st2 \notin {"http_version_major_start", "http_version_major",
                    "http_version_minor_start", "http_version_minor"}
    BY <1>11 DEF Early
  <2> QED BY <2>1 DEF NumbersMean
<1> QED BY <1>6, <1>7, <1>8, <1>9, <1>10, <1>11

\* The request line, as long as it has not ended.
LEMMA EarlyBuilds ==
    ASSUME NEW l \in Seq(Byte), NEW b \in Byte, b # "CR",
           NEW st, NEW st2, NEW req, NEW req2,
           EarlyMeans(st, req, l), Early(st, b, st2), Builds(st, b, st2, req, req2)
    PROVE  EarlyMeans(st2, req2, Append(l, b))
<1>1. PICK t, n : t = Append(l, b) /\ n = Len(t)
  OBVIOUS
<1>2. /\ Len(t) = Len(l) + 1 /\ Len(l) \in Nat /\ t \in Seq(Byte)
      /\ t[Len(l) + 1] = b /\ \A i \in 1..Len(l) : t[i] = l[i]
  BY <1>1, LastElement
<1>3. ASSUME NEW i \in 1..Len(l)
      PROVE  /\ SubSeq(t, 1, i - 1) = SubSeq(l, 1, i - 1)
             /\ SubSeq(t, i + 1, Len(t)) = Append(SubSeq(l, i + 1, Len(l)), b)
             /\ \A j \in 1..Len(t) : SubSeq(t, i + 1, j - 1) = SubSeq(l, i + 1, j - 1)
  <2>1. i - 1 \in Int /\ i - 1 <= Len(l) /\ 1 \in Nat /\ 1 <= Len(l) + 1
    BY <1>2
  <2>2. i + 1 \in Nat /\ i + 1 >= 1 /\ i + 1 <= Len(l) + 1
    BY <1>2
  <2>3. SubSeq(t, 1, i - 1) = SubSeq(l, 1, i - 1)
    BY <1>1, <2>1, PartGrows
  <2>4. SubSeq(t, i + 1, Len(t)) = Append(SubSeq(l, i + 1, Len(l)), b)
    BY <1>1, <2>2, PartGrows
  <2>5. ASSUME NEW j \in 1..Len(t) PROVE SubSeq(t, i + 1, j - 1) = SubSeq(l, i + 1, j - 1)
    <3>1. j - 1 \in Int /\ j - 1 <= Len(l)
      BY <1>2
    <3> QED BY <1>1, <2>2, <3>1, PartGrows
  <2> QED BY <2>3, <2>4, <2>5
<1>4. CASE st = "method_start"
  <2>1. l = <<>> /\ req.method = <<>> /\ req.uri = <<>>
    BY <1>4 DEF EarlyMeans, LineMeans, VersionShape
  <2>2. st2 = "method" /\ b \in Token
    BY <1>4 DEF Early
  <2>3. req2.method = t /\ req2.uri = <<>>
    BY <1>1, <1>4, <2>1, <2>2 DEF Builds
  <2>4. t # <<>> /\ AllIn(t, 1, Len(t), Token)
    BY <1>1, <2>1, <2>2 DEF AllIn
  <2> QED BY <1>1, <2>2, <2>3, <2>4 DEF EarlyMeans
<1>5. CASE st = "method"
  <2>1. l # <<>> /\ AllIn(l, 1, Len(l), Token) /\ req.method = l /\ req.uri = <<>>
    BY <1>5 DEF EarlyMeans, LineMeans, VersionShape
  <2>2. CASE st2 = "method"
    <3>1. b \in Token
      BY <1>5, <2>2 DEF Early
    <3>2. AllIn(t, 1, Len(t), Token) /\ t # <<>>
      BY <1>1, <1>2, <2>1, <3>1, AllInGrows
    <3>3. req2.method = t /\ req2.uri = <<>>
      BY <1>1, <1>5, <2>1, <2>2 DEF Builds
    <3> QED BY <1>1, <2>2, <3>2, <3>3 DEF EarlyMeans
  <2>3. CASE st2 = "uri"
    <3>1. b = "SP"
      BY <1>5, <2>3 DEF Early, Token
    <3>2. req2.method = l /\ req2.uri = <<>>
      BY <1>5, <2>1, <2>3 DEF Builds
    <3>3. n \in 1..Len(t) /\ 1 < n /\ t[n] = "SP" /\ n - 1 = Len(l) /\ n \in Nat
      BY <1>1, <1>2, <2>1, <3>1
    <3>4. AllIn(t, 1, n - 1, Token) /\ AllIn(t, n + 1, Len(t), Visible)
      BY <1>1, <1>2, <2>1, <3>3 DEF AllIn
    <3>5. SubSeq(t, 1, n - 1) = l
      <4>1. SubSeq(t, 1, Len(l)) = SubSeq(l, 1, Len(l))
        BY <1>1, <1>2, PartGrows
      <4> QED BY <3>3, <4>1, WholePart
    <3>6. SubSeq(t, n + 1, Len(t)) = <<>>
      BY <1>1, <1>2, <3>3, NoPart
    <3> QED BY <1>1, <2>3, <3>2, <3>3, <3>4, <3>5, <3>6 DEF EarlyMeans
  <2> QED BY <1>5, <2>2, <2>3 DEF Early
<1>6. CASE st = "uri"
  <2>1. PICK i \in 1..Len(l) : /\ 1 < i /\ l[i] = "SP" /\ AllIn(l, 1, i - 1, Token)
                               /\ AllIn(l, i + 1, Len(l), Visible)
                               /\ req.method = SubSeq(l, 1, i - 1)
                               /\ req.uri = SubSeq(l, i + 1, Len(l))
    BY <1>6 DEF EarlyMeans, LineMeans, VersionShape
  <2>2. /\ i \in 1..Len(t) /\ t[i] = "SP" /\ AllIn(t, 1, i - 1, Token) /\ i \in Nat
        /\ AllIn(t, i + 1, Len(l), Visible)
    <3>1. i \in 1..Len(t) /\ t[i] = "SP" /\ i \in Nat
      BY <1>2, <2>1
    <3>2. /\ \A k \in 1..(i - 1) : k \in 1..Len(l)
          /\ \A k \in i + 1..Len(l) : k \in 1..Len(l)
      BY <1>2
    <3> QED BY <1>2, <2>1, <3>1, <3>2 DEF AllIn
  <2>3. CASE st2 = "uri"
    <3>1. b \in Visible
      BY <1>6, <2>3 DEF Early
    <3>2. AllIn(t, i + 1, Len(t), Visible)
      BY <1>2, <2>2, <3>1 DEF AllIn
    <3>3. req2.method = SubSeq(t, 1, i - 1) /\ req2.uri = SubSeq(t, i + 1, Len(t))
      BY <1>3, <1>6, <2>1, <2>3 DEF Builds
    <3> QED BY <1>1, <2>1, <2>2, <2>3, <3>2, <3>3 DEF EarlyMeans
  <2>4. CASE st2 = "http_version_h"
    <3>1. b = "SP"
      BY <1>6, <2>4 DEF Early
    <3>2. req2.method = req.method /\ req2.uri = req.uri
      BY <1>6, <2>4 DEF Builds
    <3>3. n \in 1..Len(t) /\ i < n /\ t[n] = "SP" /\ n - 1 = Len(l) /\ n = Len(t)
      BY <1>1, <1>2, <2>1, <3>1
    <3>4. RequestLine(t, i, n)
      BY <2>1, <2>2, <3>3 DEF RequestLine
    <3>5. req2.method = SubSeq(t, 1, i - 1) /\ req2.uri = SubSeq(t, i + 1, n - 1)
      BY <1>3, <2>1, <3>2, <3>3
    <3>6. LineMeans(req2, t, i, n)
      BY <3>4, <3>5 DEF LineMeans
    <3>7. VersionShape(st2, t, n) /\ NumbersMean(st2, req2, t, n)
      BY <2>4, <3>3 DEF VersionShape, NumbersMean
    <3> QED BY <1>1, <2>2, <3>3, <3>6, <3>7 DEF EarlyMeans
  <2> QED BY <1>6, <2>3, <2>4 DEF Early
<1>7. CASE st \notin {"method_start", "method", "uri"}
  <2>1. PICK i, j \in 1..Len(l) :
           LineMeans(req, l, i, j) /\ VersionShape(st, l, j) /\ NumbersMean(st, req, l, j)
    BY <1>7 DEF EarlyMeans
  <2>2. VersionShape(st2, t, j) /\ NumbersMean(st2, req2, t, j)
    BY <1>1, <2>1, VersionMoves, NumbersGrow
  <2>3. RequestLine(t, i, j)
    BY <1>1, <2>1, RequestLineGrows DEF LineMeans
  <2>4. req2.method = req.method /\ req2.uri = req.uri
    BY <1>7 DEF Early, Builds
  <2>5. i \in 1..Len(t) /\ j \in 1..Len(t)
    BY <1>2
  <2>6. req2.method = SubSeq(t, 1, i - 1) /\ req2.uri = SubSeq(t, i + 1, j - 1)
    BY <1>3, <2>1, <2>4, <2>5 DEF LineMeans
  <2> QED BY <1>1, <2>2, <2>3, <2>5, <2>6 DEF EarlyMeans, LineMeans
<1> QED BY <1>4, <1>5, <1>6, <1>7

\* A part of the last part of a text.
LEMMA PartOfPart ==
    ASSUME NEW l \in Seq(Byte), NEW j \in 1..Len(l), NEW u, u = SubSeq(l, j + 1, Len(l))
    PROVE  /\ u \in Seq(Byte) /\ Len(u) = Len(l) - j
           /\ \A k \in 1..Len(l) - j : u[k] = l[j + k]
           /\ \A c \in Nat, d \in Int : c >= 1 /\ c <= Len(l) - j + 1 /\ d <= Len(l) - j
                 => SubSeq(u, c, d) = SubSeq(l, j + c, j + d)
<1>1. u \in Seq(Byte) /\ Len(u) = Len(l) - j /\ \A k \in 1..Len(l) - j : u[k] = l[j + k]
  <2>1. PICK from, to : from = j + 1 /\ to = Len(l)
    OBVIOUS
  <2>2. /\ from \in Nat /\ to \in Nat /\ from >= 1 /\ from <= to + 1 /\ to <= Len(l)
        /\ u = SubSeq(l, from, to)
    BY <2>1
  <2>3. l \in Seq(Byte)
    OBVIOUS
  <2>4. /\ u \in Seq(Byte) /\ Len(u) = to - from + 1
        /\ \A k \in 1..Len(u) : u[k] = l[from + k - 1]
    BY ONLY <2>2, <2>3, SubSeqIs
  <2>5. Len(u) = Len(l) - j
    BY <2>1, <2>4
  <2>6. ASSUME NEW k \in 1..Len(l) - j PROVE u[k] = l[j + k]
    <3>1. from + k - 1 = j + k
      BY <2>1
    <3>2. u[k] = l[from + k - 1]
      BY <2>4, <2>5, <2>6
    <3> QED BY <3>1, <3>2
  <2> QED BY <2>4, <2>5, <2>6
<1>2. ASSUME NEW c \in Nat, NEW d \in Int, c >= 1, c <= Len(l) - j + 1, d <= Len(l) - j
      PROVE  SubSeq(u, c, d) = SubSeq(l, j + c, j + d)
  <2>1. CASE d < c
    <3>1. SubSeq(u, c, d) = <<>>
      BY <1>1, <1>2, <2>1, NoPart
    <3>2. j + c \in Nat /\ j + d \in Int /\ j + d < j + c
      BY <1>2, <2>1
    <3>3. SubSeq(l, j + c, j + d) = <<>>
      BY <3>2, NoPart
    <3> QED BY <3>1, <3>3
  <2>2. CASE c <= d
    <3>1. PICK x, y, n : x = SubSeq(u, c, d) /\ y = SubSeq(l, j + c, j + d) /\ n = d - c + 1
      OBVIOUS
    <3>2. x \in Seq(Byte) /\ Len(x) = n /\ \A k \in 1..n : x[k] = u[c + k - 1]
      <4>1. u \in Seq(Byte) /\ d \in Nat /\ c <= d + 1 /\ d <= Len(u) /\ c \in Nat /\ c >= 1
        BY <1>1, <1>2, <2>2
      <4>2. /\ SubSeq(u, c, d) \in Seq(Byte) /\ Len(SubSeq(u, c, d)) = d - c + 1
            /\ \A k \in 1..Len(SubSeq(u, c, d)) : SubSeq(u, c, d)[k] = u[c + k - 1]
        BY ONLY <4>1, SubSeqIs
      <4> QED BY <3>1, <4>2
    <3>3. y \in Seq(Byte) /\ Len(y) = n /\ \A k \in 1..n : y[k] = l[j + (c + k - 1)]
      <4>0. PICK from, to : from = j + c /\ to = j + d
        OBVIOUS
      <4>1. /\ from \in Nat /\ to \in Nat /\ from >= 1 /\ from <= to + 1 /\ to <= Len(l)
            /\ y = SubSeq(l, from, to)
        BY <1>2, <2>2, <3>1, <4>0
      <4>2. l \in Seq(Byte)
        OBVIOUS
      <4>3. /\ y \in Seq(Byte) /\ Len(y) = to - from + 1
            /\ \A k \in 1..Len(y) : y[k] = l[from + k - 1]
        BY ONLY <4>1, <4>2, SubSeqIs
      <4>4. to - from + 1 = n /\ \A k \in Int : from + k - 1 = j + (c + k - 1)
        BY <3>1, <4>0
      <4> QED BY <4>3, <4>4
    <3>4. \A k \in 1..n : c + k - 1 \in 1..Len(l) - j
      BY <1>2, <2>2, <3>1
    <3>5. \A k \in 1..n : x[k] = y[k]
      BY <1>1, <3>2, <3>3, <3>4
    <3>6. x = y
      BY <3>2, <3>3, <3>5, SameSequences
    <3> QED BY <3>1, <3>6
  <2>3. d < c \/ c <= d
    BY <1>2
  <2> QED BY <2>1, <2>2, <2>3, Zenon
<1> QED BY <1>1, <1>2

\* What the request line stands for, when it has been read.
LineGives(req, l, sp, uri, sp2, v, dot) ==
    /\ sp = Position(l, "SP") /\ uri = SubSeq(l, sp + 1, Len(l))
    /\ sp2 = Position(uri, "SP") /\ v = SubSeq(uri, sp2 + 1, Len(uri))
    /\ dot = Position(v, ".")
    /\ req.method = SubSeq(l, 1, sp - 1) /\ req.uri = SubSeq(uri, 1, sp2 - 1)
    /\ req.major = Ones(dot - 6) /\ req.minor = Ones(Len(v) - dot)

LEMMA LineIsMeant ==
    ASSUME NEW l \in Seq(Byte), NEW req, FirstLineIsMeant(req, l)
    PROVE  \E sp, uri, sp2, v, dot : LineGives(req, l, sp, uri, sp2, v, dot)
<1>0. PICK sp, uri, sp2, v, dot :
         /\ sp = Position(l, "SP") /\ uri = SubSeq(l, sp + 1, Len(l))
         /\ sp2 = Position(uri, "SP") /\ v = SubSeq(uri, sp2 + 1, Len(uri))
         /\ dot = Position(v, ".")
  OBVIOUS
<1>1. PICK i, j \in 1..Len(l) :
         /\ LineMeans(req, l, i, j) /\ VersionShape("http_version_minor", l, j)
         /\ NumbersMean("http_version_minor", req, l, j)
  BY DEF FirstLineIsMeant, EarlyMeans
<1>2. PICK p \in 1..Len(l) - 1 :
         /\ l[p] = "." /\ Major(l, j, p - 1)
         /\ req.major = Ones(p - (j + 6)) /\ req.minor = Ones(Len(l) - p)
  BY <1>1 DEF NumbersMean
<1>3. /\ Len(l) \in Nat /\ 1 < i /\ i < j /\ l[i] = "SP" /\ l[j] = "SP"
      /\ \A k \in 1..(i - 1) : l[k] \in Token
      /\ \A k \in i + 1..(j - 1) : l[k] \in Visible
      /\ req.method = SubSeq(l, 1, i - 1) /\ req.uri = SubSeq(l, i + 1, j - 1)
  BY <1>1 DEF LineMeans, RequestLine, AllIn
<1>4. /\ j + 6 <= p - 1 /\ \A k \in 1..5 : l[j + k] = Http[k]
      /\ \A k \in (j + 6)..(p - 1) : l[k] = "1"
  BY <1>2 DEF Major, Prefix, AllIn
<1>5. sp = i
  <2>1. \A k \in 1..(i - 1) : l[k] # "SP"
    BY <1>3 DEF Token
  <2> QED BY <1>0, <1>3, <2>1, PositionIs
<1>6. /\ uri \in Seq(Byte) /\ Len(uri) = Len(l) - i
      /\ \A k \in 1..Len(l) - i : uri[k] = l[i + k]
      /\ \A c \in Nat, d \in Int : c >= 1 /\ c <= Len(l) - i + 1 /\ d <= Len(l) - i
            => SubSeq(uri, c, d) = SubSeq(l, i + c, i + d)
  <2>1. l \in Seq(Byte) /\ i \in 1..Len(l) /\ uri = SubSeq(l, i + 1, Len(l))
    BY <1>0, <1>5
  <2>2. /\ uri \in Seq(Byte) /\ Len(uri) = Len(l) - i
        /\ \A k \in 1..Len(l) - i : uri[k] = l[i + k]
        /\ \A c \in Nat, d \in Int : c >= 1 /\ c <= Len(l) - i + 1 /\ d <= Len(l) - i
              => SubSeq(uri, c, d) = SubSeq(l, i + c, i + d)
    BY ONLY <2>1, PartOfPart
  <2> QED BY <2>2
<1>7. sp2 = j - i
  <2>1. j - i \in 1..Len(uri) /\ uri[j - i] = "SP"
    <3>1. PICK k : k = j - i
      OBVIOUS
    <3>2. k \in 1..Len(l) - i /\ i + k = j
      BY <1>3, <3>1
    <3> QED BY <1>3, <1>6, <3>1, <3>2
  <2>2. ASSUME NEW k \in 1..((j - i) - 1) PROVE uri[k] # "SP"
    <3>1. k \in 1..Len(l) - i /\ i + k \in i + 1..(j - 1)
      BY <1>3
    <3> QED BY <1>3, <1>6, <3>1 DEF Visible, Token
  <2>3. PICK k : k = j - i
    OBVIOUS
  <2>4. /\ uri \in Seq(Byte) /\ k \in 1..Len(uri) /\ uri[k] = "SP"
        /\ \A m \in 1..(k - 1) : uri[m] # "SP"
    BY <1>6, <2>1, <2>2, <2>3
  <2>5. Position(uri, "SP") = k
    BY ONLY <2>4, PositionIs
  <2> QED BY <1>0, <2>3, <2>5
<1>8. SubSeq(uri, 1, sp2 - 1) = SubSeq(l, i + 1, j - 1)
  <2>1. PICK c, d : c = 1 /\ d = sp2 - 1
    OBVIOUS
  <2>2. /\ d \in Int /\ d <= Len(l) - i /\ i + d = j - 1
        /\ c \in Nat /\ c >= 1 /\ c <= Len(l) - i + 1 /\ i + c = i + 1
    BY <1>3, <1>7, <2>1
  <2>3. SubSeq(uri, c, d) = SubSeq(l, i + c, i + d)
    BY <1>6, <2>2
  <2> QED BY <2>1, <2>2, <2>3
<1>9. v = SubSeq(l, j + 1, Len(l))
  <2>1. PICK c, d : c = sp2 + 1 /\ d = Len(uri)
    OBVIOUS
  <2>2. /\ c \in Nat /\ c >= 1 /\ c <= Len(l) - i + 1 /\ d \in Int /\ d <= Len(l) - i
        /\ i + c = j + 1 /\ i + d = Len(l)
    BY <1>3, <1>6, <1>7, <2>1
  <2>3. SubSeq(uri, c, d) = SubSeq(l, i + c, i + d)
    BY <1>6, <2>2
  <2> QED BY <1>0, <2>1, <2>2, <2>3
<1>10. v \in Seq(Byte) /\ Len(v) = Len(l) - j /\ \A k \in 1..Len(l) - j : v[k] = l[j + k]
  <2>1. l \in Seq(Byte) /\ j \in 1..Len(l)
    OBVIOUS
  <2> QED BY ONLY <1>9, <2>1, PartOfPart
<1>11. dot = p - j
  <2>1. p - j \in 1..Len(v) /\ v[p - j] = "."
    <3>1. p - j \in 1..Len(l) - j /\ j + (p - j) = p
      BY <1>3, <1>4
    <3>2. v[p - j] = l[j + (p - j)]
      BY ONLY <1>10, <3>1
    <3>3. p - j \in 1..Len(v)
      BY <1>10, <3>1
    <3> QED BY <1>2, <3>1, <3>2, <3>3
  <2>2. ASSUME NEW k \in 1..((p - j) - 1) PROVE v[k] # "."
    <3>1. k \in 1..Len(l) - j /\ (k \in 1..5 \/ j + k \in (j + 6)..(p - 1))
      BY <1>3
    <3>2. \A m \in 1..5 : Http[m] # "."
      BY DEF Http
    <3> QED BY <1>4, <1>10, <3>1, <3>2
  <2>3. PICK k : k = p - j
    OBVIOUS
  <2>4. /\ v \in Seq(Byte) /\ k \in 1..Len(v) /\ v[k] = "."
        /\ \A m \in 1..(k - 1) : v[m] # "."
    BY <1>10, <2>1, <2>2, <2>3
  <2>5. Position(v, ".") = k
    BY ONLY <2>4, PositionIs
  <2> QED BY <1>0, <2>3, <2>5
<1>12. dot - 6 = p - (j + 6) /\ Len(v) - dot = Len(l) - p
  <2>1. PICK n, m : n = Len(l) /\ m = Len(v)
    OBVIOUS
  <2>2. n \in Int /\ j \in Int /\ p \in Int
    BY <1>3, <2>1
  <2>3. m = n - j /\ dot = p - j
    BY <1>10, <1>11, <2>1, Zenon
  <2>4. dot - 6 = p - (j + 6) /\ m - dot = n - p
    BY ONLY <2>2, <2>3
  <2> QED BY <2>1, <2>4
<1>13. LineGives(req, l, sp, uri, sp2, v, dot)
  BY <1>0, <1>2, <1>3, <1>5, <1>8, <1>12 DEF LineGives
<1> QED BY <1>13, Zenon

-----------------------------------------------------------------------------
(* The headers.                                                            *)

LEMMA OneByteLonger ==
    ASSUME NEW v \in Seq(Byte), NEW b \in Byte
    PROVE  Append(v, b) = v \o <<b>> /\ <<b>> \in Seq(Byte) /\ Append(v, b) \in Seq(Byte)
OBVIOUS

\* Another last header.
LEMMA LastReplaced ==
    ASSUME NEW s \in Seq(Header), NEW x \in Header, NEW y \in Header
    PROVE  [Append(s, x) EXCEPT ![Len(Append(s, x))] = y] = Append(s, y)
<1>1. PICK t, r, n, q : t = Append(s, x) /\ r = Append(s, y) /\ n = Len(s) + 1
                        /\ q = [t EXCEPT ![n] = y]
  OBVIOUS
<1>2. /\ t \in Seq(Header) /\ Len(t) = n /\ Len(s) \in Nat /\ t[n] = x
      /\ \A i \in 1..Len(s) : t[i] = s[i]
  BY <1>1, HeaderIsAppended
<1>3. /\ r \in Seq(Header) /\ Len(r) = n /\ r[n] = y /\ \A i \in 1..Len(s) : r[i] = s[i]
  BY <1>1, HeaderIsAppended
<1>4. /\ q \in Seq(Header) /\ Len(q) = n /\ n \in 1..n
      /\ q[n] = y /\ \A i \in 1..n : i # n => q[i] = t[i]
  <2>1. n \in 1..n /\ t \in Seq(Header) /\ Len(t) = n /\ y \in Header /\ q = [t EXCEPT ![n] = y]
    BY <1>1, <1>2
  <2> QED BY ONLY <2>1
<1>5. \A i \in 1..n : i = n \/ i \in 1..Len(s)
  BY <1>1, <1>2
<1>6. \A i \in 1..n : q[i] = r[i]
  BY <1>2, <1>3, <1>4, <1>5
<1>7. q = r
  BY <1>3, <1>4, <1>6, SameHeaders
<1> QED BY <1>1, <1>2, <1>7

\* A byte more in the value of a last header that is new.
LEMMA NewHeaderGrows ==
    ASSUME NEW s \in Seq(Header), NEW n \in Seq(Byte), NEW v \in Seq(Byte), NEW b \in Byte,
           NEW req \in Request, req.headers = Append(s, [name |-> n, value |-> v])
    PROVE  AddValue(req, b).headers = Append(s, [name |-> n, value |-> Append(v, b)])
<1>1. PICK x, y, hs, k :
         /\ x = [name |-> n, value |-> v] /\ y = [name |-> n, value |-> Append(v, b)]
         /\ hs = req.headers /\ k = Len(hs)
  OBVIOUS
<1>2. x \in Header /\ y \in Header
  <2>1. Append(v, b) \in Seq(Byte)
    BY OneByteLonger
  <2> QED BY <1>1, <2>1 DEF Header
<1>3. hs = Append(s, x) /\ hs[k] = x
  <2>1. Append(s, x)[Len(s) + 1] = x /\ Len(Append(s, x)) = Len(s) + 1
    BY <1>2, HeaderIsAppended
  <2> QED BY <1>1, <2>1
<1>4. [x EXCEPT !.value = Append(@, b)] = y
  <2>1. x.value = v
    BY <1>1
  <2>2. \A w : [x EXCEPT !.value = w] = [name |-> n, value |-> w]
    BY <1>1
  <2> QED BY <1>1, <2>1, <2>2, Zenon
<1>5. \A w : [req EXCEPT !.headers = w].headers = w
  BY DEF Request
<1>6. AddValue(req, b).headers = [hs EXCEPT ![k] = [hs[k] EXCEPT !.value = Append(@, b)]]
  BY <1>1, <1>5, Zenon DEF AddValue
<1>7. [hs EXCEPT ![k] = y] = Append(s, y)
  <2>1. \A e \in Header : [Append(s, x) EXCEPT ![Len(Append(s, x))] = e] = Append(s, e)
    BY <1>2, LastReplaced
  <2>2. hs = Append(s, x) /\ k = Len(Append(s, x))
    BY <1>1, <1>3
  <2> QED BY <1>2, <2>1, <2>2, Zenon
<1> QED BY <1>1, <1>3, <1>4, <1>6, <1>7, Zenon

\* A byte more in the name of a last header that is new.
LEMMA NewNameGrows ==
    ASSUME NEW s \in Seq(Header), NEW n \in Seq(Byte), NEW v \in Seq(Byte), NEW b \in Byte,
           NEW req \in Request, req.headers = Append(s, [name |-> n, value |-> v])
    PROVE  AddName(req, b).headers = Append(s, [name |-> Append(n, b), value |-> v])
<1>1. PICK x, y, hs, k :
         /\ x = [name |-> n, value |-> v] /\ y = [name |-> Append(n, b), value |-> v]
         /\ hs = req.headers /\ k = Len(hs)
  OBVIOUS
<1>2. x \in Header /\ y \in Header
  <2>1. Append(n, b) \in Seq(Byte)
    BY OneByteLonger
  <2> QED BY <1>1, <2>1 DEF Header
<1>3. hs = Append(s, x) /\ hs[k] = x
  <2>1. Append(s, x)[Len(s) + 1] = x /\ Len(Append(s, x)) = Len(s) + 1
    BY <1>2, HeaderIsAppended
  <2> QED BY <1>1, <2>1
<1>4. [x EXCEPT !.name = Append(@, b)] = y
  <2>1. x.name = n
    BY <1>1
  <2>2. \A w : [x EXCEPT !.name = w] = [name |-> w, value |-> v]
    BY <1>1
  <2> QED BY <1>1, <2>1, <2>2, Zenon
<1>5. \A w : [req EXCEPT !.headers = w].headers = w
  BY DEF Request
<1>6. AddName(req, b).headers = [hs EXCEPT ![k] = [hs[k] EXCEPT !.name = Append(@, b)]]
  BY <1>1, <1>5, Zenon DEF AddName
<1>7. [hs EXCEPT ![k] = y] = Append(s, y)
  <2>1. \A e \in Header : [Append(s, x) EXCEPT ![Len(Append(s, x))] = e] = Append(s, e)
    BY <1>2, LastReplaced
  <2>2. hs = Append(s, x) /\ k = Len(Append(s, x))
    BY <1>1, <1>3
  <2> QED BY <1>2, <2>1, <2>2, Zenon
<1> QED BY <1>1, <1>3, <1>4, <1>6, <1>7, Zenon

\* A byte more in the value of the last header.
LEMMA ValueGrows ==
    ASSUME NEW req \in Request, NEW b \in Byte
    PROVE  req.headers # <<>> => AddValue(req, b).headers = Longer(req.headers, <<b>>)
<1> SUFFICES ASSUME req.headers # <<>> PROVE AddValue(req, b).headers = Longer(req.headers, <<b>>)
  OBVIOUS
<1>1. PICK hs, k, x : hs = req.headers /\ k = Len(hs) /\ x = hs[k]
  OBVIOUS
<1>2. x \in Header
  BY <1>1 DEF Request
<1>3. x.value \in Seq(Byte)
  BY <1>2 DEF Header
<1>4. Append(x.value, b) = x.value \o <<b>>
  BY <1>3, OneByteLonger
<1>5. \A w : [req EXCEPT !.headers = w].headers = w
  BY DEF Request
<1>6. AddValue(req, b).headers = [hs EXCEPT ![k] = [hs[k] EXCEPT !.value = Append(@, b)]]
  BY <1>1, <1>5, Zenon DEF AddValue
<1>7. Longer(hs, <<b>>) = [hs EXCEPT ![k] = [hs[k] EXCEPT !.value = @ \o <<b>>]]
  BY <1>1, Zenon DEF Longer
<1> QED BY <1>1, <1>4, <1>6, <1>7, Zenon

\* Longer twice, and by nothing.
LEMMA LongerTwice ==
    ASSUME NEW hs \in Seq(Header), hs # <<>>, NEW u \in Seq(Byte), NEW v \in Seq(Byte)
    PROVE  /\ Longer(Longer(hs, u), v) = Longer(hs, u \o v)
           /\ Longer(hs, <<>>) = hs
<1>1. PICK n, r, s, t, o : n = Len(hs) /\ r = Longer(hs, u) /\ s = Longer(r, v)
                           /\ t = Longer(hs, u \o v) /\ o = Longer(hs, <<>>)
  OBVIOUS
<1>2. u \o v \in Seq(Byte) /\ <<>> \in Seq(Byte)
  BY ConcatTwice
<1>3. /\ r \in Seq(Header) /\ Len(r) = n /\ n \in Nat /\ n >= 1
      /\ r[n] = [hs[n] EXCEPT !.value = @ \o u]
      /\ \A i \in 1..n : i # n => r[i] = hs[i]
  <2>1. /\ Longer(hs, u) \in Seq(Header) /\ Len(Longer(hs, u)) = Len(hs)
        /\ Len(hs) \in Nat /\ Len(hs) >= 1
        /\ Longer(hs, u)[Len(hs)] = [hs[Len(hs)] EXCEPT !.value = @ \o u]
        /\ \A i \in 1..Len(hs) : i # Len(hs) => Longer(hs, u)[i] = hs[i]
    BY ONLY hs \in Seq(Header), hs # <<>>, u \in Seq(Byte), LongerIs
  <2>2. Len(hs) = n /\ r = Longer(hs, u)
    BY <1>1
  <2> QED BY <2>1, <2>2, Zenon
<1>4. /\ s \in Seq(Header) /\ Len(s) = n /\ s[n] = [r[n] EXCEPT !.value = @ \o v]
      /\ \A i \in 1..n : i # n => s[i] = r[i]
  <2>1. r # <<>>
    BY <1>3
  <2>2. /\ Longer(r, v) \in Seq(Header) /\ Len(Longer(r, v)) = Len(r)
        /\ Longer(r, v)[Len(r)] = [r[Len(r)] EXCEPT !.value = @ \o v]
        /\ \A i \in 1..Len(r) : i # Len(r) => Longer(r, v)[i] = r[i]
    BY ONLY <1>3, <2>1, v \in Seq(Byte), LongerIs
  <2>3. Len(r) = n /\ s = Longer(r, v)
    BY <1>1, <1>3
  <2> QED BY <2>2, <2>3, Zenon
<1>5. /\ t \in Seq(Header) /\ Len(t) = n /\ t[n] = [hs[n] EXCEPT !.value = @ \o (u \o v)]
      /\ \A i \in 1..n : i # n => t[i] = hs[i]
  <2>1. /\ Longer(hs, u \o v) \in Seq(Header) /\ Len(Longer(hs, u \o v)) = Len(hs)
        /\ Longer(hs, u \o v)[Len(hs)] = [hs[Len(hs)] EXCEPT !.value = @ \o (u \o v)]
        /\ \A i \in 1..Len(hs) : i # Len(hs) => Longer(hs, u \o v)[i] = hs[i]
    BY ONLY hs \in Seq(Header), hs # <<>>, u \o v \in Seq(Byte), LongerIs
  <2>2. Len(hs) = n /\ t = Longer(hs, u \o v)
    BY <1>1
  <2> QED BY <2>1, <2>2, Zenon
<1>6. /\ o \in Seq(Header) /\ Len(o) = n /\ o[n] = [hs[n] EXCEPT !.value = @ \o <<>>]
      /\ \A i \in 1..n : i # n => o[i] = hs[i]
  <2>1. /\ Longer(hs, <<>>) \in Seq(Header) /\ Len(Longer(hs, <<>>)) = Len(hs)
        /\ Longer(hs, <<>>)[Len(hs)] = [hs[Len(hs)] EXCEPT !.value = @ \o <<>>]
        /\ \A i \in 1..Len(hs) : i # Len(hs) => Longer(hs, <<>>)[i] = hs[i]
    BY ONLY hs \in Seq(Header), hs # <<>>, <<>> \in Seq(Byte), LongerIs
  <2>2. Len(hs) = n /\ o = Longer(hs, <<>>)
    BY <1>1
  <2> QED BY <2>1, <2>2, Zenon
<1>7. PICK x, w, m : x = hs[n] /\ w = x.value /\ m = x.name
  OBVIOUS
<1>8. w \in Seq(Byte) /\ x = [name |-> m, value |-> w]
  <2>1. x \in Header
    BY <1>1, <1>3, <1>7
  <2> QED BY <1>7, <2>1 DEF Header
<1>9. \A y, z : [[name |-> m, value |-> y] EXCEPT !.value = z] = [name |-> m, value |-> z]
  OBVIOUS
<1>10. r[n] = [name |-> m, value |-> w \o u] /\ t[n] = [name |-> m, value |-> w \o (u \o v)]
  BY <1>3, <1>5, <1>7, <1>8, <1>9, Zenon
<1>11. s[n] = [name |-> m, value |-> (w \o u) \o v]
  <2>1. r[n].value = w \o u
    BY <1>10
  <2>2. s[n] = [r[n] EXCEPT !.value = r[n].value \o v]
    BY <1>4
  <2>3. \A z : [r[n] EXCEPT !.value = z] = [name |-> m, value |-> z]
    <3>1. PICK e, y : e = r[n] /\ y = w \o u
      OBVIOUS
    <3>2. e = [name |-> m, value |-> y]
      BY <1>10, <3>1
    <3>3. \A z : [e EXCEPT !.value = z] = [name |-> m, value |-> z]
      BY ONLY <3>2
    <3> QED BY <3>1, <3>3, Zenon
  <2> QED BY <2>1, <2>2, <2>3, Zenon
<1>12. (w \o u) \o v = w \o (u \o v) /\ w \o <<>> = w
  BY <1>8, ConcatRegroups, ConcatTwice
<1>13. s[n] = t[n] /\ o[n] = hs[n]
  <2>1. s[n] = t[n]
    BY <1>10, <1>11, <1>12, Zenon
  <2>2. o[n] = [x EXCEPT !.value = w]
    BY <1>6, <1>7, <1>12, Zenon
  <2>3. [x EXCEPT !.value = w] = x
    BY ONLY <1>8
  <2> QED BY <1>7, <2>1, <2>2, <2>3, Zenon
<1>14. \A i \in 1..n : s[i] = t[i] /\ o[i] = hs[i]
  BY <1>3, <1>4, <1>5, <1>6, <1>13, Zenon
<1>15. s = t /\ o = hs
  <2>1. /\ s \in Seq(Header) /\ t \in Seq(Header) /\ Len(s) = Len(t)
        /\ \A i \in 1..Len(s) : s[i] = t[i]
    BY <1>4, <1>5, <1>14, Zenon
  <2>2. /\ o \in Seq(Header) /\ hs \in Seq(Header) /\ Len(o) = Len(hs)
        /\ \A i \in 1..Len(o) : o[i] = hs[i]
    BY <1>1, <1>6, <1>14, Zenon
  <2>3. s = t
    BY ONLY <2>1, SameHeaders
  <2>4. o = hs
    BY ONLY <2>2, SameHeaders
  <2> QED BY <2>3, <2>4
<1> QED BY <1>1, <1>15

-----------------------------------------------------------------------------
(* The headers, byte by byte.                                              *)

\* A byte that goes on with a line of headers.
LEMMA LateBuilds ==
    ASSUME NEW l \in Seq(Byte), NEW b \in Byte, b \notin {"CR", "LF"},
           NEW lines \in Seq(Seq(Byte)), NEW req \in Request, NEW req2, NEW st, NEW st2,
           LateShape(st, req.headers, lines, l), Late(st, req.headers, b, st2),
           st \in NeedsHeader => req.headers # <<>>,
           Builds(st, b, st2, req, req2), LateMeans(st, req.headers, lines, l)
    PROVE  LateMeans(st2, req2.headers, lines, Append(l, b))
<1>1. PICK t, n, before, hs, hs2 :
         /\ t = Append(l, b) /\ n = Len(l) /\ before = HeadersOf(lines)
         /\ hs = req.headers /\ hs2 = req2.headers
  OBVIOUS
<1> DEFINE With(x, v) == Append(before, [name |-> x, value |-> v])
<1>2. /\ Len(t) = n + 1 /\ n \in Nat /\ t \in Seq(Byte)
      /\ before \in Seq(Header)
  <2>1. Len(t) = n + 1 /\ n \in Nat /\ t \in Seq(Byte)
    BY <1>1, LastElement
  <2>2. PICK heads, m : heads = Ascending(HeaderLines(lines)) /\ m = Cardinality(HeaderLines(lines))
    OBVIOUS
  <2>3. HeadersOf(lines) \in Seq(Header)
    BY <2>2, HeadersAre
  <2> QED BY <1>1, <2>1, <2>3
<1>3. <<>> \in Seq(Byte) /\ <<b>> \in Seq(Byte) /\ Append(<<>>, b) = <<b>>
  OBVIOUS
<1>4. LateMeans(st2, hs2, lines, t) <=>
         \/ st2 \in {"header_line_start", "header_lws"} \cup AfterCR /\ hs2 = before
         \/ st2 = "header_name" /\ hs2 = With(t, <<>>)
         \/ st2 = "space_before_header_value" /\ hs2 = With(SubSeq(t, 1, Len(t) - 1), <<>>)
         \/ /\ st2 = "header_value"
            /\ \/ \E colon \in 1..Len(t) :
                     /\ HeaderForm(t, colon)
                     /\ hs2 = With(SubSeq(t, 1, colon - 1), SubSeq(t, colon + 2, Len(t)))
               \/ \E indent \in 1..Len(t) :
                     /\ Len(lines) >= 2 /\ ContinuationForm(t, indent)
                     /\ hs2 = Longer(before, SubSeq(t, indent, Len(t)))
  BY <1>1, Zenon DEF LateMeans
<1>5. hs2 = IF st2 = "header_name"
            THEN IF st = "header_name" THEN AddName(req, b).headers
                 ELSE Append(hs, [name |-> <<b>>, value |-> <<>>])
            ELSE IF st2 = "header_value" /\ st # "space_before_header_value"
                 THEN AddValue(req, b).headers
            ELSE hs
  BY <1>1, Zenon DEF Builds
<1> HIDE DEF With
<1>6. CASE st = "header_line_start"
  <2>1. l = <<>> /\ hs = before
    BY <1>1, <1>6 DEF LateShape, LateMeans, AfterCR
  <2>2. t = <<b>>
    BY <1>1, <1>3, <2>1
  <2>3. CASE st2 = "header_lws"
    BY <1>1, <1>4, <1>5, <2>1, <2>3
  <2>4. CASE st2 = "header_name"
    <3>1. hs2 = With(t, <<>>)
      BY <1>5, <1>6, <2>1, <2>2, <2>4 DEF With
    <3> QED BY <1>1, <1>4, <2>4, <3>1
  <2> QED BY <1>6, <2>3, <2>4 DEF Late
<1>7. CASE st = "header_lws"
  <2>1. l # <<>> /\ AllIn(l, 1, n, Blank) /\ Len(lines) >= 2 /\ hs = before
    BY <1>1, <1>7 DEF LateShape, LateMeans, AfterCR
  <2>2. CASE st2 = "header_lws"
    BY <1>1, <1>4, <1>5, <2>1, <2>2
  <2>3. CASE b \in Visible /\ st2 = "header_value"
    <3>1. n + 1 \in 1..Len(t) /\ ContinuationForm(t, n + 1)
      BY <1>1, <2>1, <2>3, FormsGrow
    <3>2. SubSeq(t, n + 1, Len(t)) = <<b>>
      <4>1. PICK from : from = n + 1
        OBVIOUS
      <4>2. from \in Nat /\ from >= 1 /\ from <= Len(l) + 1 /\ Len(l) < from /\ Len(l) \in Int
        BY <1>1, <1>2, <4>1
      <4>3. SubSeq(t, from, Len(t)) = Append(SubSeq(l, from, Len(l)), b)
        BY <1>1, <4>2, PartGrows
      <4>4. SubSeq(l, from, Len(l)) = <<>>
        BY <4>2, NoPart
      <4> QED BY <1>3, <4>1, <4>3, <4>4
    <3>3. hs # <<>>
      BY <1>1, <1>7 DEF NeedsHeader
    <3>4. hs2 = Longer(before, <<b>>)
      BY <1>1, <1>5, <1>7, <2>1, <2>3, <3>3, ValueGrows
    <3> QED BY <1>1, <1>4, <2>1, <2>3, <3>1, <3>2, <3>4
  <2> QED BY <1>7, <2>2, <2>3 DEF Late
<1>8. CASE st = "header_name"
  <2>1. hs = With(l, <<>>)
    BY <1>1, <1>8 DEF LateMeans, AfterCR, With
  <2>2. CASE st2 = "space_before_header_value"
    <3>1. SubSeq(t, 1, Len(t) - 1) = l
      <4>1. PICK one, to : one = 1 /\ to = n
        OBVIOUS
      <4>2. one \in Nat /\ one >= 1 /\ one <= Len(l) + 1 /\ to \in Int /\ to <= Len(l)
        BY <1>1, <1>2, <4>1
      <4>3. SubSeq(t, one, to) = SubSeq(l, one, to)
        BY <1>1, <4>2, PartGrows
      <4>4. Len(t) - 1 = n
        BY <1>2
      <4> QED BY <1>1, <4>1, <4>3, <4>4, WholePart
    <3> QED BY <1>1, <1>4, <1>5, <2>1, <2>2, <3>1
  <2>3. CASE st2 = "header_name"
    <3>1. req.headers = Append(before, [name |-> l, value |-> <<>>])
      BY <1>1, <2>1 DEF With
    <3>2. AddName(req, b).headers = Append(before, [name |-> Append(l, b), value |-> <<>>])
      <4>1. PICK v : v = <<>>
        OBVIOUS
      <4>2. /\ before \in Seq(Header) /\ l \in Seq(Byte) /\ v \in Seq(Byte) /\ b \in Byte
            /\ req \in Request /\ req.headers = Append(before, [name |-> l, value |-> v])
        BY <1>2, <1>3, <3>1, <4>1
      <4>3. AddName(req, b).headers = Append(before, [name |-> Append(l, b), value |-> v])
        BY ONLY <4>2, NewNameGrows
      <4> QED BY <4>1, <4>3
    <3>3. hs2 = With(t, <<>>)
      BY <1>1, <1>5, <1>8, <2>3, <3>2 DEF With
    <3> QED BY <1>1, <1>4, <2>3, <3>3
  <2> QED BY <1>8, <2>2, <2>3 DEF Late
<1>9. CASE st = "space_before_header_value"
  <2>1. /\ 1 < n /\ l[n] = ":" /\ AllIn(l, 1, n - 1, Token) /\ b = "SP" /\ st2 = "header_value"
        /\ hs = With(SubSeq(l, 1, n - 1), <<>>)
    BY <1>1, <1>9 DEF LateShape, Late, LateMeans, AfterCR, With
  <2>2. n \in 1..Len(t) /\ HeaderForm(t, n)
    BY <1>1, <2>1, FormsGrow
  <2>3. SubSeq(t, 1, n - 1) = SubSeq(l, 1, n - 1)
    <3>1. PICK one, to : one = 1 /\ to = n - 1
      OBVIOUS
    <3>2. one \in Nat /\ one >= 1 /\ one <= Len(l) + 1 /\ to \in Int /\ to <= Len(l)
      BY <1>1, <1>2, <3>1
    <3>3. SubSeq(t, one, to) = SubSeq(l, one, to)
      BY <1>1, <3>2, PartGrows
    <3> QED BY <3>1, <3>3
  <2>4. SubSeq(t, n + 2, Len(t)) = <<>>
    <3>1. PICK from, to : from = n + 2 /\ to = Len(t)
      OBVIOUS
    <3>2. from \in Nat /\ to \in Int /\ to < from
      BY <1>2, <3>1
    <3>3. SubSeq(t, from, to) = <<>>
      BY <1>2, <3>2, NoPart
    <3> QED BY <3>1, <3>3
  <2>5. hs2 = With(SubSeq(t, 1, n - 1), SubSeq(t, n + 2, Len(t)))
    BY <1>5, <1>9, <2>1, <2>3, <2>4
  <2> QED BY <1>1, <1>4, <2>1, <2>2, <2>5
<1>10. CASE st = "header_value"
  <2>1. b \in Visible \cup {"SP"} /\ st2 = "header_value" /\ hs # <<>>
    BY <1>1, <1>10 DEF Late, NeedsHeader
  <2>2. hs2 = AddValue(req, b).headers
    BY <1>5, <1>10, <2>1
  <2>3. ASSUME NEW c \in 1..n, HeaderForm(l, c),
               hs = With(SubSeq(l, 1, c - 1), SubSeq(l, c + 2, Len(l)))
        PROVE  LateMeans(st2, hs2, lines, t)
    <3>1. c \in 1..Len(t) /\ HeaderForm(t, c)
      BY <1>1, <2>1, <2>3, FormsGrow
    <3>2. PICK x, v, from, one, to :
             /\ x = SubSeq(l, 1, c - 1) /\ v = SubSeq(l, c + 2, Len(l))
             /\ from = c + 2 /\ one = 1 /\ to = c - 1
      OBVIOUS
    <3>3. /\ from \in Nat /\ from >= 1 /\ from <= Len(l) + 1
          /\ one \in Nat /\ one >= 1 /\ one <= Len(l) + 1 /\ to \in Int /\ to <= Len(l)
      BY <1>1, <1>2, <2>3, <3>2 DEF HeaderForm
    <3>4. x \in Seq(Byte) /\ v \in Seq(Byte)
      <4>1. /\ one <= to + 1 /\ to \in Nat /\ to <= Len(l)
            /\ from <= Len(l) + 1 /\ Len(l) \in Nat /\ Len(l) <= Len(l)
        BY SMTT(30), <1>1, <1>2, <2>3, <3>2, <3>3
      <4>2. SubSeq(l, one, to) \in Seq(Byte)
        BY ONLY <3>3, <4>1, l \in Seq(Byte), SubSeqIs
      <4>3. SubSeq(l, from, Len(l)) \in Seq(Byte)
        BY ONLY <3>3, <4>1, l \in Seq(Byte), SubSeqIs
      <4> QED BY <3>2, <4>2, <4>3
    <3>5. req.headers = Append(before, [name |-> x, value |-> v])
      BY <1>1, <2>3, <3>2 DEF With
    <3>6. AddValue(req, b).headers = Append(before, [name |-> x, value |-> Append(v, b)])
      <4>1. before \in Seq(Header) /\ b \in Byte /\ req \in Request
        BY <1>2
      <4> QED BY ONLY <3>4, <3>5, <4>1, NewHeaderGrows
    <3>7. SubSeq(t, from, Len(t)) = Append(v, b) /\ SubSeq(t, one, to) = x
      <4>1. l \in Seq(Byte) /\ b \in Byte /\ t = Append(l, b)
        BY <1>1
      <4>2. /\ SubSeq(t, from, Len(t)) = Append(SubSeq(l, from, Len(l)), b)
            /\ \A z \in Int : z <= Len(l) => SubSeq(t, one, z) = SubSeq(l, one, z)
        BY ONLY <3>3, <4>1, PartGrows
      <4>3. v = SubSeq(l, from, Len(l)) /\ x = SubSeq(l, one, to)
        BY <3>2
      <4> QED BY <3>3, <4>2, <4>3
    <3>8. hs2 = With(SubSeq(t, 1, c - 1), SubSeq(t, c + 2, Len(t)))
      BY <2>2, <3>2, <3>6, <3>7 DEF With
    <3> QED BY <1>4, <2>1, <3>1, <3>8
  <2>4. ASSUME NEW d \in 1..n, ContinuationForm(l, d), Len(lines) >= 2,
               hs = Longer(before, SubSeq(l, d, Len(l)))
        PROVE  LateMeans(st2, hs2, lines, t)
    <3>1. d \in 1..Len(t) /\ ContinuationForm(t, d)
      BY <1>1, <2>1, <2>4, FormsGrow
    <3>2. IsContinuation(l) /\ GoodLines(lines)
      BY <1>1, <1>10, <2>4, ContinuationFormIsContinuation DEF LateShape
    <3>3. before # <<>>
      BY <1>1, <2>4, <3>2, LastHeaderGrows
    <3>4. PICK v : v = SubSeq(l, d, Len(l))
      OBVIOUS
    <3>5. v \in Seq(Byte) /\ SubSeq(t, d, Len(t)) = Append(v, b)
      <4>1. d \in Nat /\ d >= 1 /\ d <= Len(l) + 1 /\ Len(l) \in Nat /\ Len(l) <= Len(l)
        BY <1>1, <1>2
      <4>2. SubSeq(t, d, Len(t)) = Append(SubSeq(l, d, Len(l)), b)
        BY <1>1, <4>1, PartGrows
      <4>3. SubSeq(l, d, Len(l)) \in Seq(Byte)
        BY ONLY <4>1, l \in Seq(Byte), SubSeqIs
      <4> QED BY <3>4, <4>2, <4>3
    <3>6. hs2 = Longer(hs, <<b>>)
      BY <1>1, <2>1, <2>2, ValueGrows
    <3>7. Longer(Longer(before, v), <<b>>) = Longer(before, v \o <<b>>)
      <4>1. before \in Seq(Header) /\ v \in Seq(Byte) /\ b \in Byte
        BY <1>2, <1>3, <3>5
      <4>2. PICK u : u = <<b>>
        OBVIOUS
      <4>3. u \in Seq(Byte)
        BY ONLY <4>1, <4>2
      <4>4. Longer(Longer(before, v), u) = Longer(before, v \o u)
        BY ONLY <3>3, <4>1, <4>3, LongerTwice
      <4> QED BY <4>2, <4>4, Zenon
    <3>8. hs2 = Longer(before, SubSeq(t, d, Len(t)))
      BY <2>4, <3>4, <3>5, <3>6, <3>7, OneByteLonger
    <3> QED BY <1>4, <2>1, <2>4, <3>1, <3>8
  <2>5. \/ \E c \in 1..n : HeaderForm(l, c) /\ hs = With(SubSeq(l, 1, c - 1), SubSeq(l, c + 2, Len(l)))
        \/ \E d \in 1..n : /\ Len(lines) >= 2 /\ ContinuationForm(l, d)
                           /\ hs = Longer(before, SubSeq(l, d, Len(l)))
    BY <1>1, <1>10 DEF LateMeans, AfterCR, With
  <2>6. LateMeans(st2, hs2, lines, t)
    BY <2>3, <2>4, <2>5
  <2> QED BY <1>1, <2>6
<1> QED BY <1>6, <1>7, <1>8, <1>9, <1>10 DEF Late

\* The end of a line of a header, or of the empty line.
LEMMA LateEndsBuilds ==
    ASSUME NEW l \in Seq(Byte), NEW lines \in Seq(Seq(Byte)), NEW req, NEW req2,
           NEW st, NEW st2, LateShape(st, req.headers, lines, l),
           Late(st, req.headers, "CR", st2),
           req2.headers = req.headers, LateMeans(st, req.headers, lines, l)
    PROVE  LateMeans(st2, req2.headers, Append(lines, l), <<>>)
<1>1. PICK more, hs : more = Append(lines, l) /\ hs = req.headers
  OBVIOUS
<1>2. \/ st = "header_line_start" /\ st2 = "expecting_newline_3"
      \/ st = "header_lws" /\ st2 = "expecting_newline_2"
      \/ st = "header_value" /\ st2 = "expecting_newline_2"
  BY DEF Late, Blank, Token, Visible
<1>3. st2 \in AfterCR
  BY <1>2 DEF AfterCR
<1>4. SUFFICES hs = HeadersOf(more)
  BY <1>1, <1>3 DEF LateMeans
<1>5. GoodLines(lines) /\ lines # <<>>
  BY <1>2 DEF LateShape, GoodLines
<1>6. CASE st = "header_line_start"
  <2>1. l = <<>> /\ hs = HeadersOf(lines)
    BY <1>1, <1>6 DEF LateShape, LateMeans, AfterCR
  <2>2. ~IsHeader(l) /\ ~IsContinuation(l)
    <3>1. ~(Len(l) >= 1)
      BY <2>1
    <3> QED BY <3>1, FirstByte
  <2>3. HeadersOf(more) = HeadersOf(lines)
    BY <1>1, <1>5, <2>2, HeadersStayWith
  <2> QED BY <2>1, <2>3
<1>7. CASE st = "header_lws"
  <2>1. Len(lines) >= 2 /\ l # <<>> /\ AllIn(l, 1, Len(l), Blank) /\ hs = HeadersOf(lines)
    BY <1>1, <1>7 DEF LateShape, LateMeans, AfterCR
  <2>2. IsContinuation(l)
    BY <2>1, ContinuationFormIsContinuation
  <2>3. Unindented(l) = <<>>
    <3>1. PICK i, n : i = Len(l) + 1 /\ n = Len(l)
      OBVIOUS
    <3>2. i \in 1..Len(l) + 1 /\ i - 1 = Len(l) /\ ~(i <= Len(l)) /\ i \in Nat /\ n \in Int /\ n < i
      BY <3>1
    <3>3. Indent(l) = i
      BY <2>1, <3>2, IndentIs
    <3>4. SubSeq(l, i, n) = <<>>
      BY <3>2, NoPart
    <3> QED BY <3>1, <3>3, <3>4 DEF Unindented
  <2>4. /\ hs \in Seq(Header) /\ hs # <<>>
        /\ HeadersOf(more) = Longer(hs, <<>>)
    BY <1>1, <1>5, <2>1, <2>2, <2>3, LastHeaderGrows
  <2>5. <<>> \in Seq(Byte)
    OBVIOUS
  <2>6. Longer(hs, <<>>) = hs
    BY <2>4, <2>5, LongerTwice
  <2> QED BY <2>4, <2>6
<1>8. CASE st = "header_value"
  <2>1. ASSUME NEW c \in 1..Len(l), HeaderForm(l, c),
               hs = Append(HeadersOf(lines), [name  |-> SubSeq(l, 1, c - 1),
                                              value |-> SubSeq(l, c + 2, Len(l))])
        PROVE  hs = HeadersOf(more)
    <3>1. IsHeader(l)
      BY <2>1, HeaderFormIsHeader
    <3>2. NameOf(l) = SubSeq(l, 1, c - 1) /\ ValueOf(l) = SubSeq(l, c + 2, Len(l))
      BY <2>1, HeaderIsTyped
    <3>3. HeadersOf(more)
             = Append(HeadersOf(lines), [name |-> NameOf(l), value |-> ValueOf(l)])
      BY <1>1, <1>5, <3>1, HeaderComesLast
    <3> QED BY <2>1, <3>2, <3>3
  <2>2. ASSUME NEW d \in 1..Len(l), ContinuationForm(l, d), Len(lines) >= 2,
               hs = Longer(HeadersOf(lines), SubSeq(l, d, Len(l)))
        PROVE  hs = HeadersOf(more)
    <3>1. IsContinuation(l)
      BY <2>2, ContinuationFormIsContinuation
    <3>2. Indent(l) = d
      <4>1. l[d] \notin Blank
        BY <2>2 DEF ContinuationForm, Visible, Token, Blank
      <4>2. d \in 1..Len(l) + 1 /\ AllIn(l, 1, d - 1, Blank)
        BY <2>2 DEF ContinuationForm
      <4> QED BY <4>1, <4>2, IndentIs
    <3>3. HeadersOf(more) = Longer(HeadersOf(lines), Unindented(l))
      BY <1>1, <1>5, <2>2, <3>1, LastHeaderGrows
    <3> QED BY <2>2, <3>2, <3>3 DEF Unindented
  <2> QED BY <1>1, <1>8, <2>1, <2>2 DEF LateMeans, AfterCR
<1> QED BY <1>2, <1>6, <1>7, <1>8

\* Requests that agree on the request line.
LEMMA SameLine ==
    ASSUME NEW st, NEW req, NEW req2, NEW l, req2.method = req.method, req2.uri = req.uri,
           req2.major = req.major, req2.minor = req.minor, EarlyMeans(st, req, l)
    PROVE  EarlyMeans(st, req2, l)
BY Zenon DEF EarlyMeans, LineMeans, NumbersMean

\* A byte behind the request line leaves the request line alone.
LEMMA LateKeepsLine ==
    ASSUME NEW st, NEW hs, NEW b, NEW st2, NEW req, NEW req2,
           Late(st, hs, b, st2), Builds(st, b, st2, req, req2)
    PROVE  /\ req2.method = req.method /\ req2.uri = req.uri
           /\ req2.major = req.major /\ req2.minor = req.minor
           /\ (b \in {"CR", "LF"} => req2.headers = req.headers)
<1>1. /\ st2 \notin {"method", "uri", "http_version_major", "http_version_minor"}
      /\ st # "http_version_slash"
  BY DEF Late
<1>2. b \in {"CR", "LF"} => st2 \notin {"header_name", "header_value"}
  BY DEF Late, Token, Visible
<1> QED BY <1>1, <1>2 DEF Builds

-----------------------------------------------------------------------------
(* The request that has been put together.                                 *)

\* A byte on which the parser goes on.
LEMMA MeantGoesOn ==
    ASSUME NEW s \in Seq(Byte), NEW b \in Byte, NEW st, NEW req, Fits(st, req),
           Read(st, req.headers, s), Meant(st, req, LinesOf(s), Rest(s)),
           NEW a, a = Consume(st, req, b), a.result = "indeterminate"
    PROVE  Meant(a.state, a.request, LinesOf(Append(s, b)), Rest(Append(s, b)))
<1>1. PICK t, l, lines, st2, req2 :
         /\ t = Append(s, b) /\ l = Rest(s) /\ lines = LinesOf(s)
         /\ st2 = a.state /\ req2 = a.request
  OBVIOUS
<1>2. /\ l \in Seq(Byte) /\ lines \in Seq(Seq(Byte)) /\ Ranked(LineEnds(s))
      /\ Shape(st, req.headers, lines, l) /\ req \in Request
      /\ t \in Seq(Byte) /\ Len(t) = Len(s) + 1 /\ Len(s) \in Nat
  BY <1>1, RestGrows DEF Read, Fits
<1>3. Builds(st, b, st2, req, req2)
  BY <1>1, ConsumeBuilds
<1>4. /\ Verdict(st, req.headers, b, a)
      /\ \/ Early(st, b, st2) /\ req2.headers = req.headers
         \/ Late(st, req.headers, b, st2)
  BY <1>1, ConsumeMoves DEF Verdict
<1>5. /\ Early(st, b, st2) => st \in EarlyStates
      /\ Late(st, req.headers, b, st2) => st \notin EarlyStates /\ st2 \notin EarlyStates
  BY DEF Early, Late, EarlyStates
<1>6. /\ st \in EarlyStates => /\ EarlyMeans(st, req, l)
                               /\ lines = <<>> /\ req.headers = <<>>
      /\ st \notin EarlyStates => /\ FirstLineIsMeant(req, lines[1])
                                  /\ LateMeans(st, req.headers, lines, l)
                                  /\ LateShape(st, req.headers, lines, l)
  BY <1>1, <1>2 DEF Meant, Shape
<1>7. Late(st, req.headers, b, st2) => FirstLineIsMeant(req2, lines[1])
  BY <1>3, <1>5, <1>6, LateKeepsLine, SameLine DEF FirstLineIsMeant
<1>8. CASE b \notin {"CR", "LF"}
  <2>1. st \notin AfterCR
    BY <1>4, <1>8 DEF Early, Late, AfterCR
  <2>2. LineBegin(s) <= Len(s) + 1
    BY <2>1 DEF Read
  <2>3. LinesOf(t) = lines
    BY <1>1, <1>2, <1>8, LineGoesOn
  <2>4. Rest(t) = Append(l, b)
    BY <1>1, <1>2, <1>8, <2>2, RestGrows
  <2>5. CASE Early(st, b, st2)
    <3>1. EarlyMeans(st2, req2, Append(l, b))
      BY <1>2, <1>3, <1>5, <1>6, <1>8, <2>5, EarlyBuilds
    <3>2. st2 \in EarlyStates
      BY <1>8, <2>5 DEF Early, EarlyStates
    <3> QED BY <1>1, <2>3, <2>4, <3>1, <3>2 DEF Meant
  <2>6. CASE Late(st, req.headers, b, st2)
    <3>1. st \in NeedsHeader => req.headers # <<>>
      BY DEF Fits
    <3>2. LateMeans(st2, req2.headers, lines, Append(l, b))
      BY <1>2, <1>3, <1>5, <1>6, <1>8, <2>6, <3>1, LateBuilds
    <3> QED BY <1>1, <1>5, <1>7, <2>3, <2>4, <2>6, <3>2 DEF Meant
  <2> QED BY <1>4, <2>5, <2>6
<1>9. CASE b = "CR"
  <2>1. LinesOf(t) = Append(lines, l) /\ Rest(t) = <<>>
    <3>1. LinesOf(t) = Append(lines, l) /\ LineBegin(t) = Len(t) + 2 /\ Ranked(LineEnds(t))
      BY <1>1, <1>2, <1>9, LineIsMade
    <3> QED BY <1>2, <3>1, RestGrows
  <2>2. CASE Early(st, b, st2)
    <3>1. st = "http_version_minor" /\ st2 = "expecting_newline_1"
      BY <1>9, <2>2 DEF Early, Token, Visible
    <3>2. lines = <<>> /\ req.headers = <<>> /\ EarlyMeans(st, req, l)
      BY <1>5, <1>6, <2>2
    <3>3. /\ req2.method = req.method /\ req2.uri = req.uri
          /\ req2.major = req.major /\ req2.minor = req.minor /\ req2.headers = <<>>
      BY <1>3, <3>1, <3>2 DEF Builds
    <3>4. FirstLineIsMeant(req2, l)
      BY <3>1, <3>2, <3>3, SameLine DEF FirstLineIsMeant
    <3>5. PICK more : more = Append(lines, l)
      OBVIOUS
    <3>6. more \in Seq(Seq(Byte)) /\ Len(more) = 1 /\ more[1] = l
      BY <1>2, <3>2, <3>5
    <3>7. HeadersOf(more) = <<>>
      BY <3>6, NoHeaders
    <3>8. LateMeans(st2, req2.headers, more, <<>>)
      BY <3>1, <3>3, <3>7 DEF LateMeans, AfterCR
    <3>9. st2 \notin EarlyStates
      BY <3>1 DEF EarlyStates
    <3> QED BY <1>1, <2>1, <3>4, <3>5, <3>6, <3>8, <3>9 DEF Meant
  <2>3. CASE Late(st, req.headers, b, st2)
    <3>1. req2.headers = req.headers
      BY <1>3, <1>9, <2>3, LateKeepsLine
    <3>2. LateMeans(st2, req2.headers, Append(lines, l), <<>>)
      BY <1>2, <1>5, <1>6, <1>9, <2>3, <3>1, LateEndsBuilds
    <3>3. GoodLines(lines)
      BY <1>5, <1>6, <1>9, <2>3 DEF LateShape, Late, Blank, Token, Visible
    <3>4. Append(lines, l)[1] = lines[1]
      <4>1. 1 \in 1..Len(lines)
        BY <1>2, <3>3 DEF GoodLines
      <4> QED BY <1>2, <4>1, LineIsAdded
    <3> QED BY <1>1, <1>5, <1>7, <2>1, <2>3, <3>2, <3>4 DEF Meant
  <2> QED BY <1>4, <2>2, <2>3
<1>10. CASE b = "LF"
  <2>1. /\ Late(st, req.headers, b, st2) /\ st \in AfterCR /\ st2 = "header_line_start"
    BY <1>4, <1>10 DEF Early, Late, Token, Visible, Blank, AfterCR
  <2>2. LinesOf(t) = lines /\ LineBegin(t) = LineBegin(s) /\ Ranked(LineEnds(t))
    BY <1>1, <1>2, <1>10, LineGoesOn
  <2>3. LineBegin(s) = Len(s) + 2
    BY <2>1 DEF Read
  <2>4. Rest(t) = <<>>
    <3>1. LineBegin(t) > Len(t)
      BY <1>2, <2>2, <2>3
    <3> QED BY <1>2, <2>2, <3>1, RestGrows
  <2>5. req2.headers = req.headers
    BY <1>3, <1>10, <2>1, LateKeepsLine
  <2>6. LateMeans(st2, req2.headers, lines, <<>>)
    BY <1>5, <1>6, <2>1, <2>5 DEF LateMeans, AfterCR
  <2> QED BY <1>1, <1>5, <1>7, <2>1, <2>2, <2>4, <2>6 DEF Meant
<1> QED BY <1>8, <1>9, <1>10

\* The byte on which it says good.
LEMMA MeantIsMeaning ==
    ASSUME NEW s \in Seq(Byte), NEW req \in Request, Read("expecting_newline_3", req.headers, s),
           Meant("expecting_newline_3", req, LinesOf(s), Rest(s))
    PROVE  req = Meaning(Append(s, "LF"))
<1>0. PICK b \in Byte : b = "LF"
  BY DEF Byte
<1>1. PICK t, lines, l : t = Append(s, b) /\ lines = LinesOf(s) /\ l = lines[1]
  OBVIOUS
<1>2. /\ Ranked(LineEnds(s)) /\ lines \in Seq(Seq(Byte))
      /\ Shape("expecting_newline_3", req.headers, lines, Rest(s))
  BY <1>1 DEF Read
<1>3. PICK good \in Seq(Seq(Byte)) : GoodLines(good) /\ lines = Append(good, <<>>)
  BY <1>2 DEF Shape, LateShape, EarlyStates
<1>4. l \in Seq(Byte)
  <2>1. 1 \in 1..Len(lines)
    BY <1>3 DEF GoodLines
  <2> QED BY <1>1, <1>2, <2>1
<1>5. LinesOf(t) = lines
  BY <1>0, <1>1, <1>2, LineGoesOn
<1>6. FirstLineIsMeant(req, l) /\ req.headers = HeadersOf(lines)
  BY <1>1 DEF Meant, LateMeans, EarlyStates, AfterCR
<1>7. PICK sp, uri, sp2, v, dot : LineGives(req, l, sp, uri, sp2, v, dot)
  BY <1>4, <1>6, LineIsMeant
<1>8. Meaning(t) = [ method  |-> SubSeq(l, 1, sp - 1),
                     uri     |-> SubSeq(uri, 1, sp2 - 1),
                     major   |-> Ones(dot - 6),
                     minor   |-> Ones(Len(v) - dot),
                     headers |-> HeadersOf(lines) ]
  BY <1>1, <1>5, <1>7, ZenonT(30) DEF Meaning, LineGives
<1>9. req = [ method |-> req.method, uri |-> req.uri, major |-> req.major,
               minor |-> req.minor, headers |-> req.headers ]
  BY DEF Request
<1> QED BY <1>0, <1>1, <1>6, <1>7, <1>8, <1>9, Zenon DEF LineGives

\* The inductive invariant: the request holds what has been read so far.
MeantInv ==
    /\ result = "indeterminate" => Meant(state, request, LinesOf(input), Rest(input))
    /\ result = "good" => request = Meaning(input)

LEMMA InitMeantInv == Init => MeantInv
<1> SUFFICES ASSUME Init PROVE MeantInv
  OBVIOUS
<1>1. /\ state = "method_start" /\ result = "indeterminate" /\ input = <<>>
      /\ request.method = <<>> /\ request.uri = <<>>
  BY DEF Init
<1>2. LinesOf(input) = <<>> /\ Rest(input) = <<>>
  BY <1>1, NoLines
<1>3. EarlyMeans("method_start", request, <<>>)
  BY <1>1 DEF EarlyMeans
<1>4. Meant("method_start", request, <<>>, <<>>)
  BY <1>3 DEF Meant, EarlyStates
<1> QED BY <1>1, <1>2, <1>4 DEF MeantInv

LEMMA NextMeantInv == IInv /\ GrammarInv /\ MeantInv /\ [Next]_vars => MeantInv'
<1> SUFFICES ASSUME IInv, GrammarInv, MeantInv, [Next]_vars PROVE MeantInv'
  OBVIOUS
<1>1. ASSUME NEW b \in Byte, Feed(b) PROVE MeantInv'
  <2>1. PICK a : a = Consume(state, request, b)
    OBVIOUS
  <2>2. /\ result = "indeterminate" /\ input' = Append(input, b) /\ state' = a.state
        /\ request' = a.request /\ result' = a.result
    BY <1>1, <2>1 DEF Feed
  <2>3. input \in Seq(Byte) /\ Fits(state, request)
    BY <2>2 DEF IInv
  <2>4. Read(state, request.headers, input)
    BY <2>2 DEF GrammarInv
  <2>5. Meant(state, request, LinesOf(input), Rest(input))
    BY <2>2 DEF MeantInv
  <2>6. CASE a.result = "indeterminate"
    <3>1. Meant(a.state, a.request, LinesOf(Append(input, b)), Rest(Append(input, b)))
      BY <2>1, <2>3, <2>4, <2>5, <2>6, MeantGoesOn
    <3> QED BY <2>2, <2>6, <3>1 DEF MeantInv
  <2>7. CASE a.result = "good"
    <3>1. state = "expecting_newline_3" /\ b = "LF"
      BY <2>1, <2>3, <2>7, ConsumeMoves DEF Verdict
    <3>2. a.request = request
      BY <2>1, <2>3, <2>7, ConsumeBuilds
    <3>3. request = Meaning(Append(input, b))
      BY <2>3, <2>4, <2>5, <3>1, MeantIsMeaning DEF Fits
    <3> QED BY <2>2, <2>7, <3>2, <3>3 DEF MeantInv
  <2>8. CASE a.result = "bad"
    BY <2>2, <2>8 DEF MeantInv
  <2>9. a.result \in {"indeterminate", "good", "bad"}
    BY <2>1, <2>3, ConsumeMoves DEF Verdict
  <2> QED BY <2>6, <2>7, <2>8, <2>9
<1>2. CASE UNCHANGED vars
  BY <1>2 DEF MeantInv, vars
<1> QED
  BY <1>1, <1>2 DEF Next

\* When the parser says good, the request it has put together, byte by byte,
\* is the one that the whole text stands for: the method, the URI, version
\* numbers of any length, and each header with every line that continues it.
THEOREM RequestsAreMeant == Spec => []RequestIsMeaning
<1>1. MeantInv => RequestIsMeaning
  BY DEF MeantInv, RequestIsMeaning
<1> QED
  BY <1>1, InitIInv, NextIInv, InitGrammarInv, NextGrammarInv, InitMeantInv, NextMeantInv,
     PTL DEF Spec
=============================================================================
