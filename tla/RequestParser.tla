---------------------------- MODULE RequestParser ----------------------------
(***************************************************************************)
(* The HTTP request parser that http_server1 to http_server4 share, a      *)
(* machine of twenty states that is fed one byte at a time and fills in a  *)
(* request.  It keeps its state from one buffer to the next, so how the    *)
(* network cuts a request into buffers makes no difference to it.          *)
(***************************************************************************)
EXTENDS RequestGrammar

CONSTANT
    MaxDetours    \* bound: bytes in which a text departs from a plain one

ASSUME MaxDetoursAssumption == MaxDetours \in Nat

VARIABLES
    state,     \* request_parser::state_
    request,   \* the request that consume fills in
    result,    \* the last result of consume
    input,     \* every byte consumed so far
    detours    \* how often the input has departed from a plain text

vars == <<state, request, result, input, detours>>

-----------------------------------------------------------------------------
(* Classes of bytes.  A byte above 127 is negative as a char: neither      *)
(* is_char nor is_ctl holds of it.                                         *)

IsChar(b) == b # "HI"

\* Mutant: is_ctl takes a byte above 127 for a control character.
IsCtlUnsigned(b) == b \in {"HT", "CR", "LF", "NUL", "HI"}

IsCtl(b) == b \in {"HT", "CR", "LF", "NUL"}

IsTspecial(b) == b \in {"/", ":", "SP", "HT"}

IsDigit(b) == b = "1"

IsToken(b) == IsChar(b) /\ ~IsCtl(b) /\ ~IsTspecial(b)

Digit(b) == IF b = "1" THEN 1 ELSE 0

-----------------------------------------------------------------------------
(* consume: what state, request and result become.                         *)

To(st, req) == [state |-> st, request |-> req, result |-> "indeterminate"]

Good(st, req) == [state |-> st, request |-> req, result |-> "good"]

Bad(st, req) == [state |-> st, request |-> req, result |-> "bad"]

\* The states that let a single byte pass, and where it leads.
Literal ==
    [ http_version_h            |-> <<"H", "http_version_t_1">>,
      http_version_t_1          |-> <<"T", "http_version_t_2">>,
      http_version_t_2          |-> <<"T", "http_version_p">>,
      http_version_p            |-> <<"P", "http_version_slash">>,
      expecting_newline_1       |-> <<"LF", "header_line_start">>,
      space_before_header_value |-> <<"SP", "header_value">>,
      expecting_newline_2       |-> <<"LF", "header_line_start">> ]

AddName(req, b) == [req EXCEPT !.headers[Len(req.headers)].name = Append(@, b)]

AddValue(req, b) == [req EXCEPT !.headers[Len(req.headers)].value = Append(@, b)]

NewHeader(req, b) ==
    [req EXCEPT !.headers = Append(@, [name |-> <<b>>, value |-> <<>>])]

\* Mutant: a continuation line is accepted before there is a header.
HeaderLineStartAnyLws(req, b) ==
    CASE b = "CR"           -> To("expecting_newline_3", req)
      [] b \in {"SP", "HT"} -> To("header_lws", req)
      [] IsToken(b)         -> To("header_name", NewHeader(req, b))
      [] OTHER              -> Bad("header_line_start", req)

HeaderLineStart(req, b) ==
    CASE b = "CR" -> To("expecting_newline_3", req)
      [] b \in {"SP", "HT"} /\ req.headers # <<>> -> To("header_lws", req)
      [] IsToken(b) -> To("header_name", NewHeader(req, b))
      [] OTHER -> Bad("header_line_start", req)

\* Mutant: the first byte after the blanks of a continuation line is lost.
HeaderLwsSkips(req, b) ==
    CASE b = "CR" -> To("expecting_newline_2", req)
      [] b \in {"SP", "HT"} -> To("header_lws", req)
      [] IsCtl(b) /\ b \notin {"CR", "HT"} -> Bad("header_lws", req)
      [] OTHER -> To("header_value", req)

HeaderLws(req, b) ==
    CASE b = "CR" -> To("expecting_newline_2", req)
      [] b \in {"SP", "HT"} -> To("header_lws", req)
      [] IsCtl(b) /\ b \notin {"CR", "HT"} -> Bad("header_lws", req)
      [] OTHER -> To("header_value", AddValue(req, b))

Consume(st, req, b) ==
    CASE st \in DOMAIN Literal ->
            IF b = Literal[st][1] THEN To(Literal[st][2], req) ELSE Bad(st, req)
      [] st = "method_start" ->
            IF IsToken(b) THEN To("method", [req EXCEPT !.method = Append(@, b)])
                          ELSE Bad(st, req)
      [] st = "method" ->
            CASE b = "SP"   -> To("uri", req)
              [] IsToken(b) -> To(st, [req EXCEPT !.method = Append(@, b)])
              [] OTHER      -> Bad(st, req)
      [] st = "uri" ->
            CASE b = "SP"  -> To("http_version_h", req)
              [] IsCtl(b)  -> Bad(st, req)
              [] OTHER     -> To(st, [req EXCEPT !.uri = Append(@, b)])
      [] st = "http_version_slash" ->
            IF b = "/"
            THEN To("http_version_major_start", [req EXCEPT !.major = 0, !.minor = 0])
            ELSE Bad(st, req)
      [] st \in {"http_version_major_start", "http_version_major"} ->
            CASE IsDigit(b) -> To("http_version_major",
                                  [req EXCEPT !.major = @ * 10 + Digit(b)])
              [] b = "." /\ st = "http_version_major" ->
                               To("http_version_minor_start", req)
              [] OTHER      -> Bad(st, req)
      [] st \in {"http_version_minor_start", "http_version_minor"} ->
            CASE IsDigit(b) -> To("http_version_minor",
                                  [req EXCEPT !.minor = @ * 10 + Digit(b)])
              [] b = "CR" /\ st = "http_version_minor" ->
                               To("expecting_newline_1", req)
              [] OTHER      -> Bad(st, req)
      [] st = "header_line_start" -> HeaderLineStart(req, b)
      [] st = "header_lws" -> HeaderLws(req, b)
      [] st = "header_name" ->
            CASE b = ":"    -> To("space_before_header_value", req)
              [] IsToken(b) -> To(st, AddName(req, b))
              [] OTHER      -> Bad(st, req)
      [] st = "header_value" ->
            CASE b = "CR" -> To("expecting_newline_2", req)
              [] IsCtl(b) /\ b # "CR" -> Bad(st, req)
              [] OTHER -> To(st, AddValue(req, b))
      [] st = "expecting_newline_3" ->
            IF b = "LF" THEN Good(st, req) ELSE Bad(st, req)

-----------------------------------------------------------------------------
(* The machine: a connection feeds the parser what it reads, a byte at a   *)
(* time, as long as the result is indeterminate.                           *)

\* The version numbers of a request are not initialised: they start as
\* whatever the memory holds, here either of two values.
Init ==
    /\ state = "method_start"
    /\ \E junk \in {0, 7} :
          request = [method |-> <<>>, uri |-> <<>>, major |-> junk, minor |-> junk,
                     headers |-> <<>>]
    /\ result = "indeterminate"
    /\ input = <<>>
    /\ detours = 0

\* The byte by which a plain text, with one header and no field longer than
\* it must be, leaves each state.  Every other byte, those that make a field,
\* a number or the text longer included, is a detour.
Plain ==
    CASE state \in DOMAIN Literal -> Literal[state][1]
      [] state = "method_start" -> "H"
      [] state \in {"method", "uri"} -> "SP"
      [] state = "http_version_slash" -> "/"
      [] state \in {"http_version_major_start", "http_version_minor_start"} -> "1"
      [] state = "http_version_major" -> "."
      [] state = "header_line_start" /\ request.headers = <<>> -> "H"
      [] state = "header_name" -> ":"
      [] state = "expecting_newline_3" -> "LF"
      [] OTHER -> "CR"

Feed(b) ==
    /\ result = "indeterminate"
    /\ detours' = detours + (IF b = Plain THEN 0 ELSE 1)
    /\ detours' <= MaxDetours
    /\ LET after == Consume(state, request, b)
       IN  /\ state' = after.state
           /\ request' = after.request
           /\ result' = after.result
    /\ input' = Append(input, b)

Next == \E b \in Byte : Feed(b)

Spec == Init /\ [][Next]_vars

-----------------------------------------------------------------------------
(* Properties.                                                             *)

\* The states that request_parser::state lists; where a state adds to the
\* last header, there is one.
TypeOK ==
    /\ state \in DOMAIN Literal \cup
          {"method_start", "method", "uri", "http_version_slash",
           "http_version_major_start", "http_version_major",
           "http_version_minor_start", "http_version_minor", "header_line_start",
           "header_lws", "header_name", "header_value", "expecting_newline_3"}
    /\ result \in {"good", "bad", "indeterminate"}
    /\ input \in Seq(Byte)
    /\ detours \in 0..MaxDetours
    /\ state \in {"header_lws", "header_name", "header_value",
                  "space_before_header_value", "expecting_newline_2"}
          => request.headers # <<>>

\* The parser says "good" exactly when what it has read is a request of the
\* grammar, at the byte that completes it.
GoodIsValid == (result = "good") <=> Valid(input)

\* It says "bad" as soon as nothing that follows could complete the request,
\* and not before: a client that sends the rest later is not turned away.
VerdictIsTimely == (result = "bad") <=> ~CanBecomeValid(input) /\ result # "good"

\* The request it has put together is the one that the text stands for, its
\* continued header values and its version numbers included.
RequestIsMeaning == result = "good" => request = Meaning(input)
=============================================================================
