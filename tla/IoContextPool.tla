---------------------------- MODULE IoContextPool ----------------------------
(***************************************************************************)
(* The io_context_pool of examples/c++11/http_server2: as many io_contexts *)
(* as main asks for, which get_io_context hands out in turn.               *)
(***************************************************************************)
EXTENDS Naturals

VARIABLES
    size,       \* io_contexts_.size()
    next,       \* next_io_context_
    given       \* history: how often get_io_context has returned each io_context

poolVars == <<size, next, given>>

Context == 0..(size - 1)

\* Mutant: the round robin leaves out the last io_context.
NextTurnShort(i) == IF i + 2 >= size THEN 0 ELSE i + 1

NextTurn(i) == IF i + 1 = size THEN 0 ELSE i + 1

\* What it returns is the io_context that was next before.
GetIoContext ==
    /\ next' = NextTurn(next)
    /\ given' = [given EXCEPT ![next] = @ + 1]
    /\ UNCHANGED size

-----------------------------------------------------------------------------
(* Properties.                                                             *)

\* The round robin favours no io_context: at any time one has been handed out
\* at most once more than another, across failed accepts and the wrap at the
\* end of the pool, also when there is only one.
IoContextsAreSpread ==
    /\ next \in Context
    /\ \A j, k \in Context : given[j] <= given[k] + 1
=============================================================================
