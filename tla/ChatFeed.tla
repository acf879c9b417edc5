------------------------------- MODULE ChatFeed -------------------------------
(***************************************************************************)
(* What the chat server promises, without sockets, sessions or handlers: a *)
(* conversation to which messages are added, and for each reader a feed:   *)
(* the last few messages said before it joined and, while it is a member,  *)
(* everything said after that.  A reader sees its feed in order; it stops  *)
(* seeing more once it is cut off.                                         *)
(***************************************************************************)
EXTENDS Naturals, Sequences

CONSTANTS
    Reader,    \* who may join
    Message,   \* what may be said
    Replay     \* how many earlier messages a new member is given

VARIABLES
    conversation,  \* everything said so far
    members,       \* readers that are in the room
    cut,           \* readers whose connection has failed
    feed,          \* what each reader is to see
    seen           \* what each reader has seen: a prefix of its feed

vars == <<conversation, members, cut, feed, seen>>

Init ==
    /\ conversation = <<>>
    /\ members = {}
    /\ cut = {}
    /\ feed = [r \in Reader |-> <<>>]
    /\ seen = [r \in Reader |-> <<>>]

LastOf(ms, n) == IF Len(ms) > n THEN SubSeq(ms, Len(ms) - n + 1, Len(ms)) ELSE ms

Join(r) ==
    /\ r \notin members
    /\ feed[r] = <<>>
    /\ members' = members \cup {r}
    /\ feed' = [feed EXCEPT ![r] = LastOf(conversation, Replay)]
    /\ UNCHANGED <<conversation, cut, seen>>

Leave(r) ==
    /\ r \in members
    /\ members' = members \ {r}
    /\ UNCHANGED <<conversation, cut, feed, seen>>

\* Anyone may speak, a reader that has left included.
Say(m) ==
    /\ conversation' = Append(conversation, m)
    /\ feed' = [r \in Reader |->
                   IF r \in members \ cut THEN Append(feed[r], m) ELSE feed[r]]
    /\ UNCHANGED <<members, cut, seen>>

See(r) ==
    /\ Len(seen[r]) < Len(feed[r])
    /\ seen' = [seen EXCEPT ![r] = Append(@, feed[r][Len(@) + 1])]
    /\ UNCHANGED <<conversation, members, cut, feed>>

\* The rest of the feed is lost.
CutOff(r) ==
    /\ cut' = cut \cup {r}
    /\ feed' = [feed EXCEPT ![r] = seen[r]]
    /\ UNCHANGED <<conversation, members, seen>>

Next ==
    \/ \E m \in Message : Say(m)
    \/ \E r \in Reader : Join(r) \/ Leave(r) \/ See(r) \/ CutOff(r)

Safety == Init /\ [][Next]_vars

\* A reader that is not cut off gets to see its feed.
Fairness == \A r \in Reader : WF_vars(See(r))

Spec == Safety /\ Fairness
=============================================================================
