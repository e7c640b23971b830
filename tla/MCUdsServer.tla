---------------------------- MODULE MCUdsServer ----------------------------
(***************************************************************************)
(* Instances of UdsServer for TLC.                                         *)
(***************************************************************************)
EXTENDS UdsServer, TLC

CONSTANTS p1, p2, p3, n1, n2, d1, d2

\* Of three pods two share their name, in two namespaces; the name of the third does
\* not fit the message buffer, and is cut to theirs.
MCNames  == {n1, n2}
ThreePods == {p1, p2, p3}
PodNames == p1 :> n1 @@ p2 :> n2 @@ p3 :> n2
LongName == n1 :> n2 @@ n2 :> n2

\* One pod, and names that fit.
OnePod    == {p1}
OnePodName == p1 :> n1
ShortNames == n1 :> n1 @@ n2 :> n2

\* Not listed, the served device, another one, both in one container, and in two; and
\* no device of this type.
Holding    == {{}, {{d1}}, {{d2}}, {{d1, d2}}, {{d1}, {d2}}}
MCHoldings == Holding \cup {{{}}}

Msg(k, a, f) == [kind |-> k, arg |-> a, fd |-> f]
Connect(n)   == Msg("connect", n, FALSE)
AskFd(d)     == Msg("fd", d, FALSE)
Ask(k)       == Msg(k, None, FALSE)
Poll(k, f)   == Msg(k, None, f)

\* What a client that follows the protocol sends, and what it may get wrong.
Protocol == {Connect(n1), Connect(n2), AskFd(d1), AskFd(d2), Ask("version"),
             Poll("busyPoll", TRUE), Ask("fin")}
Garbled  == {Ask("connectBad"), Ask("fdBad"), Ask("other"),
             Poll("busyPollText", TRUE), Poll("busyPollBad", TRUE)}
NoDescriptor == {Poll(k, FALSE) : k \in PollKinds}

AllAsks  == Protocol \cup Garbled \cup NoDescriptor
TwoAsks  == {Connect(n1), Connect(n2), AskFd(d1), AskFd(d2)}
PollAsks == {Connect(n1), Poll("busyPoll", TRUE)} \cup NoDescriptor
============================================================================
