-------------------------- MODULE UdsServer_proofs --------------------------
(***************************************************************************)
(* Proofs about UdsServer, for every number of clients, pods and devices,  *)
(* every buffer size and every bound on what the clients send.             *)
(***************************************************************************)
EXTENDS UdsServer, FiniteSetTheorems, SequenceTheorems, TLAPS

USE UdsAssumption

\* Trust comes with a proof that names exactly the served devices.
TrustProved == trusted # NoPod => proof = Served /\ conn \in Clients

\* The loop runs for a trusted client; up to the verdict nobody is trusted.
TrustPlaced ==
  /\ pc = "read" \/ (pc = "write" /\ after = "read") => trusted # NoPod
  /\ pc \in {"start", "accept", "readConnect", "validate"} => trusted = NoPod
  /\ pc \in {"start", "accept"} => conn = NoClient

\* A descriptor waiting to be written is one of the served devices.
PendingGrants ==
  \A i \in DOMAIN out :
    out[i].msg = "/fd_ack" => /\ trusted # NoPod
                              /\ after = "read"
                              /\ out[i].dev \in Served

GrantsBounded ==
  \A c \in Clients :
    granted[c] # {} => c = conn /\ trusted # NoPod /\ granted[c] \subseteq Served

IInv ==
  TypeOK /\ TrustProved /\ TrustPlaced /\ PendingGrants
    /\ GrantsBounded

-----------------------------------------------------------------------------
\* As many devices as are served, all of them served: the served devices.
LEMMA MatchIsExact ==
  ASSUME NEW devs, Matches(devs)
  PROVE  devs = Served
<1>1. IsFiniteSet(Served)
  BY FS_Subset
<1>2. QED
  BY <1>1, FS_Subset DEF Matches

\* Whatever the kernel does, the ladder returns an int and leaves a socket.
LEMMA LadderType ==
  ASSUME NEW s \in Socket, NEW ok \in Kernel
  PROVE  /\ Configure_busy_poll(s, ok).ret \in {0, 1}
         /\ Configure_busy_poll(s, ok).sock \in Socket
BY DEF Configure_busy_poll, RestoreBusyPoll, ErrTimeout, Socket, Kernel

\* Reading takes a request off the queue of the one connection.
LEMMA ReadType ==
  ASSUME TypeOK, pc \in {"readConnect", "read"},
         NEW r, Read(r)
  PROVE  /\ r \in Request
         /\ req' \in Request
         /\ reqs' \in [Clients -> Seq(Request)]
         /\ answers' \in Nat
<1>1. conn \in Clients /\ reqs[conn] \in Seq(Request) /\ reqs[conn] # <<>>
  BY DEF TypeOK, Read
<1>2. Head(reqs[conn]) \in Request /\ Tail(reqs[conn]) \in Seq(Request)
  BY <1>1, HeadTailProperties
<1>3. QED
  BY <1>1, <1>2 DEF TypeOK, Read

\* An answer made of a known word is an answer.
LEMMA AnswerType ==
  ASSUME NEW msg \in Words
  PROVE  /\ Fatal(msg) \in Answer
         /\ Logged(msg) \in Answer
         /\ Fatal(msg).msg = msg /\ Logged(msg).msg = msg
         /\ \A d \in Devices : [Fatal(msg) EXCEPT !.dev = d] \in Answer
BY DEF Fatal, Logged, Answer

\* The invariant holds when the goroutine is created.
LEMMA InitIInv == Init => IInv
<1> SUFFICES ASSUME Init PROVE IInv
  OBVIOUS
<1>1. TypeOK
  <2>1. pods \in [Pods -> SUBSET SUBSET Devices]
    BY DEF Init
  <2>2. /\ <<>> \in Seq(Request) /\ <<>> \in Seq(Response) /\ <<>> \in Seq(Answer)
        /\ DefaultSocket \in Socket
    BY DEF Socket, DefaultSocket
  <2>3. QED
    BY <2>1, <2>2 DEF Init, TypeOK
<1>2. TrustProved /\ TrustPlaced /\ PendingGrants /\ GrantsBounded
  BY DEF Init, TrustProved, TrustPlaced, PendingGrants,
         GrantsBounded
<1>3. QED
  BY <1>1, <1>2 DEF IInv

\* A process that dies, and a socket that fails, take nothing back.
LEMMA EndKeeps ==
  ASSUME IInv, Die \/ SocketFails
  PROVE  IInv'
<1>1. CASE Die
  <2>1. /\ [c \in Clients |-> <<>>] \in [Clients -> Seq(Request)]
        /\ <<>> \in Seq(Answer)
    OBVIOUS
  <2>2. TypeOK'
    BY <1>1, <2>1 DEF Die, IInv, TypeOK, history
  <2>3. QED
    BY <1>1, <2>2 DEF Die, IInv, history, TrustProved, TrustPlaced, PendingGrants,
       GrantsBounded
<1>2. CASE SocketFails
  BY <1>2 DEF SocketFails, IInv, TypeOK, sockVars, history,
     TrustProved, TrustPlaced, PendingGrants, GrantsBounded
<1>3. QED
  BY <1>1, <1>2

\* Steps of the clients and of the kubelet leave the goroutine alone.
LEMMA EnvironmentStep ==
  ASSUME IInv, Environment
  PROVE  IInv'
<1> USE DEF IInv
<1>1. ASSUME NEW c \in Clients, ClientStep(c) PROVE IInv'
  <2>1. TypeOK'
    <3>1. CASE Dial(c)
      BY <3>1 DEF Dial, TypeOK, serverVars, history
    <3>2. ASSUME NEW m \in Asks, Send(c, m) PROVE TypeOK'
      BY <3>2, AppendProperties DEF Send, TypeOK, serverVars, history
    <3>3. CASE Receive(c)
      <4>1. Tail(resps[c]) \in Seq(Response)
        BY <3>3, HeadTailProperties DEF Receive, TypeOK
      <4>2. QED
        BY <3>3, <4>1 DEF Receive, TypeOK, serverVars, history
    <3>4. CASE HangUp(c)
      BY <3>4 DEF HangUp, TypeOK, serverVars, history
    <3>5. QED
      BY <1>1, <3>1, <3>2, <3>3, <3>4 DEF ClientStep
  <2>2. UNCHANGED <<serverVars, history>>
    BY <1>1 DEF ClientStep, Dial, Send, Receive, HangUp
  <2>3. QED
    BY <2>1, <2>2 DEF serverVars, history, TrustProved,
       TrustPlaced, PendingGrants, GrantsBounded
<1>2. ASSUME NEW p \in Pods, PodChange(p) PROVE IInv'
  BY <1>2 DEF PodChange, TypeOK, sockVars, serverVars, history,
     TrustProved, TrustPlaced, PendingGrants, GrantsBounded
<1>3. CASE PluginStops \/ SocketFails
  BY <1>3, EndKeeps DEF PluginStops
<1>4. QED
  BY <1>1, <1>2, <1>3 DEF Environment

\* Answers that carry no descriptor grant nothing.
Harmless(msgs) ==
  /\ msgs \in Seq(Answer)
  /\ \A i \in DOMAIN msgs : msgs[i].msg # "/fd_ack"

\* One answer without a descriptor is harmless.
LEMMA HarmlessOne ==
  ASSUME NEW a \in Answer, a.msg # "/fd_ack"
  PROVE  Harmless(<<a>>)
BY DEF Harmless

\* Harmless answers in a row are harmless.
LEMMA HarmlessConcat ==
  ASSUME NEW m, NEW n, Harmless(m), Harmless(n)
  PROVE  Harmless(m \o n)
<1>1. /\ m \o n \in Seq(Answer)
      /\ Len(m \o n) = Len(m) + Len(n)
      /\ \A i \in 1 .. Len(m) + Len(n) :
           (m \o n)[i] = IF i <= Len(m) THEN m[i] ELSE n[i - Len(m)]
  BY ConcatProperties DEF Harmless
<1>2. ASSUME NEW i \in DOMAIN (m \o n) PROVE (m \o n)[i].msg # "/fd_ack"
  <2>1. i \in 1 .. Len(m) + Len(n) /\ Len(m) \in Nat /\ Len(n) \in Nat
    BY <1>1, LenProperties DEF Harmless
  <2>2. CASE i <= Len(m)
    <3>1. i \in DOMAIN m
      BY <2>1, <2>2, LenProperties DEF Harmless
    <3>2. QED
      BY <1>1, <2>1, <2>2, <3>1 DEF Harmless
  <2>3. CASE ~(i <= Len(m))
    <3>1. i - Len(m) \in DOMAIN n
      BY <2>1, <2>3, LenProperties DEF Harmless
    <3>2. QED
      BY <1>1, <2>1, <2>3, <3>1 DEF Harmless
  <2>4. QED
    BY <2>2, <2>3
<1>3. QED
  BY <1>1, <1>2 DEF Harmless

\* A refusal is one harmless answer or none.
LEMMA RefusalHarmless ==
  ASSUME NEW r
  PROVE  Harmless(Refusal(r))
<1>1. CASE r.fd
  BY <1>1 DEF Refusal, Harmless
<1>2. CASE ~r.fd
  <2>1. /\ Fatal("/config_busy_poll_nak") \in Answer
        /\ Fatal("/config_busy_poll_nak").msg # "/fd_ack"
    BY AnswerType DEF Words
  <2>2. QED
    BY <1>2, <2>1, HarmlessOne DEF Refusal
<1>3. QED
  BY <1>1, <1>2

\* The state a handler of the loop leaves when it grants nothing.
LEMMA HandledStep ==
  ASSUME IInv, pc = "read", NEW r, Read(r), xsk' \in Socket,
         \/ \E msgs, next : /\ Harmless(msgs) /\ next \in {"read", "cleanup"}
                            /\ Reply(msgs, next)
         \/ pc' = "cleanup" /\ UNCHANGED <<out, after>>
  PROVE  IInv'
<1> USE DEF IInv
<1>1. /\ req' \in Request /\ reqs' \in [Clients -> Seq(Request)]
      /\ answers' \in Nat
  BY ReadType
<1>2. UNCHANGED <<sockFile, cst, resps, conn, pods, trusted, proof, granted>>
  BY DEF Read
<1>3. TypeOK'
  BY <1>1, <1>2 DEF TypeOK, Reply, Harmless
<1>4. trusted # NoPod
  BY DEF TrustPlaced
<1>5. TrustProved' /\ TrustPlaced' /\ GrantsBounded'
  BY <1>2, <1>4 DEF TypeOK, TrustProved, TrustPlaced, GrantsBounded, Reply
<1>6. PendingGrants'
  BY <1>2 DEF PendingGrants, Reply, Harmless
<1>7. QED
  BY <1>3, <1>5, <1>6

\* One step of the loop, a case of the switch at a time.
LEMMA RequestStep ==
  ASSUME IInv, NEW r \in Asks, ReadRequest(r)
  PROVE  IInv'
<1> USE DEF IInv
<1>1. CASE ReadVersion(r)
  <2>1. Harmless(<<Fatal("0.1")>>)
    BY AnswerType, HarmlessOne DEF Words
  <2>2. xsk' \in Socket
    BY <1>1 DEF ReadVersion, TypeOK
  <2>3. QED
    BY <1>1, <2>1, <2>2, HandledStep DEF ReadVersion
<1>2. CASE ReadFin(r)
  <2>1. Harmless(<<Fatal("/fin_ack")>>)
    BY AnswerType, HarmlessOne DEF Words
  <2>2. xsk' \in Socket
    BY <1>2 DEF ReadFin, TypeOK
  <2>3. QED
    BY <1>2, <2>1, <2>2, HandledStep DEF ReadFin
<1>3. CASE ReadOther(r)
  <2>1. Harmless(<<Fatal("/nak")>>)
    BY AnswerType, HarmlessOne DEF Words
  <2>2. xsk' \in Socket
    BY <1>3 DEF ReadOther, TypeOK
  <2>3. QED
    BY <1>3, <2>1, <2>2, HandledStep DEF ReadOther
<1>4. CASE ReadFd(r)
  <2>1. xsk' \in Socket /\ pc = "read" /\ Read(r)
    BY <1>4 DEF ReadFd, TypeOK
  <2>2. CASE r.kind = "fdBad"
    <3>1. Harmless(<<Fatal("/nak")>>)
      BY AnswerType, HarmlessOne DEF Words
    <3>2. QED
      BY <1>4, <2>1, <2>2, <3>1, HandledStep DEF ReadFd
  <2>3. CASE r.kind = "fd" /\ r.arg \notin Served
    <3>1. Harmless(<<Fatal("/fd_nak")>>)
      BY AnswerType, HarmlessOne DEF Words
    <3>2. QED
      BY <1>4, <2>1, <2>3, <3>1, HandledStep DEF ReadFd
  <2>4. CASE r.kind = "fd" /\ r.arg \in Served
    <3> DEFINE a == [Fatal("/fd_ack") EXCEPT !.dev = r.arg]
    <3>1. Reply(<<a>>, "read") /\ a \in Answer /\ a.dev = r.arg
      BY <1>4, <2>4, AnswerType DEF ReadFd, Words, Fatal
    <3> HIDE DEF a
    <3>2. /\ req' \in Request /\ reqs' \in [Clients -> Seq(Request)]
          /\ answers' \in Nat
      BY <2>1, ReadType
    <3>3. UNCHANGED <<sockFile, cst, resps, conn, pods, trusted, proof,
                      granted>>
      BY <2>1 DEF Read
    <3>4. out' = <<a>> /\ after' = "read" /\ pc' = "write"
      BY <3>1 DEF Reply
    <3>5. trusted # NoPod
      BY <2>1 DEF TrustPlaced
    <3>6. TypeOK'
      BY <2>1, <3>1, <3>2, <3>3, <3>4 DEF TypeOK
    <3>7. TrustProved' /\ TrustPlaced' /\ GrantsBounded'
      BY <2>1, <3>3, <3>4, <3>5 DEF TypeOK, TrustProved, TrustPlaced,
         GrantsBounded
    <3>8. PendingGrants'
      BY <2>4, <3>1, <3>3, <3>4, <3>5 DEF PendingGrants
    <3>9. QED
      BY <3>6, <3>7, <3>8
  <2>5. QED
    BY <1>4, <2>2, <2>3, <2>4 DEF ReadFd
<1>5. CASE ReadBusyPoll(r)
  <2>1. /\ Harmless(Refusal(r))
        /\ Harmless(Refusal(r) \o <<Fatal("/nak")>>)
        /\ Harmless(Refusal(r) \o <<Logged("/config_busy_poll_nak")>>)
        /\ Harmless(<<Logged("/config_busy_poll_ack")>>)
        /\ Harmless(<<Logged("/config_busy_poll_nak")>>)
    BY AnswerType, HarmlessOne, RefusalHarmless, HarmlessConcat DEF Words
  <2>2. xsk' \in Socket
    BY <1>5, LadderType DEF ReadBusyPoll, TypeOK
  <2>3. QED
    BY <1>5, <2>1, <2>2, HandledStep DEF ReadBusyPoll
<1>6. QED
  BY <1>1, <1>2, <1>3, <1>4, <1>5 DEF ReadRequest

\* Every step of the goroutine keeps the invariant.
LEMMA ServerStepKeeps ==
  ASSUME IInv, ServerStep
  PROVE  IInv'
<1> USE DEF IInv
<1>1. CASE Listen \/ ListenFails
  <2>1. TypeOK'
    <3>1. pc' \in {"accept", "cleanup"} /\ sockFile' \in BOOLEAN
      BY <1>1 DEF Listen, ListenFails, TypeOK
    <3>2. UNCHANGED <<cst, reqs, resps, conn, req, out, after, pods, xsk,
                      history>>
      BY <1>1 DEF Listen, ListenFails
    <3>3. QED
      BY <3>1, <3>2 DEF TypeOK, history
  <2>2. TrustProved' /\ TrustPlaced'
    BY <1>1 DEF Listen, ListenFails, TypeOK, history, TrustProved, TrustPlaced
  <2>3. PendingGrants' /\ GrantsBounded'
    BY <1>1 DEF Listen, ListenFails, history, PendingGrants, GrantsBounded
  <2>4. QED
    BY <2>1, <2>2, <2>3
<1>2. ASSUME NEW c \in Clients, Accept(c) PROVE IInv'
  BY <1>2 DEF Accept, TypeOK, sockVars, history, TrustProved,
     TrustPlaced, PendingGrants, GrantsBounded
<1>3. ASSUME NEW r \in Asks, ReadConnect(r) PROVE IInv'
  <2>1. /\ req' \in Request /\ reqs' \in [Clients -> Seq(Request)]
        /\ answers' \in Nat
    BY <1>3, ReadType DEF ReadConnect
  <2>2. /\ UNCHANGED <<sockFile, cst, resps, conn, pods, trusted, proof,
                       granted, xsk>>
        /\ pc = "readConnect"
    BY <1>3 DEF ReadConnect, Read
  <2>3. Harmless(<<Logged("/host_nak")>>)
    BY AnswerType, HarmlessOne DEF Words
  <2>4. \/ Reply(<<Logged("/host_nak")>>, "cleanup")
        \/ pc' \in {"validate", "cleanup"} /\ UNCHANGED <<out, after>>
    BY <1>3 DEF ReadConnect
  <2>5. TypeOK'
    <3>1. /\ pc' \in {"validate", "write", "cleanup"} /\ after' \in {"read", "cleanup"}
          /\ out' \in Seq(Answer)
      <4>1. CASE Reply(<<Logged("/host_nak")>>, "cleanup")
        BY <2>3, <4>1 DEF Reply, Harmless
      <4>2. CASE pc' \in {"validate", "cleanup"} /\ UNCHANGED <<out, after>>
        BY <4>2 DEF TypeOK
      <4> QED
        BY <2>4, <4>1, <4>2
    <3>2. TypeOK
      OBVIOUS
    <3>3. conn' \in Clients
      BY <2>2, <3>2 DEF TypeOK
    <3> QED
      BY <2>1, <2>2, <3>1, <3>2, <3>3 DEF TypeOK
  <2>6. TrustProved' /\ TrustPlaced' /\ GrantsBounded'
    BY <2>2, <2>4 DEF TypeOK, TrustProved, TrustPlaced, GrantsBounded,
       Reply
  <2>7. PendingGrants'
    BY <2>2, <2>3, <2>4 DEF PendingGrants, Reply, Harmless
  <2>8. QED
    BY <2>5, <2>6, <2>7
<1>4. CASE ValidatePod
  <2>1. Harmless(<<Logged("/host_ok")>>) /\ Harmless(<<Logged("/host_nak")>>)
    BY AnswerType, HarmlessOne DEF Words
  <2>2. UNCHANGED <<sockVars, conn, req, pods, xsk, granted, answers>>
        /\ pc = "validate"
    BY <1>4 DEF ValidatePod
  <2>3. \/ /\ Reply(<<Logged("/host_ok")>>, "read")
           /\ trusted' \in Pods /\ proof' = Served
        \/ /\ Reply(<<Logged("/host_nak")>>, "cleanup")
           /\ UNCHANGED <<trusted, proof>>
    BY <1>4, MatchIsExact DEF ValidatePod, Listed
  <2>4. TypeOK'
    <3>1. out' \in Seq(Answer) /\ pc' = "write" /\ after' \in {"read", "cleanup"}
      BY <2>1, <2>3 DEF Reply, Harmless
    <3>2. trusted' \in Pods \cup {NoPod} /\ proof' \in SUBSET Devices
      BY <2>3 DEF TypeOK
    <3>3. conn' \in Clients
      BY <2>2 DEF TypeOK
    <3>4. QED
      BY <2>2, <3>1, <3>2, <3>3 DEF TypeOK, sockVars
  <2>5. trusted = NoPod /\ conn \in Clients
    BY <2>2 DEF TrustPlaced, TypeOK
  <2>6. TrustProved' /\ TrustPlaced' /\ GrantsBounded'
    BY <2>2, <2>3, <2>5 DEF TypeOK, TrustProved, TrustPlaced,
       GrantsBounded, Reply
  <2>7. PendingGrants'
    BY <2>1, <2>2, <2>3 DEF PendingGrants, Reply, Harmless
  <2>8. QED
    BY <2>4, <2>6, <2>7
<1>5. CASE ListError
  <2>1. Harmless(<<Logged("/error"), Logged("/host_nak")>>)
    BY AnswerType DEF Words, Harmless
  <2>2. TypeOK'
    BY <1>5, <2>1 DEF ListError, TypeOK, Reply, Harmless, sockVars, history
  <2>3. TrustProved' /\ TrustPlaced' /\ GrantsBounded'
    BY <1>5 DEF ListError, Reply, TrustProved, TrustPlaced,
       GrantsBounded, history
  <2>4. PendingGrants'
    BY <1>5, <2>1 DEF ListError, PendingGrants, Reply, Harmless, history
  <2>5. QED
    BY <2>2, <2>3, <2>4
<1>6. CASE DialError \/ ReadFails \/ TimesOut
  BY <1>6, EndKeeps DEF DialError, ReadFails, TimesOut, SocketFails
<1>7. CASE Cleanup
  <2>1. [c \in Clients |-> <<>>] \in [Clients -> Seq(Request)]
    OBVIOUS
  <2>2. QED
    BY <1>7, <2>1 DEF Cleanup, TypeOK, history, TrustProved,
       TrustPlaced, PendingGrants, GrantsBounded
<1>8. CASE Write
  <2> DEFINE a == Head(out)
             m == [msg |-> a.msg, dev |-> a.dev]
  <2>1. pc = "write" /\ out # <<>> /\ conn \in Clients /\ out \in Seq(Answer)
    BY <1>8 DEF Write, TypeOK
  <2>2. /\ a \in Answer /\ Tail(out) \in Seq(Answer)
        /\ a = out[1] /\ 1 \in DOMAIN out
        /\ \A i \in DOMAIN Tail(out) : i+1 \in DOMAIN out /\ Tail(out)[i] = out[i+1]
    BY <2>1, HeadTailProperties, LenProperties
  <2>3. m \in Response
    BY <2>2 DEF Answer, Response
  <2>4. a.msg = "/fd_ack" => a.dev \in Served /\ trusted # NoPod
    BY <2>2 DEF PendingGrants
  <2> HIDE DEF a, m
  <2>5. /\ resps' = [resps EXCEPT ![conn] = Append(@, m)]
        /\ granted' = [granted EXCEPT ![conn] =
                         IF a.msg = "/fd_ack" THEN @ \cup {a.dev} ELSE @]
        /\ answers' = answers + 1 /\ out' = Tail(out) /\ pc' = AfterWrite(Tail(out))
        /\ UNCHANGED <<sockFile, cst, reqs, conn, req, after, pods, xsk,
                       trusted, proof>>
    BY <1>8 DEF Write, a, m
  <2>6. pc' \in {"write", after} /\ (pc' = "write" \/ pc' = after)
    BY <2>5 DEF AfterWrite
  <2>7. resps' \in [Clients -> Seq(Response)]
    BY <2>1, <2>3, <2>5, AppendProperties DEF TypeOK
  <2>8. TypeOK'
    <3>1. granted' \in [Clients -> SUBSET Devices]
      BY <2>1, <2>4, <2>5 DEF TypeOK
    <3>2. pc' \in {"write", "read", "cleanup"} /\ conn' \in Clients /\ answers' \in Nat
      BY <2>1, <2>5, <2>6 DEF TypeOK
    <3>3. out' \in Seq(Answer)
      BY <2>2, <2>5
    <3>4. QED
      BY <2>5, <2>7, <3>1, <3>2, <3>3 DEF TypeOK
  <2>9. TrustProved' /\ TrustPlaced'
    BY <2>1, <2>5, <2>6 DEF TypeOK, TrustProved, TrustPlaced, TypeOK
  <2>10. GrantsBounded'
    <3>1. granted \in [Clients -> SUBSET Devices]
      BY DEF TypeOK
    <3>2. SUFFICES ASSUME NEW c \in Clients, granted'[c] # {}
                   PROVE  c = conn /\ trusted # NoPod /\ granted'[c] \subseteq Served
      BY <2>5 DEF GrantsBounded
    <3>3. CASE granted'[c] = granted[c]
      BY <3>2, <3>3 DEF GrantsBounded
    <3>4. CASE c = conn /\ a.msg = "/fd_ack" /\ granted'[c] = granted[c] \cup {a.dev}
      BY <2>4, <3>4 DEF GrantsBounded
    <3>5. QED
      BY <2>1, <2>5, <3>1, <3>3, <3>4
  <2>11. PendingGrants'
    <3>1. SUFFICES ASSUME NEW i \in DOMAIN out', out'[i].msg = "/fd_ack"
                   PROVE  trusted # NoPod /\ after = "read" /\ out'[i].dev \in Served
      BY <2>5 DEF PendingGrants
    <3>2. i+1 \in DOMAIN out /\ out'[i] = out[i+1]
      BY <2>2, <2>5
    <3>3. QED
      BY <3>1, <3>2 DEF PendingGrants
  <2>12. QED
    BY <2>8, <2>9, <2>10, <2>11
<1>9. CASE WriteFails
  <2>1. pc = "write" /\ out # <<>> /\ conn \in Clients /\ out \in Seq(Answer)
    BY <1>9 DEF WriteFails, TypeOK
  <2>2. /\ Tail(out) \in Seq(Answer)
        /\ \A i \in DOMAIN Tail(out) : i+1 \in DOMAIN out /\ Tail(out)[i] = out[i+1]
    BY <2>1, HeadTailProperties, LenProperties
  <2>3. /\ UNCHANGED <<sockVars, conn, req, after, pods, xsk, history>>
        /\ \/ out' = <<>> /\ pc' = "cleanup"
           \/ out' = Tail(out) /\ (pc' = "write" \/ pc' = after)
    BY <1>9 DEF WriteFails, AfterWrite
  <2>4. TypeOK'
    <3>1. out' \in Seq(Answer)
      <4>1. <<>> \in Seq(Answer)
        OBVIOUS
      <4>2. out' = <<>> \/ out' = Tail(out)
        BY <2>3
      <4>3. QED
        BY <2>2, <4>1, <4>2
    <3>2. pc' \in {"write", "cleanup", "read"} /\ after' = after
      BY <2>3 DEF TypeOK
    <3>3. UNCHANGED <<sockFile, cst, reqs, resps, conn, req, pods, xsk,
                      trusted, proof, granted, answers>>
      BY <2>3 DEF sockVars, history
    <3>4. QED
      BY <2>1, <3>1, <3>2, <3>3 DEF TypeOK
  <2>5. TrustProved' /\ TrustPlaced' /\ GrantsBounded'
    BY <2>1, <2>3 DEF TypeOK, TrustProved, TrustPlaced, GrantsBounded,
       history
  <2>6. PendingGrants'
    <3>1. trusted' = trusted /\ after' = after
      BY <2>3 DEF history
    <3>2. CASE out' = <<>>
      BY <3>2 DEF PendingGrants
    <3>3. CASE out' = Tail(out)
      <4>1. SUFFICES ASSUME NEW i \in DOMAIN out', out'[i].msg = "/fd_ack"
                     PROVE  trusted # NoPod /\ after = "read" /\ out'[i].dev \in Served
        BY <3>1 DEF PendingGrants
      <4>2. i+1 \in DOMAIN out /\ out'[i] = out[i+1]
        BY <2>2, <3>3
      <4>3. QED
        BY <4>1, <4>2 DEF PendingGrants
    <3>4. QED
      BY <2>3, <3>2, <3>3
  <2>7. QED
    BY <2>4, <2>5, <2>6
<1>10. QED
  BY <1>1, <1>2, <1>3, <1>4, <1>5, <1>6, <1>7, <1>8, <1>9, RequestStep
     DEF ServerStep

\* The inductive invariant is kept by every step.
LEMMA NextIInv == IInv /\ [Next]_vars => IInv'
<1>1. ASSUME IInv, UNCHANGED vars PROVE IInv'
  BY <1>1 DEF vars, sockVars, serverVars, history, IInv, TypeOK,
     TrustProved, TrustPlaced, PendingGrants, GrantsBounded
<1>2. QED
  BY <1>1, ServerStepKeeps, EnvironmentStep DEF Next

\* Together: the inductive invariant always holds.
LEMMA Invariance == Spec => []IInv
BY InitIInv, NextIInv, PTL DEF Spec

(***************************************************************************)
(* The variables of the server keep their types, whoever connects and      *)
(* whatever fails.                                                         *)
(***************************************************************************)
THEOREM TypeCorrect == Spec => []TypeOK
<1>1. IInv => TypeOK
  BY DEF IInv
<1>2. QED
  BY <1>1, Invariance, PTL

(***************************************************************************)
(* A descriptor is handed only to the accepted client, only after a        *)
(* container holding exactly the served devices was found for its name,    *)
(* and only for one of those devices (validatePod, handleFdRequest).       *)
(***************************************************************************)
THEOREM GrantSafety == Spec => []GrantsAreProved
<1>1. IInv => GrantsAreProved
  BY DEF IInv, GrantsBounded, TrustProved, GrantsAreProved
<1>2. QED
  BY <1>1, Invariance, PTL

-----------------------------------------------------------------------------
\* What is queued leaves at most one answer, unless the server is to end.
AnswersLeft ==
  /\ pc = "write" => \/ after = "cleanup" \/ RefusedTwice
                     \/ answers + Len(out) <= 1
  /\ pc = "validate" => answers = 0

InStepInv == InStep /\ AnswersLeft

\* A row of answers a request queues: one, or several before the end.
LEMMA QueuedInStep ==
  ASSUME pc' = "write", answers' = 0, Len(out') \in Nat,
         after' = "cleanup" \/ RefusedTwice' \/ Len(out') <= 1
  PROVE  InStepInv'
<1>1. InStep'
  BY DEF InStep
<1>2. AnswersLeft'
  BY DEF AnswersLeft
<1>3. QED
  BY <1>1, <1>2 DEF InStepInv

\* A single answer is a row of length one.
LEMMA SingleLen == \A a : Len(<<a>>) = 1
  OBVIOUS

\* A refusal and one more answer are two answers, or one with a descriptor.
LEMMA RefusalLen ==
  ASSUME NEW r, NEW a
  PROVE  /\ Len(Refusal(r)) \in Nat
         /\ Len(Refusal(r) \o <<a>>) \in Nat
         /\ r.fd => Len(Refusal(r) \o <<a>>) = 1
<1>1. CASE r.fd
  <2>1. Refusal(r) = <<>> /\ Refusal(r) \o <<a>> = <<a>>
    BY <1>1 DEF Refusal
  <2>2. QED
    BY <2>1
<1>2. CASE ~r.fd
  <2>1. Refusal(r) = <<Fatal("/config_busy_poll_nak")>>
    BY <1>2 DEF Refusal
  <2>2. Len(Refusal(r)) = 1 /\ Len(Refusal(r) \o <<a>>) = 2
    BY <2>1
  <2>3. QED
    BY <1>2, <2>2
<1>3. QED
  BY <1>1, <1>2

\* A request of the loop queues one answer, or the server ends after them.
LEMMA RequestInStep ==
  ASSUME NEW r \in Asks, ReadConnect(r) \/ ReadRequest(r)
  PROVE  InStepInv'
<1>1. req' = r /\ answers' = 0
  BY DEF ReadConnect, ReadRequest, ReadVersion, ReadFin, ReadOther, ReadFd,
     ReadBusyPoll, Read
<1>2. CASE pc' # "write"
  BY <1>1, <1>2 DEF InStepInv, InStep, AnswersLeft
<1>3. CASE /\ pc' = "write"
           /\ \/ ReadConnect(r) \/ ReadVersion(r) \/ ReadFin(r)
              \/ ReadOther(r) \/ ReadFd(r)
  <2>1. \E a : out' = <<a>>
    BY <1>3 DEF ReadConnect, ReadVersion, ReadFin, ReadOther, ReadFd, Reply
  <2>2. Len(out') = 1
    BY <2>1, SingleLen
  <2>3. QED
    BY <1>1, <1>3, <2>2, QueuedInStep
<1>4. CASE pc' = "write" /\ ReadBusyPoll(r)
  <2>1. CASE r.kind = "busyPollBad"
    <3>1. out' = Refusal(r) \o <<Fatal("/nak")>>
      BY <1>4, <2>1 DEF ReadBusyPoll, Reply
    <3>2. r.fd \/ RefusedTwice'
      BY <1>1, <2>1 DEF RefusedTwice
    <3>3. Len(out') \in Nat /\ (r.fd => Len(out') <= 1)
      BY <3>1, RefusalLen
    <3>4. QED
      BY <1>1, <1>4, <3>2, <3>3, QueuedInStep
  <2>2. CASE r.kind # "busyPollBad"
    <3>1. \/ /\ after' = "cleanup"
             /\ \/ out' = Refusal(r)
                \/ out' = Refusal(r) \o <<Logged("/config_busy_poll_nak")>>
          \/ \E a : out' = <<a>>
      BY <1>4, <2>2 DEF ReadBusyPoll, Reply
    <3>2. Len(out') \in Nat /\ (after' = "cleanup" \/ Len(out') <= 1)
      <4>1. CASE /\ after' = "cleanup"
                 /\ \/ out' = Refusal(r)
                    \/ out' = Refusal(r) \o <<Logged("/config_busy_poll_nak")>>
        BY <4>1, RefusalLen
      <4>2. CASE \E a : out' = <<a>>
        <5>1. Len(out') = 1
          BY <4>2, SingleLen
        <5>2. QED
          BY <5>1
      <4>3. QED
        BY <3>1, <4>1, <4>2
    <3>3. QED
      BY <1>1, <1>4, <3>2, QueuedInStep
  <2>3. QED
    BY <2>1, <2>2
<1>5. QED
  BY <1>2, <1>3, <1>4 DEF ReadRequest

\* A write moves one answer from the row to the count, or drops it.
LEMMA WriteInStep ==
  ASSUME TypeOK, InStepInv, Write \/ WriteFails
  PROVE  InStepInv'
<1>1. /\ pc = "write" /\ out # <<>> /\ out \in Seq(Answer) /\ answers \in Nat
      /\ after' = after /\ req' = req
  BY DEF Write, WriteFails, TypeOK
<1>2. /\ Len(out) \in Nat \ {0}
      /\ Tail(out) \in Seq(Answer) /\ Len(Tail(out)) = Len(out) - 1
  BY <1>1, EmptySeq, LenProperties, HeadTailProperties
<1>3. after \in {"read", "cleanup"} /\ pc' \in {"write", "cleanup", after}
  BY DEF Write, WriteFails, AfterWrite, TypeOK
<1>4. \/ answers' = answers + 1 /\ out' = Tail(out)
      \/ answers' = answers /\ out' = Tail(out)
      \/ answers' = answers /\ out' = <<>>
  BY DEF Write, WriteFails, history
<1>5. Len(out') \in Nat /\ answers' + Len(out') <= answers + Len(out)
  BY <1>1, <1>2, <1>4
<1>6. answers' \in Nat
  BY <1>1, <1>4
<1>7. CASE after = "cleanup" \/ RefusedTwice
  BY <1>1, <1>3, <1>7 DEF InStepInv, InStep, AnswersLeft, RefusedTwice
<1>8. CASE answers + Len(out) <= 1
  BY <1>1, <1>2, <1>3, <1>5, <1>6, <1>8 DEF InStepInv, InStep, AnswersLeft
<1>9. QED
  BY <1>1, <1>7, <1>8 DEF InStepInv, AnswersLeft

(***************************************************************************)
(* A client that takes one answer per request stays in step with the       *)
(* server: only a malformed busy-poll request without a descriptor is      *)
(* answered twice on a connection that goes on (handleBusyPollRequest).    *)
(***************************************************************************)
THEOREM InStepSafety == Spec => []InStep
<1>1. Init => InStepInv
  BY DEF Init, InStepInv, InStep, AnswersLeft
<1>2. TypeOK /\ InStepInv /\ [Next]_vars => InStepInv'
  <2> SUFFICES ASSUME TypeOK, InStepInv, [Next]_vars PROVE InStepInv'
    OBVIOUS
  <2>1. ASSUME UNCHANGED <<answers, after, req>>,
               (pc' = pc /\ out' = out) \/ pc' \notin {"write", "validate"}
        PROVE  InStepInv'
    BY <2>1 DEF InStepInv, InStep, AnswersLeft, RefusedTwice
  <2>2. CASE UNCHANGED vars
    BY <2>1, <2>2 DEF vars, serverVars, history
  <2>3. CASE Environment \/ DialError
    <3>1. CASE Die
      BY <2>1, <3>1 DEF Die, history
    <3>2. CASE ~Die
      <4>1. UNCHANGED <<answers, after, req, out>>
        BY <2>3, <3>2 DEF Environment, ClientStep, Dial, Send, Receive, HangUp,
           PodChange, SocketFails, PluginStops, DialError, serverVars, history
      <4>2. pc' = pc \/ pc' = "cleanup"
        BY <2>3, <3>2 DEF Environment, ClientStep, Dial, Send, Receive, HangUp,
           PodChange, SocketFails, PluginStops, DialError, serverVars
      <4>3. QED
        BY <2>1, <4>1, <4>2
    <3>3. QED
      BY <3>1, <3>2
  <2>4. CASE \/ Listen \/ ListenFails \/ \E c \in Clients : Accept(c)
             \/ ReadFails \/ TimesOut \/ Cleanup
    <3>1. UNCHANGED <<answers, after, req, out>>
      BY <2>4 DEF Listen, ListenFails, Accept, ReadFails, TimesOut, Cleanup, history
    <3>2. pc' \notin {"write", "validate"}
      BY <2>4 DEF Listen, ListenFails, Accept, ReadFails, TimesOut, Cleanup
    <3>3. QED
      BY <2>1, <3>1, <3>2
  <2>5. ASSUME NEW r \in Asks, ReadConnect(r) \/ ReadRequest(r)
        PROVE  InStepInv'
    BY <2>5, RequestInStep
  <2>6. CASE ValidatePod \/ ListError
    <3>1. answers' = 0 /\ pc' = "write"
      BY <2>6 DEF ValidatePod, ListError, Reply, InStepInv, AnswersLeft, history
    <3>2. \/ after' = "cleanup" /\ out' = <<Logged("/error"), Logged("/host_nak")>>
          \/ \E a : out' = <<a>>
      BY <2>6 DEF ValidatePod, ListError, Reply
    <3>3. Len(out') \in Nat /\ (after' = "cleanup" \/ Len(out') <= 1)
      <4>1. CASE after' = "cleanup" /\ out' = <<Logged("/error"), Logged("/host_nak")>>
        <5>1. Len(out') = 2
          BY <4>1
        <5>2. QED
          BY <4>1, <5>1
      <4>2. CASE \E a : out' = <<a>>
        <5>1. Len(out') = 1
          BY <4>2, SingleLen
        <5>2. QED
          BY <5>1
      <4>3. QED
        BY <3>2, <4>1, <4>2
    <3>4. QED
      BY <3>1, <3>3, QueuedInStep
  <2>7. CASE Write \/ WriteFails
    BY <2>7, WriteInStep
  <2>8. QED
    BY <2>2, <2>3, <2>4, <2>5, <2>6, <2>7 DEF Next, ServerStep
<1>3. InStepInv => InStep
  BY DEF InStepInv
<1>4. QED
  BY <1>1, <1>2, <1>3, TypeCorrect, PTL DEF Spec

-----------------------------------------------------------------------------
\* The server starts as a service that waits.
LEMMA ServiceInit == Init => Service!Init
BY DEF Init, Service!Init, Phase

\* Steps of the environment change the cluster, end the service, or nothing.
LEMMA EnvironmentRefines ==
  ASSUME IInv, Environment
  PROVE  [Service!Next]_(Service!vars)
<1> USE DEF Service!Next, Service!vars
<1>1. ASSUME NEW c \in Clients, ClientStep(c) PROVE UNCHANGED (Service!vars)
  BY <1>1 DEF ClientStep, Dial, Send, Receive, HangUp, serverVars, history, Phase
<1>2. ASSUME NEW p \in Pods, PodChange(p) PROVE Service!Reschedule
  <2>1. pods' \in [Pods -> SUBSET SUBSET Devices]
    BY <1>2 DEF PodChange, IInv, TypeOK
  <2>2. QED
    BY <1>2, <2>1 DEF PodChange, serverVars, history, Phase, Service!Reschedule
<1>3. CASE PluginStops \/ SocketFails
  BY <1>3 DEF PluginStops, Die, SocketFails, Over, history, Phase, Service!Finish
<1>4. QED
  BY <1>1, <1>2, <1>3 DEF Environment

\* Steps of the goroutine are steps of the service, or invisible to it.
LEMMA ServerRefines ==
  ASSUME IInv, ServerStep
  PROVE  [Service!Next]_(Service!vars)
<1> USE DEF Service!Next, Service!vars, IInv
<1>1. CASE Listen \/ ListenFails
  BY <1>1 DEF Listen, ListenFails, history, Phase, TrustPlaced, Service!Finish
<1>2. ASSUME NEW c \in Clients, Accept(c) PROVE Service!Accept(c)
  BY <1>2 DEF Accept, sockVars, history, Phase, TrustPlaced, Service!Accept
<1>3. ASSUME NEW r \in Asks, ReadConnect(r) PROVE [Service!Next]_(Service!vars)
  BY <1>3 DEF ReadConnect, Read, Reply, Phase, TrustPlaced, Service!Finish
<1>4. ASSUME NEW r \in Asks, ReadRequest(r) PROVE [Service!Next]_(Service!vars)
  <2>1. /\ pc = "read" /\ pc' \in {"write", "cleanup"}
        /\ UNCHANGED <<conn, pods, trusted, granted>>
    BY <1>4 DEF ReadRequest, ReadVersion, ReadFin, ReadOther, ReadFd,
       ReadBusyPoll, Read, Reply
  <2>2. QED
    BY <2>1 DEF Phase, Service!Finish
<1>5. CASE ValidatePod
  <2>1. \/ /\ trusted' \in Pods /\ Served \in pods[trusted'] /\ pc' = "write"
        \/ UNCHANGED trusted /\ pc' = "write"
    BY <1>5, MatchIsExact DEF ValidatePod, Listed, Reply
  <2>2. pc = "validate" /\ UNCHANGED <<conn, pods, granted>>
    BY <1>5 DEF ValidatePod
  <2>3. trusted = NoPod /\ conn \in Clients /\ conn # NoClient
    BY <2>2 DEF TrustPlaced, TypeOK
  <2>4. QED
    BY <2>1, <2>2, <2>3 DEF Phase, Service!Trust
<1>6. CASE ListError \/ DialError \/ ReadFails \/ TimesOut
  BY <1>6 DEF ListError, DialError, Die, ReadFails, TimesOut, Reply, history, Phase,
     Service!Finish
<1>7. CASE Write
  <2> DEFINE a == Head(out)
  <2>1. pc = "write" /\ out # <<>> /\ conn \in Clients /\ conn # NoClient
    BY <1>7 DEF Write, TypeOK
  <2>2. a = out[1] /\ 1 \in DOMAIN out
    BY <2>1, HeadTailProperties, LenProperties DEF TypeOK
  <2>3. /\ granted' = [granted EXCEPT ![conn] =
                         IF a.msg = "/fd_ack" THEN @ \cup {a.dev} ELSE @]
        /\ pc' = "write" \/ pc' = after
        /\ UNCHANGED <<conn, pods, trusted>>
    BY <1>7 DEF Write, AfterWrite
  <2> HIDE DEF a
  <2>4. CASE a.msg = "/fd_ack"
    <3>1. trusted # NoPod /\ after = "read" /\ a.dev \in Served
      BY <2>2, <2>4 DEF PendingGrants
    <3>2. Phase = "trusted" /\ Phase' = "trusted"
      BY <2>1, <2>3, <3>1 DEF Phase
    <3>3. granted' = [granted EXCEPT ![conn] = @ \cup {a.dev}]
      BY <2>3, <2>4
    <3>4. Service!Grant(a.dev)
      BY <2>3, <3>1, <3>2, <3>3 DEF Service!Grant
    <3>5. QED
      BY <3>1, <3>4
  <2>5. CASE a.msg # "/fd_ack"
    <3>1. granted' = granted
      BY <2>1, <2>3, <2>5 DEF TypeOK
    <3>2. QED
      BY <2>1, <2>3, <3>1 DEF Phase, TypeOK, Service!Finish
  <2>6. QED
    BY <2>4, <2>5
<1>8. CASE WriteFails \/ Cleanup
  <2>1. /\ UNCHANGED <<conn, pods, trusted, granted>>
        /\ \/ pc = "write" /\ (pc' = "write" \/ pc' = "cleanup" \/ pc' = after)
           \/ pc = "cleanup" /\ pc' = "gone"
    BY <1>8 DEF WriteFails, AfterWrite, Cleanup, sockVars, history
  <2>2. QED
    BY <2>1 DEF Phase, TypeOK, Service!Finish
<1>9. QED
  BY <1>1, <1>2, <1>3, <1>4, <1>5, <1>6, <1>7, <1>8 DEF ServerStep

(***************************************************************************)
(* The goroutine with its socket, its clients and its kubelet implements   *)
(* the service of FdService: one client, trusted once and for cause, and   *)
(* descriptors only for it and only while it is trusted.                   *)
(***************************************************************************)
THEOREM Refinement == Spec => ImplementsFdService
<1>1. IInv /\ [Next]_vars => [Service!Next]_(Service!vars)
  <2>1. ASSUME UNCHANGED vars PROVE UNCHANGED (Service!vars)
    BY <2>1 DEF vars, sockVars, serverVars, history, Service!vars, Phase
  <2>2. QED
    BY <2>1, EnvironmentRefines, ServerRefines DEF Next
<1>2. QED
  BY <1>1, ServiceInit, Invariance, PTL
     DEF Spec, ImplementsFdService, Service!Spec

-----------------------------------------------------------------------------
\* A pod with a container for the served devices is listed, and matches.
LEMMA HolderMatches ==
  ASSUME NEW p \in Pods, Served # {}, Served \in pods[p]
  PROVE  p \in Listed(NameOf[p]) /\ \E devs \in pods[p] : Matches(devs)
BY DEF Listed, Matches

(***************************************************************************)
(* A pod is refused only if it does not hold exactly the served devices    *)
(* when it is looked up, or if its name is cut short, or if a namesake is  *)
(* listed that may be looked at instead (validatePod, GetPodResources).    *)
(***************************************************************************)
THEOREM NakSafety == Spec => NakMeansInvalidName
<1> DEFINE Refused == pc = "validate" /\ pc' = "write" /\ Head(out').msg = "/host_nak"
           Excused == ~ValidName(req.arg) \/ Confused(req.arg)
<1>1. ASSUME Next, Refused PROVE Excused
  <2>1. ValidatePod \/ ListError
    BY <1>1 DEF Next, ServerStep, Environment, ClientStep, Dial, Send, Receive, HangUp,
                PodChange, PluginStops, SocketFails, Die, Listen, ListenFails, Accept,
                ReadConnect, ReadRequest, ReadVersion, ReadFin, ReadOther, ReadFd,
                ReadBusyPoll, DialError, ReadFails, TimesOut, Write, WriteFails,
                Cleanup, serverVars
  <2>2. ~ListError
    BY <1>1 DEF ListError, Reply, Logged
  <2> SUFFICES ASSUME Served # {}, ~Confused(req.arg),
                      NEW p \in Pods, NameOf[p] = req.arg, Served \in pods[p]
               PROVE  FALSE
    BY DEF ValidName
  <2>3. Received[req.arg] = req.arg
    BY DEF Confused
  <2>4. p \in Listed(req.arg) /\ \E devs \in pods[p] : Matches(devs)
    BY HolderMatches
  <2>5. \A q \in Listed(req.arg) : q = p
    BY <2>4 DEF Confused
  <2>6. Head(out').msg = "/host_ok"
    BY <2>1, <2>2, <2>3, <2>4, <2>5 DEF ValidatePod, Reply, Logged
  <2> QED
    BY <1>1, <2>6
<1>2. [Next]_vars => [Refused => Excused]_vars
  BY <1>1
<1> QED
  BY <1>2, PTL DEF Spec, NakMeansInvalidName

-----------------------------------------------------------------------------
\* The ladder says 0 only at its top, or once the preference is taken back.
LEMMA LadderWhole ==
  ASSUME NEW s \in Socket, NEW ok \in Kernel, Configure_busy_poll(s, ok).ret = 0
  PROVE  Configured(Configure_busy_poll(s, ok).sock)
           \/ ~Configure_busy_poll(s, ok).sock.prefer
BY DEF Configure_busy_poll, RestoreBusyPoll, ErrTimeout, Configured, Socket, Kernel

\* Only a request for busy polling is answered with its acknowledgement.
LEMMA OnlyPollAcks ==
  ASSUME TypeOK, pc = "read", Next,
         \E i \in DOMAIN out' : out'[i].msg = "/config_busy_poll_ack"
  PROVE  \/ \E i \in DOMAIN out : out[i].msg = "/config_busy_poll_ack"
         \/ \E r \in Asks : ReadBusyPoll(r)
<1>1. out' = out \/ out' = <<>> \/ \E r \in Asks : ReadRequest(r)
  BY DEF Next, ServerStep, Environment, ClientStep, Dial, Send, Receive, HangUp,
         PodChange, SocketFails, PluginStops, Die, Listen, ListenFails, Accept, ReadConnect,
         ValidatePod, ListError, DialError, ReadFails, TimesOut, Write, WriteFails,
         Cleanup, serverVars
<1>2. ASSUME NEW r \in Asks, ReadVersion(r) \/ ReadFin(r) \/ ReadOther(r) \/ ReadFd(r)
      PROVE  FALSE
  BY <1>2 DEF ReadVersion, ReadFin, ReadOther, ReadFd, Reply, Fatal
<1> QED
  BY <1>1, <1>2 DEF ReadRequest

\* Between requests, and until the first answer, nothing waits to be written.
OutEmpty == pc \in {"start", "accept", "readConnect", "validate", "read"} => out = <<>>

LEMMA OutEmptyStep ==
  ASSUME TypeOK, OutEmpty, [Next]_vars
  PROVE  OutEmpty'
<1>1. CASE UNCHANGED vars
  BY <1>1 DEF vars, serverVars, OutEmpty
<1>2. CASE Environment
  BY <1>2 DEF Environment, ClientStep, Dial, Send, Receive, HangUp, PodChange,
              SocketFails, PluginStops, Die, serverVars, OutEmpty
<1>3. ASSUME NEW r \in Asks, ReadConnect(r) \/ ReadRequest(r) PROVE OutEmpty'
  BY <1>3 DEF ReadConnect, ReadRequest, ReadVersion, ReadFin, ReadOther, ReadFd,
              ReadBusyPoll, Reply, OutEmpty
<1>4. CASE Write \/ WriteFails
  BY <1>4 DEF Write, WriteFails, AfterWrite, TypeOK, OutEmpty
<1>5. CASE \/ Listen \/ ListenFails \/ \E c \in Clients : Accept(c)
           \/ ValidatePod \/ ListError \/ DialError \/ ReadFails \/ TimesOut \/ Cleanup
  BY <1>5 DEF Listen, ListenFails, Accept, ValidatePod, ListError, DialError, Die,
              ReadFails, TimesOut, Cleanup, Reply, OutEmpty
<1> QED
  BY <1>1, <1>2, <1>3, <1>4, <1>5 DEF Next, ServerStep

\* A refusal is no acknowledgement, alone or before another refusal.
LEMMA RefusalNoAck ==
  ASSUME NEW r, NEW last \in {<<>>, <<Fatal("/nak")>>, <<Logged("/config_busy_poll_nak")>>}
  PROVE  \A i \in DOMAIN (Refusal(r) \o last) :
           (Refusal(r) \o last)[i].msg # "/config_busy_poll_ack"
BY DEF Refusal, Fatal, Logged

(***************************************************************************)
(* Whatever the kernel allows and whatever state the client passes the     *)
(* socket in, an acknowledged request leaves it configured or no longer    *)
(* preferring busy polling (handleBusyPollRequest, Configure_busy_poll).   *)
(***************************************************************************)
THEOREM AckSafety == Spec => AckNeverHalfway
<1> DEFINE Acked == pc = "read" /\ \E i \in DOMAIN out' : out'[i].msg = "/config_busy_poll_ack"
           Whole == Configured(xsk') \/ ~xsk'.prefer
<1>1. ASSUME IInv, OutEmpty, Next, Acked PROVE Whole
  <2>1. TypeOK /\ out = <<>>
    BY <1>1 DEF IInv, OutEmpty
  <2>2. PICK r \in Asks : ReadBusyPoll(r)
    BY <1>1, <2>1, OnlyPollAcks
  <2>3. CASE r.kind = "busyPoll" /\ r.fd
    <3> DEFINE res(ok) == Configure_busy_poll(xsk, ok)
    <3>1. PICK ok \in Kernel :
            /\ xsk' = res(ok).sock
            /\ \/ res(ok).ret = 0
               \/ out' = <<Logged("/config_busy_poll_nak")>>
      BY <2>2, <2>3 DEF ReadBusyPoll, Reply, PollKinds
    <3>2. xsk \in Socket
      BY <2>1 DEF TypeOK
    <3>3. CASE res(ok).ret = 0
      BY <3>1, <3>2, <3>3, LadderWhole
    <3>4. CASE out' = <<Logged("/config_busy_poll_nak")>>
      BY <1>1, <3>4 DEF Logged
    <3> QED
      BY <3>1, <3>3, <3>4
  <2>4. CASE r.kind = "busyPoll" /\ ~r.fd
    <3>1. out' = Refusal(r) \o <<Logged("/config_busy_poll_nak")>>
      BY <2>2, <2>4 DEF ReadBusyPoll, Reply
    <3> QED
      BY <1>1, <3>1, RefusalNoAck
  <2>5. CASE r.kind = "busyPollBad"
    <3>1. out' = Refusal(r) \o <<Fatal("/nak")>>
      BY <2>2, <2>5 DEF ReadBusyPoll, Reply
    <3> QED
      BY <1>1, <3>1, RefusalNoAck
  <2>6. CASE r.kind = "busyPollText"
    BY <1>1, <2>1, <2>2, <2>6 DEF ReadBusyPoll, Reply, Refusal, Fatal
  <2> QED
    BY <2>2, <2>3, <2>4, <2>5, <2>6 DEF ReadBusyPoll, PollKinds
<1>2. IInv /\ OutEmpty /\ [Next]_vars => [Acked => Whole]_vars
  BY <1>1
<1>3. Init => OutEmpty
  BY DEF Init, OutEmpty
<1>4. IInv /\ OutEmpty /\ [Next]_vars => OutEmpty'
  BY OutEmptyStep DEF IInv
<1> QED
  BY <1>2, <1>3, <1>4, Invariance, PTL DEF Spec, AckNeverHalfway

-----------------------------------------------------------------------------
(***************************************************************************)
(* The goroutine only goes forward: it takes no second client, and comes   *)
(* back to an earlier place only by reading a request and writing what is  *)
(* left of its answers.  So the requests sent bound the steps it takes,    *)
(* which is what it owes to whoever waits for the end of it.               *)
(***************************************************************************)
Stage == [start |-> 7, accept |-> 6, readConnect |-> 5, validate |-> 4,
          write |-> 3, read |-> 2, cleanup |-> 1, gone |-> 0, dead |-> 0]

OnlyForward ==
  [][pc # pc' \/ out # out' =>
       \/ Stage[pc'] < Stage[pc]
       \/ pc' = pc /\ Len(out') < Len(out)
       \/ conn' = conn /\ reqs[conn] # <<>> /\ reqs'[conn] = Tail(reqs[conn])]_vars

\* The Stage of every place is a natural number.
LEMMA StageType == TypeOK => Stage[pc] \in Nat
BY DEF TypeOK, Stage

(***************************************************************************)
(* The goroutine goes back only by reading a request: the safety half of   *)
(* its end, to which fairness adds that it goes on (handleIncomingRequests).*)
(***************************************************************************)
THEOREM ServerForward == Spec => OnlyForward
<1> DEFINE Forward == \/ Stage[pc'] < Stage[pc]
                      \/ pc' = pc /\ Len(out') < Len(out)
                      \/ /\ conn' = conn /\ reqs[conn] # <<>>
                         /\ reqs'[conn] = Tail(reqs[conn])
<1>1. ASSUME IInv, Next, pc # pc' \/ out # out' PROVE Forward
  <2>1. TypeOK
    BY <1>1 DEF IInv
  <2>2. CASE Environment
    BY <1>1, <2>1, <2>2 DEF Environment, ClientStep, Dial, Send, Receive, HangUp,
         PodChange, SocketFails, PluginStops, Die, Over, serverVars, Stage, TypeOK
  <2>3. CASE \/ Listen \/ ListenFails \/ \E c \in Clients : Accept(c)
             \/ ValidatePod \/ ListError \/ DialError \/ ReadFails \/ TimesOut
             \/ Cleanup
    BY <2>3 DEF Listen, ListenFails, Accept, ValidatePod, ListError, DialError, Die,
         ReadFails, TimesOut, Cleanup, Reply, Stage
  <2>4. ASSUME NEW r \in Asks, ReadConnect(r) \/ ReadRequest(r) PROVE Forward
    <3>1. Read(r) /\ pc \in {"readConnect", "read"}
      BY <2>4 DEF ReadConnect, ReadRequest, ReadVersion, ReadFin, ReadOther, ReadFd,
                  ReadBusyPoll
    <3>2. conn \in Clients
      BY <2>1, <3>1 DEF TypeOK
    <3> QED
      BY <2>1, <3>1, <3>2 DEF Read, TypeOK
  <2>5. CASE Write \/ WriteFails
    <3>1. pc = "write" /\ out # <<>> /\ out \in Seq(Answer) /\ after \in {"read", "cleanup"}
      BY <2>1, <2>5 DEF Write, WriteFails, TypeOK
    <3>2. pc' = "write" \/ Stage[pc'] < Stage[pc]
      BY <2>5, <3>1 DEF Write, WriteFails, AfterWrite, Stage
    <3>3. pc' = "write" => out' = Tail(out)
      BY <2>5, <3>1 DEF Write, WriteFails, AfterWrite
    <3>4. Len(Tail(out)) < Len(out)
      BY <3>1, HeadTailProperties, EmptySeq
    <3> QED
      BY <3>1, <3>2, <3>3, <3>4
  <2> QED
    BY <1>1, <2>2, <2>3, <2>4, <2>5 DEF Next, ServerStep
<1>2. IInv /\ [Next]_vars => [pc # pc' \/ out # out' => Forward]_vars
  BY <1>1
<1> QED
  BY <1>2, Invariance, PTL DEF Spec, OnlyForward
=============================================================================
