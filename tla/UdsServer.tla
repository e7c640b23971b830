----------------------------- MODULE UdsServer -----------------------------
(***************************************************************************)
(* One UDS server of the device plugin: the goroutine started by Allocate  *)
(* (internal/udsserver/udsserver.go), its socket (internal/uds/uds.go),    *)
(* the processes that may connect to it and the kubelet whose pod          *)
(* resources decide whom it trusts.                                        *)
(*                                                                         *)
(* The goroutine is a program counter.  Every answer is queued in "out"    *)
(* and written by one step per message, because a write can block on a     *)
(* full socket, time out, or meet a client that has hung up.  Each entry   *)
(* of "out" says whether the code returns on a write error or only logs it.*)
(***************************************************************************)
EXTENDS Naturals, Sequences, FiniteSets, BusyPoll

CONSTANTS
  Clients,     \* processes that can reach the socket file
  NoClient,
  Pods,        \* pods of the cluster that may run on this node
  NoPod,
  Names,       \* pod names, as a client states them when it connects
  NameOf,      \* NameOf[p]: the name of pod p; namespaces may share names
  Received,    \* Received[n]: name n after a read into MsgBufSize bytes
  Devices,     \* devices of the pool
  Served,      \* keys of server.devices: what Allocate added before Start
  None,        \* the argument of a message that carries none
  Timeout,     \* TRUE when udsIdleTimeout > 0
  MayStop,     \* TRUE when the plugin itself may exit or die
  Lookup,      \* outcomes of the pod resources call that may happen
  Holdings,    \* what the containers of one pod may hold
  Asks,        \* requests the clients may send
  SockBuf      \* messages the socket buffers in each direction

(***************************************************************************)
(* The messages.  A kind ending in "Bad" is recognised by its prefix and   *)
(* then has the wrong number of words; in "busyPollText" the two words are *)
(* there and are no integers.  "fd" says whether the message carries a     *)
(* descriptor.                                                             *)
(***************************************************************************)
PlainKinds == {"connectBad", "fdBad", "version", "fin", "other"}
PollKinds  == {"busyPoll", "busyPollText", "busyPollBad"}

Request ==
  [kind : {"connect"}, arg : Names, fd : {FALSE}]
    \cup [kind : {"fd"}, arg : Devices, fd : {FALSE}]
    \cup [kind : PlainKinds, arg : {None}, fd : {FALSE}]
    \cup [kind : PollKinds, arg : {None}, fd : BOOLEAN]

NoRequest == [kind |-> "none", arg |-> None, fd |-> FALSE]

Words == {"/host_ok", "/host_nak", "/error", "/fd_ack", "/fd_nak", "0.1",
          "/config_busy_poll_ack", "/config_busy_poll_nak", "/fin_ack", "/nak"}

Response == [msg : Words, dev : Devices \cup {None}]
Answer   == [msg : Words, dev : Devices \cup {None}, fatal : BOOLEAN]

\* An answer whose write error ends the goroutine, or is only logged.
Fatal(msg)  == [msg |-> msg, dev |-> None, fatal |-> TRUE]
Logged(msg) == [msg |-> msg, dev |-> None, fatal |-> FALSE]

ASSUME UdsAssumption ==
  /\ NoClient \notin Clients
  /\ NoPod \notin Pods
  /\ NameOf \in [Pods -> Names]
  /\ Received \in [Names -> Names]
  /\ None \notin Devices
  /\ IsFiniteSet(Devices) /\ Served \subseteq Devices
  /\ Timeout \in BOOLEAN /\ MayStop \in BOOLEAN
  /\ Lookup \subseteq {"listed", "listError", "dialError"}
  /\ Holdings \subseteq SUBSET SUBSET Devices
  /\ Asks \subseteq Request
  /\ SockBuf \in Nat \ {0}

VARIABLES
  pc,         \* where the goroutine is
  sockFile,   \* the socket file is in the file system
  cst,        \* cst[c]: "new", "open" (dialled) or "shut" (closed by c)
  reqs,       \* reqs[c]: messages from c the server has not read
  resps,      \* resps[c]: messages to c it has not read
  conn,       \* the connection AcceptUnix returned
  req,        \* the request being handled
  out,        \* answers to the request that are still to be written
  after,      \* where the goroutine goes once "out" is empty
  pods,       \* kubelet: pods[p] = device sets of p's containers, {} unlisted
  xsk,        \* busy-poll options of the socket the client passes
  trusted,    \* history: the pod whose container matched, NoPod before
  proof,      \* history: the device set of that container
  granted,    \* history: devices whose descriptor went to each client
  answers     \* history: messages written for the request being handled

sockVars   == <<sockFile, cst, reqs, resps>>
serverVars == <<pc, conn, req, out, after>>
history    == <<trusted, proof, granted, answers>>
vars       == <<sockVars, serverVars, pods, xsk, history>>

\* The kubelet gives no device to two containers.
Exclusive(ps) ==
  \A p, q \in Pods : \A s \in ps[p], t \in ps[q] :
    (p # q \/ s # t) => s \cap t = {}

Init ==
  /\ pc = "start"
  /\ sockFile = FALSE
  /\ cst = [c \in Clients |-> "new"]
  /\ reqs = [c \in Clients |-> <<>>]
  /\ resps = [c \in Clients |-> <<>>]
  /\ conn = NoClient
  /\ req = NoRequest
  /\ out = <<>>
  /\ after = "cleanup"
  /\ pods \in [Pods -> Holdings] /\ Exclusive(pods)
  /\ xsk = DefaultSocket
  /\ trusted = NoPod
  /\ proof = {}
  /\ granted = [c \in Clients |-> {}]
  /\ answers = 0

-----------------------------------------------------------------------------
(***************************************************************************)
(* The clients: any program that can open the socket file.                 *)
(***************************************************************************)
Listening == pc \notin {"start", "cleanup", "gone", "dead"}
Over      == pc \in {"gone", "dead"}

Dial(c) ==
  /\ cst[c] = "new"
  /\ Listening
  /\ cst' = [cst EXCEPT ![c] = "open"]
  /\ UNCHANGED <<sockFile, reqs, resps, serverVars, pods, xsk, history>>

\* Requests may be pipelined up to the buffer of the socket.
Send(c, m) ==
  /\ cst[c] = "open"
  /\ ~Over
  /\ Len(reqs[c]) < SockBuf
  /\ reqs' = [reqs EXCEPT ![c] = Append(@, m)]
  /\ UNCHANGED <<sockFile, cst, resps, serverVars, pods, xsk, history>>

Receive(c) ==
  /\ cst[c] = "open"
  /\ resps[c] # <<>>
  /\ resps' = [resps EXCEPT ![c] = Tail(@)]
  /\ UNCHANGED <<sockFile, cst, reqs, serverVars, pods, xsk, history>>

\* Closing, or dying: what was not read is lost.
HangUp(c) ==
  /\ cst[c] = "open"
  /\ cst' = [cst EXCEPT ![c] = "shut"]
  /\ resps' = [resps EXCEPT ![c] = <<>>]
  /\ UNCHANGED <<sockFile, reqs, serverVars, pods, xsk, history>>

ClientStep(c) ==
  \/ Dial(c)
  \/ \E m \in Asks : Send(c, m)
  \/ Receive(c)
  \/ HangUp(c)

(***************************************************************************)
(* The kubelet: a pod is admitted with its devices, or removed.            *)
(***************************************************************************)
PodChange(p) ==
  \E held \in Holdings :
    /\ pods' = [pods EXCEPT ![p] = held]
    /\ Exclusive(pods')
    /\ UNCHANGED <<sockVars, serverVars, xsk, history>>

-----------------------------------------------------------------------------
(***************************************************************************)
(* The goroutine.                                                          *)
(***************************************************************************)
\* Init and Listen: the listener is bound and given its permissions.
Listen ==
  /\ pc = "start"
  /\ pc' = "accept"
  /\ sockFile' = TRUE
  /\ UNCHANGED <<cst, reqs, resps, conn, req, out, after, pods, xsk,
                 history>>

\* ListenUnix, GivePermissions or SetDeadline fails: the file may be there.
ListenFails ==
  /\ pc = "start"
  /\ pc' = "cleanup"
  /\ sockFile' \in BOOLEAN
  /\ UNCHANGED <<cst, reqs, resps, conn, req, out, after, pods, xsk,
                 history>>

\* Faulty variant: the connection is not kept.
AcceptForgets(c) ==
  /\ pc = "accept"
  /\ cst[c] # "new"
  /\ pc' = "readConnect"
  /\ UNCHANGED <<sockVars, conn, req, out, after, pods, xsk, history>>

\* AcceptUnix: the only connection this server will ever take.
Accept(c) ==
  /\ pc = "accept"
  /\ cst[c] # "new"
  /\ pc' = "readConnect"
  /\ conn' = c
  /\ UNCHANGED <<sockVars, req, out, after, pods, xsk, history>>

Read(r) ==
  /\ reqs[conn] # <<>>
  /\ r = Head(reqs[conn])
  /\ req' = r
  /\ reqs' = [reqs EXCEPT ![conn] = Tail(@)]
  /\ answers' = 0
  /\ UNCHANGED <<sockFile, cst, resps, conn, pods, trusted, proof,
                 granted>>

\* Queue the answers and continue at "next" once they are written.
Reply(msgs, next) ==
  /\ out' = msgs
  /\ after' = next
  /\ pc' = "write"

\* The first request has to be a connect; any other ends the server unanswered.
ReadConnect(r) ==
  /\ pc = "readConnect"
  /\ Read(r)
  /\ UNCHANGED xsk
  /\ \/ /\ r.kind = "connect"
        /\ pc' = "validate"
        /\ UNCHANGED <<out, after>>
     \/ /\ r.kind = "connectBad"
        /\ Reply(<<Logged("/host_nak")>>, "cleanup")
     \/ /\ r.kind \notin {"connect", "connectBad"}
        /\ pc' = "cleanup"
        /\ UNCHANGED <<out, after>>

(***************************************************************************)
(* validatePod.  GetPodResources keys the pods by name alone, so of two    *)
(* listed pods of one name the one listed last is the one looked at.       *)
(***************************************************************************)
\* Faulty variants: the devices are counted but not compared; or "<" for "=".
MatchesByCount(devs) == Cardinality(devs) = Cardinality(Served) /\ devs # {}
MatchesFewer(devs) == Cardinality(devs) < Cardinality(Served) /\ devs \subseteq Served

Matches(devs) ==
  /\ Cardinality(devs) = Cardinality(Served)
  /\ devs # {}
  /\ devs \subseteq Served

Listed(name) == {p \in Pods : pods[p] # {} /\ NameOf[p] = name}

ValidatePod ==
  /\ pc = "validate"
  /\ "listed" \in Lookup
  /\ LET found == Listed(Received[req.arg]) IN
     \/ \E p \in found : \E devs \in pods[p] :
          /\ Matches(devs)
          /\ trusted' = p
          /\ proof' = devs
          /\ Reply(<<Logged("/host_ok")>>, "read")
     \/ /\ found = {} \/ \E p \in found : ~ \E devs \in pods[p] : Matches(devs)
        /\ Reply(<<Logged("/host_nak")>>, "cleanup")
        /\ UNCHANGED <<trusted, proof>>
  /\ UNCHANGED <<sockVars, conn, req, pods, xsk, granted, answers>>

\* Faulty variant: a failed lookup ends the server without a word.
ListErrorSilent ==
  /\ pc = "validate"
  /\ "listError" \in Lookup
  /\ pc' = "cleanup"
  /\ UNCHANGED <<sockVars, conn, req, out, after, pods, xsk, history>>

\* The List call fails: the error is answered, and so is the unset "connected".
ListError ==
  /\ pc = "validate"
  /\ "listError" \in Lookup
  /\ Reply(<<Logged("/error"), Logged("/host_nak")>>, "cleanup")
  /\ UNCHANGED <<sockVars, conn, req, pods, xsk, history>>

\* The process ends, and what was sent to it and what it had to send is lost.
Die ==
  /\ pc' = "dead"
  /\ reqs' = [c \in Clients |-> <<>>]
  /\ out' = <<>>
  /\ UNCHANGED <<sockFile, cst, resps, conn, req, after, pods, xsk, history>>

\* The dial fails: Close on the nil connection panics, ending the process.
DialError ==
  /\ pc = "validate"
  /\ "dialError" \in Lookup
  /\ Die

\* The loop: one action for each case of the switch.
ReadVersion(r) ==
  /\ pc = "read" /\ r.kind = "version"
  /\ Read(r)
  /\ Reply(<<Fatal("0.1")>>, "read")
  /\ UNCHANGED xsk

ReadFin(r) ==
  /\ pc = "read" /\ r.kind = "fin"
  /\ Read(r)
  /\ Reply(<<Fatal("/fin_ack")>>, "cleanup")
  /\ UNCHANGED xsk

\* A second connect is as unknown as anything else.
ReadOther(r) ==
  /\ pc = "read" /\ r.kind \in {"connect", "connectBad", "other"}
  /\ Read(r)
  /\ Reply(<<Fatal("/nak")>>, "read")
  /\ UNCHANGED xsk

\* Faulty variants: any device is granted; a malformed request is answered twice.
ReadFdUnchecked(r) ==
  /\ pc = "read" /\ r.kind = "fd"
  /\ Read(r)
  /\ UNCHANGED xsk
  /\ Reply(<<[Fatal("/fd_ack") EXCEPT !.dev = r.arg]>>, "read")

ReadFdTwice(r) ==
  /\ pc = "read" /\ r.kind = "fdBad"
  /\ Read(r)
  /\ UNCHANGED xsk
  /\ Reply(<<Fatal("/nak"), Fatal("/fd_nak")>>, "read")

\* handleFdRequest: the descriptor rides on the acknowledgement.
ReadFd(r) ==
  /\ pc = "read" /\ r.kind \in {"fd", "fdBad"}
  /\ Read(r)
  /\ UNCHANGED xsk
  /\ \/ /\ r.kind = "fdBad"
        /\ Reply(<<Fatal("/nak")>>, "read")
     \/ /\ r.kind = "fd" /\ r.arg \in Served
        /\ Reply(<<[Fatal("/fd_ack") EXCEPT !.dev = r.arg]>>, "read")
     \/ /\ r.kind = "fd" /\ r.arg \notin Served
        /\ Reply(<<Fatal("/fd_nak")>>, "read")

(***************************************************************************)
(* handleBusyPollRequest.  Refusing a request that carries no descriptor   *)
(* does not return: the words are parsed all the same, and good ones lead  *)
(* to Configure_busy_poll on descriptor 0, which is no socket.             *)
(***************************************************************************)
Refusal(r) == IF r.fd THEN <<>> ELSE <<Fatal("/config_busy_poll_nak")>>

ReadBusyPoll(r) ==
  /\ pc = "read" /\ r.kind \in PollKinds
  /\ Read(r)
  /\ \/ /\ r.kind = "busyPollBad"
        /\ Reply(Refusal(r) \o <<Fatal("/nak")>>, "read")
        /\ UNCHANGED xsk
     \/ /\ r.kind = "busyPollText" /\ r.fd
        /\ pc' = "cleanup"
        /\ UNCHANGED <<out, after, xsk>>
     \/ /\ r.kind = "busyPollText" /\ ~r.fd
        /\ Reply(Refusal(r), "cleanup")
        /\ UNCHANGED xsk
     \/ /\ r.kind = "busyPoll" /\ ~r.fd
        /\ Reply(Refusal(r) \o <<Logged("/config_busy_poll_nak")>>, "cleanup")
        /\ UNCHANGED xsk
     \/ /\ r.kind = "busyPoll" /\ r.fd
        /\ \E ok \in Kernel :
             LET res == Configure_busy_poll(xsk, ok) IN
             /\ xsk' = res.sock
             /\ \/ /\ res.ret = 0
                   /\ Reply(<<Logged("/config_busy_poll_ack")>>, "read")
                \/ /\ res.ret # 0
                   /\ Reply(<<Logged("/config_busy_poll_nak")>>, "cleanup")

ReadRequest(r) ==
  ReadVersion(r) \/ ReadFin(r) \/ ReadOther(r) \/ ReadFd(r) \/ ReadBusyPoll(r)

\* EOF or ECONNRESET: the client is gone, perhaps with requests unread.
ReadFails ==
  /\ pc \in {"readConnect", "read"}
  /\ cst[conn] = "shut"
  /\ pc' = "cleanup"
  /\ UNCHANGED <<sockVars, conn, req, out, after, pods, xsk, history>>

\* Faulty variant: only the listener has a deadline.
TimesOutAccepting ==
  /\ Timeout
  /\ pc = "accept"
  /\ pc' = "cleanup"
  /\ UNCHANGED <<sockVars, conn, req, out, after, pods, xsk, history>>

\* The deadline passes; a client or a request may arrive at that very moment.
TimesOut ==
  /\ Timeout
  /\ pc \in {"accept", "readConnect", "read"}
  /\ pc' = "cleanup"
  /\ UNCHANGED <<sockVars, conn, req, out, after, pods, xsk, history>>

\* Accept or read fails for another reason; nothing says that it ever does.
SocketFails ==
  /\ pc \in {"accept", "readConnect", "read"}
  /\ pc' = "cleanup"
  /\ UNCHANGED <<sockVars, conn, req, out, after, pods, xsk, history>>

AfterWrite(rest) == IF rest = <<>> THEN after ELSE "write"

\* Write and writeWithFD, with the socket able to take the message.
Write ==
  /\ pc = "write"
  /\ out # <<>>
  /\ cst[conn] = "open"
  /\ Len(resps[conn]) < SockBuf
  /\ LET a == Head(out) IN
     /\ resps' = [resps EXCEPT ![conn] =
                    Append(@, [msg |-> a.msg, dev |-> a.dev])]
     /\ granted' = [granted EXCEPT ![conn] =
                      IF a.msg = "/fd_ack" THEN @ \cup {a.dev} ELSE @]
  /\ answers' = answers + 1
  /\ out' = Tail(out)
  /\ pc' = AfterWrite(Tail(out))
  /\ UNCHANGED <<sockFile, cst, reqs, conn, req, after, pods, xsk,
                 trusted, proof>>

\* Faulty variant: a write to a client that is gone waits for a deadline.
WriteFailsLate ==
  /\ pc = "write"
  /\ out # <<>>
  /\ Timeout /\ cst[conn] = "shut"
  /\ out' = <<>>
  /\ pc' = "cleanup"
  /\ UNCHANGED <<sockVars, conn, req, after, pods, xsk, history>>

\* EPIPE, or the deadline of the last read passes while the socket is full.
WriteFails ==
  /\ pc = "write"
  /\ out # <<>>
  /\ \/ cst[conn] = "shut"
     \/ Timeout /\ Len(resps[conn]) >= SockBuf
  /\ \/ /\ Head(out).fatal
        /\ out' = <<>>
        /\ pc' = "cleanup"
     \/ /\ ~Head(out).fatal
        /\ out' = Tail(out)
        /\ pc' = AfterWrite(Tail(out))
  /\ UNCHANGED <<sockVars, conn, req, after, pods, xsk, history>>

\* The deferred cleanup: listener, connection and file go.
Cleanup ==
  /\ pc = "cleanup"
  /\ pc' = "gone"
  /\ sockFile' = FALSE
  /\ reqs' = [c \in Clients |-> <<>>]
  /\ UNCHANGED <<cst, resps, conn, req, out, after, pods, xsk, history>>

\* The device plugin exits, or dies, and takes the goroutine with it.
PluginStops ==
  /\ MayStop
  /\ ~Over
  /\ Die

-----------------------------------------------------------------------------
ServerStep ==
  \/ Listen \/ ListenFails
  \/ \E c \in Clients : Accept(c)
  \/ \E r \in Asks : ReadConnect(r) \/ ReadRequest(r)
  \/ ValidatePod \/ ListError \/ DialError
  \/ ReadFails \/ TimesOut
  \/ Write \/ WriteFails
  \/ Cleanup

Environment ==
  \/ \E c \in Clients : ClientStep(c)
  \/ \E p \in Pods : PodChange(p)
  \/ SocketFails
  \/ PluginStops

Next == ServerStep \/ Environment

Spec == Init /\ [][Next]_vars

(***************************************************************************)
(* The Go scheduler and the runtime's poller run a goroutine that can run, *)
(* and a deadline that was set does pass.  Nothing is assumed of clients,  *)
(* of the kubelet, of errors of the socket or of the life of the process.  *)
(***************************************************************************)
FairSpec == Spec /\ WF_vars(ServerStep)

-----------------------------------------------------------------------------
\* Every variable stays in its type, and a connection exists once accepted.
TypeOK ==
  /\ pc \in {"start", "accept", "readConnect", "validate", "read", "write",
             "cleanup", "gone", "dead"}
  /\ after \in {"read", "cleanup"}
  /\ sockFile \in BOOLEAN
  /\ cst \in [Clients -> {"new", "open", "shut"}]
  /\ reqs \in [Clients -> Seq(Request)]
  /\ resps \in [Clients -> Seq(Response)]
  /\ conn \in Clients \cup {NoClient}
  /\ req \in Request \cup {NoRequest}
  /\ out \in Seq(Answer)
  /\ pods \in [Pods -> SUBSET SUBSET Devices]
  /\ xsk \in Socket
  /\ trusted \in Pods \cup {NoPod}
  /\ proof \in SUBSET Devices
  /\ granted \in [Clients -> SUBSET Devices]
  /\ answers \in Nat
  /\ pc \in {"readConnect", "validate", "read", "write"} => conn \in Clients

(***************************************************************************)
(* A descriptor reaches a client only if it is the accepted one and only   *)
(* after a container holding exactly the served devices was found for the  *)
(* name it gave: the code compares lengths and then membership one way.    *)
(***************************************************************************)
GrantsAreProved ==
  \A c \in Clients :
    granted[c] # {} => /\ c = conn
                       /\ trusted # NoPod
                       /\ granted[c] \subseteq proof
                       /\ proof = Served

(***************************************************************************)
(* A request that is answered more than once ends the connection, so a     *)
(* client that takes one answer per request never takes a late answer to   *)
(* one request for the answer to the next.  There is one exception: a      *)
(* malformed busy-poll request without a descriptor is refused twice.      *)
(***************************************************************************)
RefusedTwice == req.kind = "busyPollBad" /\ ~req.fd

InStep == answers > 1 => after = "cleanup" \/ RefusedTwice

(***************************************************************************)
(* "/host_nak" is the first answer to a connect only when no pod of the    *)
(* stated name has a container that holds exactly the served devices       *)
(* (constants.go: "if an invalid podname was sent"); or when the name does *)
(* not fit the buffer; or when another pod of that name is listed too.     *)
(***************************************************************************)
ValidName(name) ==
  Served # {} /\ \E p \in Pods : NameOf[p] = name /\ Served \in pods[p]

Confused(name) ==
  \/ Received[name] # name
  \/ \E p, q \in Listed(name) : p # q

NakMeansInvalidName ==
  [][pc = "validate" /\ pc' = "write" /\ Head(out').msg = "/host_nak"
       => ~ValidName(req.arg) \/ Confused(req.arg)]_vars

(***************************************************************************)
(* "/config_busy_poll_ack" is queued only when the socket is configured    *)
(* (constants.go: "if busy poll was successfully configured").             *)
(***************************************************************************)
AckMeansConfigured ==
  [][pc = "read" /\ (\E i \in DOMAIN out' : out'[i].msg = "/config_busy_poll_ack")
       => Configured(xsk')]_vars

(***************************************************************************)
(* An acknowledged busy-poll request never leaves a socket half-way, that  *)
(* prefers busy polling without a timeout or a budget to poll with: what   *)
(* is not configured after all was taken back (Configure_busy_poll).       *)
(***************************************************************************)
AckNeverHalfway ==
  [][pc = "read" /\ (\E i \in DOMAIN out' : out'[i].msg = "/config_busy_poll_ack")
       => Configured(xsk') \/ ~xsk'.prefer]_vars

(***************************************************************************)
(* With a timeout the socket file does not outlive its server for ever, as *)
(* long as the plugin itself lives and no client sends for ever: every     *)
(* read sets the deadline anew (uds.go: "s.conn.SetDeadline").             *)
(***************************************************************************)
SendingEnds == <>[][\A c \in Clients : Len(reqs'[c]) <= Len(reqs[c])]_vars

SocketReclaimed == SendingEnds => (sockFile ~> (~sockFile \/ pc = "dead"))

(***************************************************************************)
(* Even without a timeout, a client that hangs up releases the server,     *)
(* wherever the goroutine is and whatever is left in the buffers.          *)
(***************************************************************************)
HangUpReleases ==
  \A c \in Clients : (conn = c /\ cst[c] = "shut") ~> Over

(***************************************************************************)
(* A client whose connect is being validated gets an answer, if only       *)
(* "/error" (constants.go: "an error occurred on the device plugin end"),  *)
(* unless it hangs up, or the plugin dies: of a signal, or of the lookup   *)
(* itself, when it cannot dial the kubelet (resources_api.go:86).          *)
(***************************************************************************)
ConnectAnswered ==
  \A c \in Clients :
    (pc = "validate" /\ conn = c) ~> (answers > 0 \/ cst[c] = "shut" \/ pc = "dead")

(***************************************************************************)
(* The server implements the service: its steps are steps of FdService.    *)
(***************************************************************************)
Phase ==
  IF pc \in {"cleanup", "gone", "dead"} THEN "over"
  ELSE IF trusted # NoPod THEN "trusted"
  ELSE IF conn # NoClient THEN "accepted"
  ELSE "waiting"

Service == INSTANCE FdService WITH
             phase <- Phase, client <- conn, holds <- pods, granted <- granted

ImplementsFdService == Service!Spec
============================================================================
