------------------------------ MODULE Programs ------------------------------
(***************************************************************************)
(* The programs on top of the endpoint: the clients mcget and tmclient     *)
(* with the echo server tmserver on the same machine, and testbase, whose  *)
(* two tests make a confirmable request each to a server elsewhere.  They  *)
(* call mc_endpt_udp_recv and mc_endpt_udp_check_queues themselves, one    *)
(* after the other, without mc_endpt_udp_loop.                             *)
(*                                                                         *)
(* The requests of a program are numbered; a datagram is known by the      *)
(* request it belongs to.  The network loses, duplicates and delays.  All  *)
(* of this is on POSIX, where a socket whose bind failed stays blocking.   *)
(***************************************************************************)
EXTENDS Integers, Sequences, SequencesExt, FiniteSetsExt, Bags

CONSTANTS
  Lines,           \* what is run: records of program, args, and server, the args of tmserver
  Number,          \* atoi of every word in them
  UriPort,         \* the port in every URI among them
  MAX_RETRANSMIT,
  Duplicates       \* bound on the datagrams that the network duplicates

ASSUME BoundsAssumption == MAX_RETRANSMIT \in Nat \ {0} /\ Duplicates \in Nat

ASSUME LinesAssumption == \A l \in Lines : l.args \in Seq(STRING)

VARIABLES
  line,       \* which of Lines
  pc,         \* "args", "open" (an endpoint), "send", "recv", "check" (the queue), "done",
              \* "crashed" (a null pointer is followed)
  port,       \* the port the program is to listen on
  todo,       \* what is asked for: a URI, a port of the server, or a test
  turn,       \* which of these is next
  sock,       \* the endpoint's socket: "nonblocking" and bound, "blocking" and not, "invalid"
  msg,        \* the message received, Nothing if there is none
  tries,      \* calls of recv for this turn
  queued,     \* the confirm queue holds the request of this turn
  due,        \* its timeout is over
  completed,  \* the status that result_fn stored, "no" if it was not called
  net,        \* the datagrams under way, a bag
  copies,     \* history: how often the requests have been sent
  duplicated, \* history: datagrams duplicated by the network
  reports     \* what was printed: for every turn the request whose answer it took for its
              \* own, 0 for none

queue == <<queued, due, completed>>
network == <<net, copies, duplicated>>
vars == <<line, pc, port, todo, turn, sock, msg, tries, queue, network, reports>>

Nothing == [kind |-> "none"]
MC_DEFAULT_PORT == 5683

Init ==
  /\ line \in Lines /\ pc = "args" /\ port = MC_DEFAULT_PORT /\ todo = <<>> /\ turn = 1
  /\ sock = "invalid" /\ msg = Nothing /\ tries = 0
  /\ queued = FALSE /\ due = FALSE /\ completed = "no"
  /\ net = EmptyBag /\ copies = <<>> /\ duplicated = 0 /\ reports = <<>>

-----------------------------------------------------------------------------
(* Arguments; 0 stands for an error in them.  argv[0] is not in args.      *)

\* The number behind the first flag that is not the last word, as an unsigned short.
GetPort(args, flag, default) ==
  LET at == {i \in 1..(Len(args) - 1) : args[i] = flag}
  IN  IF at # {} THEN Number[args[Min(at) + 1]] % 65536
      ELSE IF args # <<>> /\ Last(args) = flag THEN 0 ELSE default

McgetPort(args) == GetPort(args, "-p", MC_DEFAULT_PORT)
TmserverPort(args) == GetPort(args, "-s", MC_DEFAULT_PORT)

\* Faulty variant: only the flag is taken out, not its value.
PackArgsKeepsPort(args) == SelectSeq(args, LAMBDA a : a # "-p")

\* Every -p goes and the word behind it.
PackArgs(args) ==
  FoldLeft(LAMBDA acc, a :
             IF acc.skip THEN [acc EXCEPT !.skip = FALSE]
             ELSE IF a = "-p" THEN [acc EXCEPT !.skip = TRUE]
             ELSE [acc EXCEPT !.uris = Append(@, a)],
           [skip |-> FALSE, uris |-> <<>>], args).uris

\* Run what there is to do, or print the usage and end.
Start(ok, listen, what) ==
  /\ pc = "args"
  /\ pc' = IF ok THEN "open" ELSE "done"
  /\ port' = listen
  /\ todo' = IF ok THEN what ELSE <<>>
  /\ copies' = [k \in DOMAIN todo' |-> 0]
  /\ UNCHANGED <<line, turn, sock, msg, tries, queue, net, duplicated, reports>>

McgetMain ==
  /\ line.program = "mcget"
  /\ LET uris == PackArgs(line.args)
     IN  Start(McgetPort(line.args) # 0 /\ uris # <<>>, McgetPort(line.args), uris)

TmclientMain ==
  /\ line.program = "tmclient"
  /\ LET cltport == GetPort(line.args, "-c", MC_DEFAULT_PORT + 1)
         srvport == GetPort(line.args, "-s", MC_DEFAULT_PORT)
         ntimes == GetPort(line.args, "-t", 10)
         nbytes == GetPort(line.args, "-b", 256)
     IN  Start(0 \notin {cltport, srvport, ntimes, nbytes}, cltport,
               [k \in 1..ntimes |-> srvport])

RunAllTests ==
  line.program = "testbase" /\ Start(TRUE, MC_DEFAULT_PORT, <<"core01", "core02">>)

-----------------------------------------------------------------------------
(* Endpoints and datagrams.                                                *)

\* mc_endpt_udp_init, whose result nobody looks at.  The sockets of earlier turns are
\* never closed.
Open ==
  /\ pc = "open"
  /\ pc' = "send"
  /\ sock' \in {"nonblocking", "blocking", "invalid"}
  /\ UNCHANGED <<line, port, todo, turn, msg, tries, queue, network, reports>>

\* Where the socket receives: the port it is bound to, or one the system finds for it.
Home == IF sock = "nonblocking" THEN port ELSE -turn

\* The port asked; testbase asks a server elsewhere.
Dest(k) ==
  IF line.program = "mcget" THEN UriPort[todo[k]]
  ELSE IF line.program = "tmclient" THEN todo[k] ELSE 0

Datagram(kind, k, home) == [kind |-> kind, turn |-> k, client |-> home]

\* A request goes out, or the socket refuses it.
Sent ==
  /\ sock # "invalid"
  /\ net' = net (+) SetToBag({Datagram("request", turn, Home)})
  /\ copies' = [copies EXCEPT ![turn] = @ + 1]
  /\ UNCHANGED duplicated

NotSent == UNCHANGED network

\* What recvfrom may find: an answer to this port, even to a request of an earlier socket
\* there; and, if the server is asked on the port the client listens on, a request.
Arrived ==
  {d \in BagToSet(net) :
     /\ sock # "invalid"
     /\ IF d.kind = "request"
          THEN line.program # "testbase" /\ sock = "nonblocking" /\ Dest(d.turn) = port
          ELSE d.client = Home}

Receive(d) ==
  /\ d \in Arrived
  /\ net' = net (-) SetToBag({d})
  /\ msg' = d
  /\ UNCHANGED <<copies, duplicated>>

\* The timeout is over, or recvfrom fails; a blocking socket knows no timeout.
ReceiveNothing ==
  /\ sock # "blocking"
  /\ msg' = Nothing
  /\ UNCHANGED network

Report(k, next) ==
  /\ reports' = Append(reports, k)
  /\ turn' = turn + 1
  /\ pc' = IF turn = Len(todo) THEN "done" ELSE next

-----------------------------------------------------------------------------
(* mcget: a nonconfirmable GET for every URI, up to three calls of recv.   *)

\* Faulty variant: the message of the turn before is still there.
McgetSendKeepsMsg ==
  /\ line.program = "mcget" /\ pc = "send"
  /\ pc' = "recv"
  /\ tries' = 0
  /\ Sent \/ NotSent
  /\ UNCHANGED <<line, port, todo, turn, sock, msg, queue, reports>>

McgetSend ==
  /\ line.program = "mcget" /\ pc = "send"
  /\ pc' = "recv"
  /\ msg' = Nothing /\ tries' = 0
  /\ Sent \/ NotSent
  /\ UNCHANGED <<line, port, todo, turn, sock, queue, reports>>

\* Faulty variant: only calls that find something count.
McgetRecvUncounted ==
  /\ line.program = "mcget" /\ pc = "recv" /\ msg = Nothing /\ tries < 3
  /\ (\E d \in Arrived : Receive(d)) \/ ReceiveNothing
  /\ tries' = IF msg' = Nothing THEN tries ELSE tries + 1
  /\ UNCHANGED <<line, pc, port, todo, turn, sock, queue, reports>>

McgetRecv ==
  /\ line.program = "mcget" /\ pc = "recv" /\ msg = Nothing /\ tries < 3
  /\ (\E d \in Arrived : Receive(d)) \/ ReceiveNothing
  /\ tries' = tries + 1
  /\ UNCHANGED <<line, pc, port, todo, turn, sock, queue, reports>>

\* print_msg looks at neither id nor token.
McgetReport ==
  /\ line.program = "mcget" /\ pc = "recv" /\ (msg # Nothing \/ tries = 3)
  /\ Report(IF msg = Nothing THEN 0 ELSE msg.turn, "open")
  /\ UNCHANGED <<line, port, todo, sock, msg, tries, queue, network>>

-----------------------------------------------------------------------------
(* tmclient: posts with a number each from one socket, one call of recv.   *)

TmclientSend ==
  /\ line.program = "tmclient" /\ pc = "send"
  /\ pc' = "recv"
  /\ Sent \/ NotSent
  /\ UNCHANGED <<line, port, todo, turn, sock, msg, tries, queue, reports>>

\* process_resp prints the number that comes back, if something does.
Shown(m) == IF m = Nothing THEN 0 ELSE m.turn

TmclientRecv ==
  /\ line.program = "tmclient" /\ pc = "recv"
  /\ (\E d \in Arrived : Receive(d)) \/ ReceiveNothing
  /\ Report(Shown(msg'), "send")
  /\ UNCHANGED <<line, port, todo, sock, tries, queue>>

-----------------------------------------------------------------------------
(* testbase: recv and check_queues until there is a message or a result.   *)

\* What a server elsewhere sends: acknowledgements with the response expected ("answer"),
\* with another one ("refusal") and without options, which an empty one is too ("ack");
\* messages that are none, with options ("response") and without ("bare", as a reset is); and
\* what cannot be parsed ("garbled").
Acks == {"answer", "refusal", "ack"}
Bare == {"ack", "bare"}

\* result_fn, and its caller removes the request from the queue.
Completes(status) == queued' = FALSE /\ completed' = status

\* send_con_msg; if the send fails the request is not queued for long.  completed is the
\* test's own.
CoreSend ==
  /\ line.program = "testbase" /\ pc = "send"
  /\ pc' = "recv"
  /\ msg' = Nothing /\ due' = FALSE
  /\ \/ Sent /\ queued' = TRUE /\ completed' = "no"
     \/ NotSent /\ Completes("ERROR")
  /\ UNCHANGED <<line, port, todo, turn, sock, tries, reports>>

\* Faulty variant: only a message ends the loop.
CoreLoopsForMsg == line.program = "testbase" /\ pc = "recv" /\ msg = Nothing

CoreLoops == line.program = "testbase" /\ pc = "recv" /\ msg = Nothing /\ completed = "no"

\* An acknowledgement takes its request from the queue; one of an earlier turn finds none.
CoreRecvAck ==
  /\ CoreLoops
  /\ \E d \in Arrived :
       /\ d.kind \in Acks
       /\ Receive(d)
       /\ IF d.turn = turn /\ queued
            THEN pc' = "check" /\ Completes("DONE")
            ELSE pc' = "crashed" /\ UNCHANGED <<queued, completed>>
  /\ UNCHANGED <<line, port, todo, turn, sock, tries, due, reports>>

CoreRecv ==
  /\ CoreLoops
  /\ (\E d \in Arrived : d.kind \in {"response", "bare"} /\ Receive(d)) \/ ReceiveNothing
  /\ pc' = "check"
  /\ UNCHANGED <<line, port, todo, turn, sock, tries, queue, reports>>

\* The parser returns no message, and its sender is stored in it.
CoreRecvGarbled ==
  /\ CoreLoops
  /\ \E d \in Arrived : d.kind = "garbled" /\ Receive(d)
  /\ pc' = "crashed"
  /\ UNCHANGED <<line, port, todo, turn, sock, tries, queue, reports>>

Checked ==
  /\ pc = "check" /\ pc' = "recv"
  /\ UNCHANGED <<line, port, todo, turn, sock, msg, tries, reports>>

CheckNothing == Checked /\ ~(queued /\ due) /\ UNCHANGED <<queue, network>>

CheckResends ==
  /\ Checked /\ queued /\ due /\ copies[turn] < MAX_RETRANSMIT
  /\ due' = FALSE
  /\ \/ Sent /\ UNCHANGED <<queued, completed>>
     \/ NotSent /\ Completes("ERROR")

CheckGivesUp ==
  /\ Checked /\ queued /\ due /\ copies[turn] >= MAX_RETRANSMIT
  /\ due' = FALSE /\ Completes("TIMEOUT")
  /\ UNCHANGED network

CoreEnds == line.program = "testbase" /\ pc = "recv" /\ (msg # Nothing \/ completed # "no")

\* Faulty variant: ids are not compared.
PassesAnyId == msg # Nothing /\ msg.kind \in {"answer", "response"}

\* The test fails without a message, with another code or no format option ("refusal"), and
\* with another id (a response outside the acknowledgement).
Passes == msg # Nothing /\ msg.kind = "answer" /\ msg.turn = turn

\* The test prints the message with its options; where there are none there is no list.
Printable == msg # Nothing => msg.kind \notin Bare

\* What a failed assertion leaves behind stays there: it leaves the test at once.
CoreReport ==
  /\ CoreEnds /\ Printable
  /\ Report(IF Passes THEN turn ELSE 0, "open")
  /\ UNCHANGED <<line, port, todo, sock, msg, tries, queue, network>>

CorePrintsBare ==
  /\ CoreEnds /\ ~Printable
  /\ pc' = "crashed"
  /\ UNCHANGED <<line, port, todo, turn, sock, msg, tries, queue, network, reports>>

-----------------------------------------------------------------------------
(* Servers, network and time.                                              *)

Exchange(d, replies) ==
  /\ d \in BagToSet(net)
  /\ net' = (net (-) SetToBag({d})) (+) SetToBag(replies)
  /\ UNCHANGED <<line, pc, port, todo, turn, sock, msg, tries, queue, copies, reports>>

\* tmserver, if it runs on the port asked, echoes (the loop and request_handler).
TmserverEchoes ==
  \E d \in BagToSet(net) :
    /\ line.program # "testbase"
    /\ d.kind = "request" /\ TmserverPort(line.server) = Dest(d.turn)
    /\ Exchange(d, {[d EXCEPT !.kind = "answer"]})
    /\ UNCHANGED duplicated

\* A server elsewhere replies to every copy: with the response in the acknowledgement or
\* after it, with a reset, or with what cannot be parsed.
Replies == {{k} : k \in Acks} \cup {{"ack", "response"}, {"bare"}, {"garbled"}}

ServerAnswers ==
  \E d \in BagToSet(net), kinds \in Replies :
    /\ line.program = "testbase" /\ d.kind = "request"
    /\ Exchange(d, {[d EXCEPT !.kind = k] : k \in kinds})
    /\ UNCHANGED duplicated

Lose == \E d \in BagToSet(net) : Exchange(d, {}) /\ UNCHANGED duplicated

Duplicate ==
  /\ duplicated < Duplicates
  /\ \E d \in BagToSet(net) :
       /\ net' = net (+) SetToBag({d})
       /\ UNCHANGED <<line, pc, port, todo, turn, sock, msg, tries, queue, copies, reports>>
  /\ duplicated' = duplicated + 1

Expire ==
  /\ queued /\ ~due
  /\ due' = TRUE
  /\ UNCHANGED <<line, pc, port, todo, turn, sock, msg, tries, queued, completed, network, reports>>

Program ==
  \/ McgetMain \/ TmclientMain \/ RunAllTests \/ Open
  \/ McgetSend \/ McgetRecv \/ McgetReport \/ TmclientSend \/ TmclientRecv
  \/ CoreSend \/ CoreRecvAck \/ CoreRecv \/ CoreRecvGarbled
  \/ CheckNothing \/ CheckResends \/ CheckGivesUp \/ CoreReport \/ CorePrintsBare

Next == Program \/ TmserverEchoes \/ ServerAnswers \/ Lose \/ Duplicate \/ Expire

Spec == Init /\ [][Next]_vars

\* The program runs, and time passes.
FairSpec == Spec /\ WF_vars(Program) /\ WF_vars(Expire)

-----------------------------------------------------------------------------
\* The last word before i that is no -p, 0 if there is none.
BeforeFlags(args, i) == Max({0} \cup {j \in 1..(i - 1) : args[j] # "-p"})

\* A word is a URI if it is no -p and not the value of one, which can be another -p.
IsUri(args, i) == args[i] # "-p" /\ (i - 1 - BeforeFlags(args, i)) % 2 = 0

UrisUpTo(args, i) == Cardinality({j \in 1..i : IsUri(args, j)})

\* mcget "takes a list of coap urls and issues a GET request for each resource"
\* (mcget.c:2-3): there is one report for every URI, in the order given, whatever the
\* options around them, unless an option is wrong or there is no URI.
OneReportPerUri ==
  pc = "done" /\ line.program = "mcget" =>
    LET args == line.args
    IN  /\ Len(reports) = Len(todo)
        /\ todo # <<>> =>
             /\ Len(todo) = UrisUpTo(args, Len(args))
             /\ \A i \in DOMAIN args : IsUri(args, i) => todo[UrisUpTo(args, i)] = args[i]
        /\ todo = <<>> => UrisUpTo(args, Len(args)) = 0 \/ \E i \in DOMAIN args :
             args[i] = "-p" /\ (i < Len(args) => Number[args[i + 1]] % 65536 = 0)

\* Clients show whatever they receive.  What a client shows for a request is never of a
\* later one, every answer is shown once unless the network duplicated it, and only
\* something that listens on the port asked can be behind it.
AnswersShownOnce ==
  line.program # "testbase" =>
    \A i \in DOMAIN reports :
      reports[i] # 0 =>
        /\ reports[i] <= i
        /\ \A j \in DOMAIN reports : j # i /\ reports[j] = reports[i] => duplicated > 0
        /\ Dest(reports[i]) \in {TmserverPort(line.server), port}

\* A test that passes has its result, and leaves no request in the queue that
\* mc_endpt_udp_deinit would forget (mc_endpt_udp.c:82).
NothingLeftBehind ==
  [][line.program = "testbase" /\ reports' # reports /\ Last(reports') # 0 =>
       ~queued /\ completed = "DONE"]_vars

\* Three things take testbase down: a datagram that recv cannot parse (mc_endpt_udp.c:186);
\* a message without options, which the test prints (print.c:28); and, in the second test
\* only, an acknowledgement left over from the first (mc_endpt_udp.c:197), of a second copy,
\* duplicated, or of a test that had failed before it came.
CrashesExplained ==
  pc = "crashed" =>
    \/ msg.kind \in {"garbled", "bare"}
    \/ msg.kind = "ack" /\ msg.turn = turn
    \/ /\ msg.kind \in Acks /\ msg.turn = 1 /\ turn = 2
       /\ copies[1] > 1 \/ duplicated > 0 \/ reports[1] = 0

\* Every program ends if its sockets are bound, answered or not.
ProgramEnds == <>(pc \in {"done", "crashed"} \/ sock = "blocking")
=============================================================================
