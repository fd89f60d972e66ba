--------------------------- MODULE ProgramsProofs ---------------------------
(***************************************************************************)
(* Theorems about Programs, for all command lines, limits and numbers of   *)
(* duplicates: a test that passes leaves no request in the confirm queue,  *)
(* what the clients show, what takes testbase down, and that mcget asks    *)
(* for every URI among its arguments.                                      *)
(***************************************************************************)
EXTENDS Programs, NatFacts, FiniteSetTheorems, TLAPS

\* In the loop of a test, an acknowledgement is one of its own request and has taken that
\* from the queue.
AcksEndRequest ==
  line.program = "testbase" =>
    /\ turn \in Nat /\ reports \in Seq(Nat)
    /\ pc \in {"recv", "check"} /\ msg # Nothing /\ msg.kind \in Acks =>
         ~queued /\ completed = "DONE" /\ msg.turn = turn

\* The steps that no test makes.
Clients == McgetMain \/ TmclientMain \/ McgetSend \/ McgetRecv \/ McgetReport \/ TmclientSend \/ TmclientRecv

LEMMA TestsAreNoClients == line.program = "testbase" => ~Clients
  BY DEF Clients, McgetMain, TmclientMain, McgetSend, McgetRecv, McgetReport, TmclientSend,
         TmclientRecv

LEMMA LineStays == ASSUME [Next]_vars PROVE line' = line
  <1>1. CASE Clients \/ RunAllTests \/ Open
    BY <1>1
       DEF Clients, McgetMain, TmclientMain, McgetSend, McgetRecv, McgetReport, TmclientSend,
           TmclientRecv, RunAllTests, Start, Open
  <1>2. CASE CoreSend \/ CoreRecvAck \/ CoreRecv \/ CoreRecvGarbled \/ CoreReport \/ CorePrintsBare
    BY <1>2 DEF CoreSend, CoreRecvAck, CoreRecv, CoreRecvGarbled, CoreReport, CorePrintsBare
  <1>3. CASE CheckNothing \/ CheckResends \/ CheckGivesUp
    BY <1>3 DEF CheckNothing, CheckResends, CheckGivesUp, Checked
  <1>4. CASE TmserverEchoes \/ ServerAnswers \/ Lose
    BY <1>4 DEF TmserverEchoes, ServerAnswers, Lose, Exchange
  <1>5. CASE Duplicate \/ Expire \/ UNCHANGED vars
    BY <1>5 DEF Duplicate, Expire, vars
  <1>. QED  BY <1>1, <1>2, <1>3, <1>4, <1>5 DEF Next, Program, Clients

LEMMA AcksInit == Init => AcksEndRequest
  BY DEF Init, AcksEndRequest

LEMMA AcksNext == ASSUME AcksEndRequest, [Next]_vars PROVE AcksEndRequest'
  <1>. SUFFICES ASSUME line.program = "testbase" PROVE AcksEndRequest'
    BY LineStays DEF AcksEndRequest
  <1>. USE DEF AcksEndRequest
  <1>1. CASE RunAllTests
    BY <1>1 DEF RunAllTests, Start, queue
  <1>2. CASE Open
    BY <1>2 DEF Open, queue
  <1>3. CASE CoreSend
    BY <1>3 DEF CoreSend, Nothing
  <1>4. CASE CoreRecvAck
    BY <1>4 DEF CoreRecvAck, Completes, Receive
  <1>5. CASE CoreRecv
    <2>1. msg' = Nothing \/ msg'.kind \in {"response", "bare"}
      BY <1>5 DEF CoreRecv, Receive, ReceiveNothing
    <2>. QED  BY <1>5, <2>1 DEF CoreRecv, Acks
  <1>6. CASE CheckNothing
    BY <1>6 DEF CheckNothing, Checked, queue
  <1>7. CASE CheckResends \/ CheckGivesUp
    BY <1>7 DEF CheckResends, CheckGivesUp, Checked
  <1>8. CASE CoreReport
    BY <1>8 DEF CoreReport, Report
  <1>9. CASE CorePrintsBare \/ CoreRecvGarbled
    BY <1>9 DEF CorePrintsBare, CoreRecvGarbled
  <1>10. CASE TmserverEchoes \/ ServerAnswers \/ Lose
    BY <1>10 DEF TmserverEchoes, ServerAnswers, Lose, Exchange, queue
  <1>11. CASE Duplicate \/ Expire \/ UNCHANGED vars
    BY <1>11 DEF Duplicate, Expire, vars, queue
  <1>. QED
    BY <1>1, <1>2, <1>3, <1>4, <1>5, <1>6, <1>7, <1>8, <1>9, <1>10, <1>11, TestsAreNoClients
       DEF Next, Program, Clients

LEMMA OnlyCoreReports ==
  ASSUME line.program = "testbase", [Next]_vars, reports' # reports
  PROVE  CoreReport
  <1>1. ~(RunAllTests \/ Open)
    BY DEF RunAllTests, Start, Open
  <1>2. ~(CoreSend \/ CoreRecvAck \/ CoreRecv \/ CoreRecvGarbled \/ CorePrintsBare)
    BY DEF CoreSend, CoreRecvAck, CoreRecv, CoreRecvGarbled, CorePrintsBare
  <1>3. ~(CheckNothing \/ CheckResends \/ CheckGivesUp)
    BY DEF CheckNothing, CheckResends, CheckGivesUp, Checked
  <1>4. ~(TmserverEchoes \/ ServerAnswers \/ Lose)
    BY DEF TmserverEchoes, ServerAnswers, Lose, Exchange
  <1>5. ~(Duplicate \/ Expire \/ UNCHANGED vars)
    BY DEF Duplicate, Expire, vars
  <1>. QED  BY <1>1, <1>2, <1>3, <1>4, <1>5, TestsAreNoClients DEF Next, Program, Clients

\* A test that passes has got its result, and mc_endpt_udp_deinit then forgets no request,
\* whatever is lost, delayed, duplicated and sent again, and however many copies are allowed.
THEOREM NothingLeftBehindHolds == Spec => NothingLeftBehind
  <1>. DEFINE Clean ==
         line.program = "testbase" /\ reports' # reports /\ Last(reports') # 0 =>
           ~queued /\ completed = "DONE"
  <1>1. ASSUME AcksEndRequest, [Next]_vars PROVE [Clean]_vars
    <2>1. SUFFICES ASSUME line.program = "testbase", reports' # reports, Last(reports') # 0
                   PROVE  ~queued /\ completed = "DONE"
      OBVIOUS
    <2>2. CoreReport
      BY <1>1, <2>1, OnlyCoreReports
    <2>3. pc = "recv" /\ reports' = Append(reports, IF Passes THEN turn ELSE 0)
      BY <2>2 DEF CoreReport, CoreEnds, Report
    <2>4. reports \in Seq(Nat) /\ turn \in Nat
      BY <1>1, <2>1 DEF AcksEndRequest
    <2>5. Passes
      <3>1. ASSUME ~Passes PROVE FALSE
        <4>1. reports' = Append(reports, 0)
          BY <2>3, <3>1
        <4>2. Last(reports') = 0
          BY <2>4, <4>1 DEF Last
        <4>. QED  BY <2>1, <4>2
      <3>. QED  BY <3>1
    <2>6. msg # Nothing /\ msg.kind \in Acks
      BY <2>5 DEF Passes, Acks
    <2>. QED  BY <1>1, <2>1, <2>3, <2>6 DEF AcksEndRequest
  <1>. HIDE DEF Clean
  <1>2. Spec => [][Clean]_vars
    BY <1>1, AcksInit, AcksNext, PTL DEF Spec
  <1>. QED  BY <1>2 DEF Clean, NothingLeftBehind
-----------------------------------------------------------------------------
(* The datagrams under way, and what the bags that hold them make of a step. *)

Kinds == {"request", "response", "bare", "garbled"} \cup Acks

IsDatagram(d, t) ==
  /\ d = [kind |-> d.kind, turn |-> d.turn, client |-> d.client]
  /\ d.kind \in Kinds /\ d.turn \in 1..t

\* The message that mcget holds, and prints next.
McgetHolds == line.program = "mcget" /\ pc = "recv" /\ msg # Nothing

\* Every datagram belongs to a request made so far: while one is about to be made, to an
\* earlier one.  There is a report for every turn that is over.
Types ==
  /\ turn \in Nat \ {0} /\ duplicated \in Nat
  /\ reports \in Seq(Nat) /\ Len(reports) = turn - 1
  /\ pc = "args" => turn = 1
  /\ pc \in {"check", "crashed"} => line.program = "testbase"
  /\ IsABag(net)
  /\ \A d \in DOMAIN net : IsDatagram(d, turn)
  /\ pc \in {"args", "open", "send"} => \A d \in DOMAIN net : d.turn < turn
  /\ McgetHolds => IsDatagram(msg, turn)

LEMMA BagWithMore ==
  ASSUME NEW B, IsABag(B), NEW S
  PROVE  LET C == B (+) SetToBag(S)
         IN  /\ IsABag(C) /\ DOMAIN C = DOMAIN B \cup S
             /\ \A d \in DOMAIN B \ S : C[d] = B[d]
             /\ \A d \in S \ DOMAIN B : C[d] = 1
  <1>. DEFINE C == B (+) SetToBag(S)
  <1>1. C = [e \in DOMAIN B \cup S |-> (IF e \in DOMAIN B THEN B[e] ELSE 0)
                                       + (IF e \in S THEN 1 ELSE 0)]
    BY DEF (+), SetToBag
  <1>. HIDE DEF C
  <1>2. \A e \in DOMAIN B : B[e] \in Nat /\ B[e] > 0
    BY DEF IsABag
  <1>3. DOMAIN C = DOMAIN B \cup S
    BY <1>1
  <1>4. \A e \in DOMAIN C : C[e] \in Nat /\ C[e] > 0
    BY <1>1, <1>2, <1>3
  <1>5. C = [e \in DOMAIN C |-> C[e]]
    BY <1>1, <1>3
  <1>6. IsABag(C)
    BY <1>4, <1>5 DEF IsABag
  <1>7. (\A d \in DOMAIN B \ S : C[d] = B[d]) /\ \A d \in S \ DOMAIN B : C[d] = 1
    BY <1>1, <1>2
  <1>. QED  BY <1>3, <1>6, <1>7 DEF C

LEMMA BagWithLess ==
  ASSUME NEW B, IsABag(B), NEW d \in DOMAIN B
  PROVE  LET C == B (-) SetToBag({d})
         IN  /\ IsABag(C) /\ DOMAIN C \subseteq DOMAIN B
             /\ B[d] = 1 => DOMAIN C = DOMAIN B \ {d}
             /\ \A e \in DOMAIN B \ {d} : e \in DOMAIN C /\ C[e] = B[e]
  <1>. DEFINE C == B (-) SetToBag({d})
              D == [e \in DOMAIN B |-> IF e \in {d} THEN B[e] - 1 ELSE B[e]]
  <1>1. C = [e \in {x \in DOMAIN D : D[x] > 0} |-> D[e]]
    BY DEF (-), SetToBag
  <1>2. \A e \in DOMAIN B : B[e] \in Nat /\ B[e] > 0
    BY DEF IsABag
  <1>3. \A e \in DOMAIN B : D[e] \in Nat /\ (e # d => D[e] = B[e]) /\ D[d] = B[d] - 1
    BY <1>2
  <1>4. DOMAIN D = DOMAIN B
    OBVIOUS
  <1>. HIDE DEF C, D
  <1>5. DOMAIN C = {x \in DOMAIN B : D[x] > 0} /\ \A e \in DOMAIN C : C[e] = D[e]
    BY <1>1, <1>4
  <1>6. C = [e \in DOMAIN C |-> C[e]]
    BY <1>1, <1>5
  <1>7. IsABag(C)
    <2>1. \A e \in DOMAIN C : C[e] \in Nat /\ C[e] > 0
      BY <1>3, <1>5
    <2>. QED  BY <2>1, <1>6 DEF IsABag
  <1>8. B[d] = 1 => DOMAIN C = DOMAIN B \ {d}
    BY <1>2, <1>3, <1>5
  <1>9. \A e \in DOMAIN B \ {d} : e \in DOMAIN C /\ C[e] = B[e]
    BY <1>2, <1>3, <1>5
  <1>. QED  BY <1>5, <1>7, <1>8, <1>9 DEF C
\* What a step makes of the datagrams under way.
LEMMA SendAdds ==
  ASSUME IsABag(net), Sent
  PROVE  LET r == Datagram("request", turn, Home)
         IN  /\ IsABag(net') /\ DOMAIN net' = DOMAIN net \cup {r}
             /\ \A d \in DOMAIN net \ {r} : net'[d] = net[d]
             /\ r \notin DOMAIN net => net'[r] = 1
             /\ r.kind = "request" /\ r.turn = turn
             /\ r = [kind |-> r.kind, turn |-> r.turn, client |-> r.client]
             /\ duplicated' = duplicated
  <1>. DEFINE r == Datagram("request", turn, Home)
  <1>1. net' = net (+) SetToBag({r}) /\ duplicated' = duplicated
    BY DEF Sent
  <1>2. r.kind = "request" /\ r.turn = turn
        /\ r = [kind |-> r.kind, turn |-> r.turn, client |-> r.client]
    BY DEF Datagram
  <1>. HIDE DEF r
  <1>3. /\ IsABag(net') /\ DOMAIN net' = DOMAIN net \cup {r}
        /\ \A d \in DOMAIN net \ {r} : net'[d] = net[d]
        /\ \A d \in {r} \ DOMAIN net : net'[d] = 1
    BY <1>1, BagWithMore
  <1>. QED  BY <1>1, <1>2, <1>3 DEF r

LEMMA ReceiveTakes ==
  ASSUME IsABag(net), NEW d, Receive(d)
  PROVE  /\ d \in DOMAIN net /\ msg' = d /\ duplicated' = duplicated
         /\ IsABag(net') /\ DOMAIN net' \subseteq DOMAIN net
         /\ net[d] = 1 => DOMAIN net' = DOMAIN net \ {d}
         /\ \A e \in DOMAIN net \ {d} : e \in DOMAIN net' /\ net'[e] = net[e]
  <1>1. /\ d \in DOMAIN net /\ msg' = d /\ duplicated' = duplicated
        /\ net' = net (-) SetToBag({d})
    BY DEF Receive, Arrived, BagToSet
  <1>. QED  BY <1>1, BagWithLess

LEMMA ExchangeReplaces ==
  ASSUME IsABag(net), NEW d, NEW R, Exchange(d, R)
  PROVE  /\ d \in DOMAIN net
         /\ IsABag(net') /\ DOMAIN net' \subseteq DOMAIN net \cup R
         /\ net[d] = 1 => DOMAIN net' = (DOMAIN net \ {d}) \cup R
         /\ \A e \in DOMAIN net \ ({d} \cup R) : e \in DOMAIN net' /\ net'[e] = net[e]
         /\ \A e \in R \ DOMAIN net : net'[e] = 1
  <1>. DEFINE B == net (-) SetToBag({d})
  <1>1. d \in DOMAIN net /\ net' = B (+) SetToBag(R)
    BY DEF Exchange, BagToSet
  <1>2. /\ IsABag(B) /\ DOMAIN B \subseteq DOMAIN net
        /\ net[d] = 1 => DOMAIN B = DOMAIN net \ {d}
        /\ \A e \in DOMAIN net \ {d} : e \in DOMAIN B /\ B[e] = net[e]
    BY <1>1, BagWithLess
  <1>. HIDE DEF B
  <1>3. /\ IsABag(net') /\ DOMAIN net' = DOMAIN B \cup R
        /\ \A e \in DOMAIN B \ R : net'[e] = B[e]
        /\ \A e \in R \ DOMAIN B : net'[e] = 1
    BY <1>1, <1>2, BagWithMore
  <1>4. \A e \in DOMAIN net \ ({d} \cup R) : e \in DOMAIN net' /\ net'[e] = net[e]
    BY <1>2, <1>3
  <1>5. \A e \in R \ DOMAIN net : net'[e] = 1
    BY <1>2, <1>3
  <1>. QED  BY <1>1, <1>2, <1>3, <1>4, <1>5

LEMMA DuplicateRepeats ==
  ASSUME IsABag(net), Duplicate
  PROVE  IsABag(net') /\ DOMAIN net' = DOMAIN net /\ duplicated' = duplicated + 1
  <1>1. PICK d \in DOMAIN net : net' = net (+) SetToBag({d})
    BY DEF Duplicate, BagToSet
  <1>2. IsABag(net') /\ DOMAIN net' = DOMAIN net \cup {d}
    BY <1>1, BagWithMore
  <1>. QED  BY <1>1, <1>2 DEF Duplicate

-----------------------------------------------------------------------------
(* The ranges of the state.                                                *)

\* The steps of servers and network keep to the turns of the datagrams.
LEMMA ServersAnswer ==
  ASSUME Types, TmserverEchoes \/ ServerAnswers \/ Lose
  PROVE  \E d, R :
           /\ d \in DOMAIN net /\ Exchange(d, R) /\ duplicated' = duplicated
           /\ \A e \in R : IsDatagram(e, turn) /\ e.turn = d.turn
           /\ \/ R = {}
              \/ /\ line.program # "testbase" /\ TmserverPort(line.server) = Dest(d.turn)
                 /\ d.kind = "request" /\ R = {[d EXCEPT !.kind = "answer"]}
              \/ /\ line.program = "testbase" /\ d.kind = "request"
                 /\ \E kinds \in Replies : R = {[d EXCEPT !.kind = k] : k \in kinds}
  <1>1. ASSUME NEW d \in DOMAIN net, NEW k \in Kinds
        PROVE  /\ IsDatagram([d EXCEPT !.kind = k], turn)
               /\ [d EXCEPT !.kind = k].turn = d.turn
    <2>1. d = [kind |-> d.kind, turn |-> d.turn, client |-> d.client] /\ d.turn \in 1..turn
      BY DEF Types, IsDatagram
    <2>2. [d EXCEPT !.kind = k] = [kind |-> k, turn |-> d.turn, client |-> d.client]
      BY <2>1
    <2>. QED  BY <2>1, <2>2 DEF IsDatagram
  <1>2. "answer" \in Kinds /\ \A kinds \in Replies : kinds \subseteq Kinds
    BY DEF Kinds, Replies, Acks
  <1>3. CASE TmserverEchoes
    <2>1. PICK d \in DOMAIN net :
            /\ line.program # "testbase" /\ TmserverPort(line.server) = Dest(d.turn)
            /\ d.kind = "request" /\ Exchange(d, {[d EXCEPT !.kind = "answer"]})
            /\ duplicated' = duplicated
      BY <1>3 DEF TmserverEchoes, BagToSet
    <2>. QED  BY <2>1, <1>1, <1>2
  <1>4. CASE ServerAnswers
    <2>1. PICK d \in DOMAIN net, kinds \in Replies :
            /\ line.program = "testbase" /\ d.kind = "request" /\ duplicated' = duplicated
            /\ Exchange(d, {[d EXCEPT !.kind = k] : k \in kinds})
      BY <1>4 DEF ServerAnswers, BagToSet
    <2>2. \A e \in {[d EXCEPT !.kind = k] : k \in kinds} : IsDatagram(e, turn) /\ e.turn = d.turn
      BY <1>1, <1>2
    <2>. QED  BY <2>1, <2>2
  <1>5. CASE Lose
    BY <1>5 DEF Lose, BagToSet
  <1>. QED  BY <1>3, <1>4, <1>5
Begins == McgetMain \/ TmclientMain \/ RunAllTests

LEMMA BeginsAre ==
  ASSUME Begins
  PROVE  /\ pc = "args" /\ pc' \in {"open", "done"}
         /\ copies' = [k \in DOMAIN todo' |-> 0]
         /\ UNCHANGED <<line, turn, sock, msg, tries, queue, net, duplicated, reports>>
  <1>1. ASSUME NEW ok, NEW listen, NEW what, Start(ok, listen, what)
        PROVE  /\ pc = "args" /\ pc' \in {"open", "done"}
               /\ copies' = [k \in DOMAIN todo' |-> 0]
               /\ UNCHANGED <<line, turn, sock, msg, tries, queue, net, duplicated, reports>>
    BY <1>1 DEF Start
  <1>2. \E ok, listen, what : Start(ok, listen, what)
    BY DEF Begins, McgetMain, TmclientMain, RunAllTests
  <1>. QED  BY <1>1, <1>2

LEMMA TypesInit == Init => Types
  BY DEF Init, Types, EmptyBag, SetToBag, IsABag, McgetHolds

\* Steps that leave the turn and its reports alone.
LEMMA SameTurnTypes ==
  ASSUME Types, turn' = turn, reports' = reports, duplicated' \in Nat, line' = line,
         IsABag(net'), \A d \in DOMAIN net' : IsDatagram(d, turn),
         pc' = "args" => pc = "args",
         pc' \in {"check", "crashed"} => line.program = "testbase",
         pc' \in {"args", "open", "send"} =>
           pc \in {"args", "open", "send"} /\ \A d \in DOMAIN net' : d.turn < turn,
         McgetHolds' => IsDatagram(msg', turn)
  PROVE  Types'
  BY DEF Types

LEMMA ReportTypes ==
  ASSUME Types, NEW k \in Nat, NEW next, Report(k, next), next \notin {"args", "check", "crashed"},
         next # "recv", duplicated' = duplicated, line' = line,
         IsABag(net'), DOMAIN net' \subseteq DOMAIN net
  PROVE  Types'
  <1>1. /\ reports' = Append(reports, k) /\ turn' = turn + 1 /\ pc' \in {"done", next}
        /\ turn \in Nat \ {0}
    BY DEF Report, Types
  <1>2. reports' \in Seq(Nat) /\ Len(reports') = turn' - 1
    BY <1>1 DEF Types
  <1>3. \A d \in DOMAIN net' : IsDatagram(d, turn') /\ d.turn < turn'
    BY <1>1 DEF Types, IsDatagram
  <1>4. ~McgetHolds'
    BY <1>1 DEF McgetHolds
  <1>. QED  BY <1>1, <1>2, <1>3, <1>4 DEF Types

LEMMA TypesNext == ASSUME Types, [Next]_vars PROVE Types'
  <1>. DEFINE Early == pc \in {"args", "open", "send"}
  <1>0. /\ line' = line /\ turn \in Nat \ {0} /\ IsABag(net) /\ duplicated \in Nat
        /\ \A d \in DOMAIN net : IsDatagram(d, turn)
        /\ Early => \A d \in DOMAIN net : d.turn < turn
    BY LineStays DEF Types
  <1>1. CASE Begins
    BY <1>0, <1>1, BeginsAre, SameTurnTypes DEF McgetHolds
  <1>2. CASE Open
    BY <1>0, <1>2, SameTurnTypes DEF Open, network, McgetHolds
  <1>3. ASSUME Sent \/ NotSent
        PROVE  /\ IsABag(net') /\ (\A d \in DOMAIN net' : IsDatagram(d, turn)) /\ duplicated' \in Nat
    <2>1. CASE Sent
      <3>. DEFINE r == Datagram("request", turn, Home)
      <3>1. IsABag(net') /\ DOMAIN net' = DOMAIN net \cup {r} /\ duplicated' = duplicated
        BY <1>0, <2>1, SendAdds
      <3>2. r.kind = "request" /\ r.turn = turn
            /\ r = [kind |-> r.kind, turn |-> r.turn, client |-> r.client]
        BY DEF Datagram
      <3>3. IsDatagram(r, turn)
        BY <1>0, <3>2 DEF IsDatagram, Kinds
      <3>. QED  BY <1>0, <3>1, <3>3
    <2>2. CASE NotSent
      BY <1>0, <2>2 DEF NotSent, network
    <2>. QED  BY <1>3, <2>1, <2>2
  <1>4. CASE McgetSend \/ TmclientSend \/ CoreSend
    <2>1. /\ pc' = "recv" /\ turn' = turn /\ reports' = reports /\ (Sent \/ NotSent)
          /\ ~McgetHolds'
      BY <1>4 DEF McgetSend, TmclientSend, CoreSend, McgetHolds
    <2>. QED  BY <1>0, <1>3, <2>1, SameTurnTypes
  <1>5. ASSUME (\E d \in Arrived : Receive(d)) \/ ReceiveNothing
        PROVE  /\ IsABag(net') /\ DOMAIN net' \subseteq DOMAIN net /\ duplicated' = duplicated
               /\ msg' # Nothing => msg' \in DOMAIN net
    <2>1. CASE ReceiveNothing
      BY <1>0, <2>1 DEF ReceiveNothing, network
    <2>2. ASSUME NEW d \in Arrived, Receive(d)
          PROVE  /\ IsABag(net') /\ DOMAIN net' \subseteq DOMAIN net /\ duplicated' = duplicated
                 /\ msg' # Nothing => msg' \in DOMAIN net
      BY <1>0, <2>2, ReceiveTakes
    <2>. QED  BY <1>5, <2>1, <2>2
  <1>6. CASE McgetRecv
    <2>1. /\ pc' = "recv" /\ turn' = turn /\ reports' = reports
          /\ (\E d \in Arrived : Receive(d)) \/ ReceiveNothing
      BY <1>6 DEF McgetRecv
    <2>2. McgetHolds' => IsDatagram(msg', turn)
      BY <1>0, <1>5, <2>1 DEF McgetHolds
    <2>. QED  BY <1>0, <1>5, <2>1, <2>2, SameTurnTypes
  <1>7. CASE CoreRecvAck \/ CoreRecv \/ CoreRecvGarbled
    <2>1. /\ pc' \in {"check", "crashed"} /\ turn' = turn /\ reports' = reports
          /\ line.program = "testbase"
          /\ (\E d \in Arrived : Receive(d)) \/ ReceiveNothing
      BY <1>7 DEF CoreRecvAck, CoreRecv, CoreRecvGarbled, CoreLoops
    <2>2. ~McgetHolds'
      BY <2>1 DEF McgetHolds
    <2>. QED  BY <1>0, <1>5, <2>1, <2>2, SameTurnTypes
  <1>8. CASE TmclientRecv
    <2>1. /\ Report(Shown(msg'), "send")
          /\ (\E d \in Arrived : Receive(d)) \/ ReceiveNothing
      BY <1>8 DEF TmclientRecv
    <2>2. Shown(msg') \in Nat
      BY <1>0, <1>5, <2>1 DEF Shown, IsDatagram
    <2>. QED  BY <1>0, <1>5, <2>1, <2>2, ReportTypes
  <1>9. CASE McgetReport
    <2>1. /\ Report(IF msg = Nothing THEN 0 ELSE msg.turn, "open")
          /\ net' = net /\ duplicated' = duplicated
          /\ msg # Nothing => McgetHolds
      BY <1>9 DEF McgetReport, network, McgetHolds
    <2>2. (IF msg = Nothing THEN 0 ELSE msg.turn) \in Nat
      BY <2>1 DEF Types, IsDatagram
    <2>. QED  BY <1>0, <2>1, <2>2, ReportTypes
  <1>10. CASE CorePrintsBare
    BY <1>0, <1>10, SameTurnTypes DEF CorePrintsBare, CoreEnds, network, McgetHolds
  <1>11. CASE CoreReport
    <2>1. /\ Report(IF Passes THEN turn ELSE 0, "open")
          /\ net' = net /\ duplicated' = duplicated
      BY <1>11 DEF CoreReport, network
    <2>. QED  BY <1>0, <2>1, ReportTypes
  <1>12. CASE CheckNothing \/ CheckGivesUp \/ CheckResends
    <2>1. /\ Checked /\ (Sent \/ NotSent)
      BY <1>12 DEF CheckNothing, CheckGivesUp, CheckResends, NotSent
    <2>2. /\ pc = "check" /\ pc' = "recv" /\ turn' = turn /\ reports' = reports
          /\ line.program = "testbase"
      BY <2>1 DEF Checked, Types
    <2>3. ~McgetHolds'
      BY <1>0, <2>2 DEF McgetHolds
    <2>. QED  BY <1>0, <1>3, <2>1, <2>2, <2>3, SameTurnTypes
  <1>13. CASE TmserverEchoes \/ ServerAnswers \/ Lose
    <2>1. PICK d, R :
            /\ d \in DOMAIN net /\ Exchange(d, R) /\ duplicated' = duplicated
            /\ \A e \in R : IsDatagram(e, turn) /\ e.turn = d.turn
      BY <1>13, ServersAnswer
    <2>2. IsABag(net') /\ DOMAIN net' \subseteq DOMAIN net \cup R
      BY <1>0, <2>1, ExchangeReplaces
    <2>3. pc' = pc /\ turn' = turn /\ reports' = reports /\ msg' = msg
      BY <2>1 DEF Exchange
    <2>4. \A e \in DOMAIN net' : IsDatagram(e, turn) /\ (Early => e.turn < turn)
      BY <1>0, <2>1, <2>2
    <2>5. McgetHolds' => IsDatagram(msg', turn)
      BY <1>0, <2>3 DEF McgetHolds, Types
    <2>. QED  BY <1>0, <2>1, <2>2, <2>3, <2>4, <2>5, SameTurnTypes DEF Types
  <1>14. CASE Duplicate
    <2>1. IsABag(net') /\ DOMAIN net' = DOMAIN net /\ duplicated' = duplicated + 1
      BY <1>0, <1>14, DuplicateRepeats
    <2>2. pc' = pc /\ turn' = turn /\ reports' = reports /\ msg' = msg
      BY <1>14 DEF Duplicate
    <2>. QED  BY <1>0, <2>1, <2>2 DEF Types, McgetHolds
  <1>15. CASE Expire \/ UNCHANGED vars
    BY <1>0, <1>15 DEF Expire, vars, network, Types, McgetHolds
  <1>. QED
    BY <1>1, <1>2, <1>4, <1>6, <1>7, <1>8, <1>9, <1>10, <1>11, <1>12, <1>13, <1>14,
       <1>15
       DEF Next, Program, Begins
-----------------------------------------------------------------------------
(* What clients show.                                                      *)

\* Something listens where request k went: the server, or the client itself.
Backed(k) == Dest(k) \in {TmserverPort(line.server), port}

\* Without duplicates a request, its answer and its report are one thing in one place.
EachOnce ==
  /\ \A d, e \in DOMAIN net : net[d] = 1 /\ (d.turn = e.turn => d = e)
  /\ \A d \in DOMAIN net, i \in DOMAIN reports : reports[i] # d.turn
  /\ McgetHolds => /\ \A d \in DOMAIN net : d.turn # msg.turn
                   /\ \A i \in DOMAIN reports : reports[i] # msg.turn
  /\ \A i, j \in DOMAIN reports : i # j /\ reports[i] # 0 => reports[i] # reports[j]

ClientBook ==
  line.program # "testbase" =>
    /\ McgetHolds => Backed(msg.turn)
    /\ \A d \in DOMAIN net : d.kind # "request" => Backed(d.turn)
    /\ \A i \in DOMAIN reports : reports[i] <= i /\ (reports[i] # 0 => Backed(reports[i]))
    /\ duplicated = 0 => EachOnce

LEMMA BackedStays ==
  ASSUME line' = line, port' = port, todo' = todo
  PROVE  \A k : Backed(k)' <=> Backed(k)
  BY DEF Backed, Dest

LEMMA ClientInit == Init => ClientBook
  BY DEF Init, ClientBook, EachOnce, McgetHolds, EmptyBag, SetToBag

\* Steps that report nothing.
LEMMA SameReportsBook ==
  ASSUME ClientBook, line' = line, port' = port, todo' = todo, reports' = reports,
         duplicated' = 0 => duplicated = 0,
         McgetHolds' => Backed(msg'.turn),
         \A d \in DOMAIN net' : d.kind # "request" => Backed(d.turn),
         duplicated' = 0 =>
           /\ \A d, e \in DOMAIN net' : net'[d] = 1 /\ (d.turn = e.turn => d = e)
           /\ \A d \in DOMAIN net', i \in DOMAIN reports : reports[i] # d.turn
           /\ McgetHolds' => /\ \A d \in DOMAIN net' : d.turn # msg'.turn
                             /\ \A i \in DOMAIN reports : reports[i] # msg'.turn
  PROVE  ClientBook'
  <1>. SUFFICES ASSUME line.program # "testbase" PROVE ClientBook'
    BY DEF ClientBook
  <1>1. \A k : Backed(k)' <=> Backed(k)
    BY BackedStays
  <1>2. (McgetHolds => Backed(msg.turn))'
    BY <1>1
  <1>3. (\A d \in DOMAIN net : d.kind # "request" => Backed(d.turn))'
    BY <1>1
  <1>4. (\A i \in DOMAIN reports : reports[i] <= i /\ (reports[i] # 0 => Backed(reports[i])))'
    BY <1>1 DEF ClientBook
  <1>5. (duplicated = 0 => EachOnce)'
    BY DEF ClientBook, EachOnce
  <1>. QED  BY <1>2, <1>3, <1>4, <1>5 DEF ClientBook

\* Steps that report.
LEMMA NewReportBook ==
  ASSUME Types, ClientBook, NEW k \in Nat, NEW next, Report(k, next), next # "recv", k <= turn,
         line' = line, port' = port, todo' = todo, duplicated' = duplicated,
         line.program # "testbase", k # 0 => Backed(k), DOMAIN net' \subseteq DOMAIN net,
         duplicated = 0 =>
           /\ \A d \in DOMAIN net' : d.turn # k /\ net'[d] = net[d]
           /\ k # 0 => \A i \in DOMAIN reports : reports[i] # k
  PROVE  ClientBook'
  <1>1. \A j : Backed(j)' <=> Backed(j)
    BY BackedStays
  <1>2. /\ reports' = Append(reports, k) /\ pc' \in {"done", next}
        /\ reports \in Seq(Nat) /\ Len(reports) = turn - 1 /\ turn \in Nat \ {0}
    BY DEF Report, Types
  <1>3. /\ DOMAIN reports = 1..(turn - 1) /\ DOMAIN reports' = 1..turn /\ reports'[turn] = k
        /\ \A i \in 1..(turn - 1) : reports'[i] = reports[i]
    BY <1>2
  <1>4. ~McgetHolds'
    BY <1>2 DEF McgetHolds
  <1>5. ASSUME NEW i \in DOMAIN reports'
        PROVE  reports'[i] <= i /\ (reports'[i] # 0 => Backed(reports'[i]))
    BY <1>2, <1>3 DEF ClientBook
  <1>6. (\A d \in DOMAIN net : d.kind # "request" => Backed(d.turn))'
    BY <1>1 DEF ClientBook
  <1>7. ASSUME duplicated = 0 PROVE EachOnce'
    <2>1. EachOnce
      BY <1>7 DEF ClientBook
    <2>2. \A d, e \in DOMAIN net' : net'[d] = 1 /\ (d.turn = e.turn => d = e)
      BY <1>7, <2>1 DEF EachOnce
    <2>3. \A d \in DOMAIN net', i \in DOMAIN reports' : reports'[i] # d.turn
      BY <1>2, <1>3, <1>7, <2>1 DEF EachOnce
    <2>4. ASSUME NEW i \in DOMAIN reports', NEW j \in DOMAIN reports', i # j, reports'[i] # 0
          PROVE  reports'[i] # reports'[j]
      <3>1. CASE i \in 1..(turn - 1) /\ j \in 1..(turn - 1)
        BY <1>3, <2>1, <2>4, <3>1 DEF EachOnce
      <3>2. CASE i = turn
        BY <1>2, <1>3, <1>7, <2>4, <3>2
      <3>3. CASE j = turn
        BY <1>2, <1>3, <1>7, <2>4, <3>3
      <3>. QED  BY <1>2, <1>3, <3>1, <3>2, <3>3
    <2>. QED  BY <1>4, <2>2, <2>3, <2>4 DEF EachOnce
  <1>. QED  BY <1>1, <1>4, <1>5, <1>6, <1>7 DEF ClientBook
\* What a client receives was sent to something that listens, and is under way no more.
LEMMA ClientReceives ==
  ASSUME Types, ClientBook, line.program # "testbase",
         (\E d \in Arrived : Receive(d)) \/ ReceiveNothing
  PROVE  /\ DOMAIN net' \subseteq DOMAIN net /\ duplicated' = duplicated
         /\ msg' # Nothing => msg' \in DOMAIN net /\ Backed(msg'.turn)
         /\ duplicated = 0 =>
              /\ \A d \in DOMAIN net' : net'[d] = net[d]
              /\ msg' # Nothing => \A d \in DOMAIN net' : d.turn # msg'.turn
  <1>1. CASE ReceiveNothing
    BY <1>1 DEF ReceiveNothing, network
  <1>2. ASSUME NEW d \in Arrived, Receive(d)
        PROVE  /\ DOMAIN net' \subseteq DOMAIN net /\ duplicated' = duplicated
               /\ msg' \in DOMAIN net /\ Backed(msg'.turn)
               /\ duplicated = 0 => /\ \A e \in DOMAIN net' : net'[e] = net[e]
                                    /\ \A e \in DOMAIN net' : e.turn # msg'.turn
    <2>1. /\ d \in DOMAIN net /\ msg' = d /\ duplicated' = duplicated
          /\ DOMAIN net' \subseteq DOMAIN net
          /\ net[d] = 1 => DOMAIN net' = DOMAIN net \ {d}
          /\ \A e \in DOMAIN net \ {d} : e \in DOMAIN net' /\ net'[e] = net[e]
      BY <1>2, ReceiveTakes DEF Types
    <2>2. Backed(d.turn)
      <3>1. CASE d.kind = "request"
        <4>1. Dest(d.turn) = port
          BY <3>1 DEF Arrived
        <4>. QED  BY <4>1 DEF Backed
      <3>2. CASE d.kind # "request"
        BY <2>1, <3>2 DEF ClientBook
      <3>. QED  BY <3>1, <3>2
    <2>3. ASSUME duplicated = 0
          PROVE  \A e \in DOMAIN net' : net'[e] = net[e] /\ e.turn # d.turn
      <3>1. net[d] = 1 /\ \A e \in DOMAIN net : d.turn = e.turn => d = e
        BY <2>1, <2>3 DEF ClientBook, EachOnce
      <3>. QED  BY <2>1, <3>1
    <2>. QED  BY <2>1, <2>2, <2>3
  <1>. QED  BY <1>1, <1>2

LEMMA ClientNext == ASSUME Types, ClientBook, [Next]_vars PROVE ClientBook'
  <1>. SUFFICES ASSUME line.program # "testbase" PROVE ClientBook'
    BY LineStays DEF ClientBook
  <1>0. /\ line' = line /\ turn \in Nat \ {0} /\ IsABag(net) /\ duplicated \in Nat
        /\ \A d \in DOMAIN net : IsDatagram(d, turn)
        /\ pc # "check" /\ reports \in Seq(Nat) /\ Len(reports) = turn - 1
    BY LineStays DEF Types
  <1>1. /\ McgetHolds => Backed(msg.turn)
        /\ \A d \in DOMAIN net : d.kind # "request" => Backed(d.turn)
        /\ \A i \in DOMAIN reports : reports[i] <= i
        /\ duplicated = 0 => EachOnce
    BY DEF ClientBook
  <1>2. CASE Begins
    <2>1. /\ pc = "args" /\ pc' \in {"open", "done"} /\ net' = net /\ reports' = reports
      BY <1>2, BeginsAre
    <2>2. turn = 1 /\ \A d \in DOMAIN net : d.turn < turn
      BY <2>1 DEF Types
    <2>3. DOMAIN net = {}
      <3>1. ASSUME NEW d \in DOMAIN net PROVE FALSE
        <4>1. d.turn \in 1..turn /\ d.turn < turn
          BY <1>0, <2>2 DEF IsDatagram
        <4>. QED  BY <2>2, <4>1
      <3>. QED  BY <3>1
    <2>4. DOMAIN reports = {}
      BY <1>0, <2>2
    <2>. QED  BY <2>1, <2>3, <2>4 DEF ClientBook, EachOnce, McgetHolds
  <1>3. CASE Open
    <2>1. /\ ~McgetHolds' /\ net' = net /\ port' = port /\ todo' = todo /\ reports' = reports
          /\ duplicated' = duplicated
      BY <1>3 DEF Open, network, McgetHolds
    <2>. QED  BY <1>0, <1>1, <2>1, SameReportsBook DEF EachOnce
  <1>4. CASE McgetSend \/ TmclientSend
    <2>1. /\ pc = "send" /\ ~McgetHolds' /\ port' = port /\ todo' = todo /\ reports' = reports
          /\ Sent \/ NotSent
      BY <1>4 DEF McgetSend, TmclientSend, McgetHolds
    <2>2. CASE NotSent
      BY <1>0, <1>1, <2>1, <2>2, SameReportsBook DEF EachOnce, NotSent, network
    <2>3. CASE Sent
      <3>1. PICK r :
              /\ DOMAIN net' = DOMAIN net \cup {r}
              /\ \A d \in DOMAIN net \ {r} : net'[d] = net[d]
              /\ r \notin DOMAIN net => net'[r] = 1
              /\ r.kind = "request" /\ r.turn = turn /\ duplicated' = duplicated
        BY <1>0, <2>3, SendAdds
      <3>2. \A d \in DOMAIN net : d.turn \in Nat /\ d.turn < turn
        BY <1>0, <2>1 DEF Types, IsDatagram
      <3>3. r \notin DOMAIN net
        BY <1>0, <3>1, <3>2
      <3>4. \A i \in DOMAIN reports : reports[i] # turn
        BY <1>0, <1>1
      <3>5. \A d \in DOMAIN net' : d.kind # "request" => Backed(d.turn)
        BY <1>1, <3>1
      <3>6. ASSUME duplicated = 0
            PROVE  /\ \A d, e \in DOMAIN net' : net'[d] = 1 /\ (d.turn = e.turn => d = e)
                   /\ \A d \in DOMAIN net', i \in DOMAIN reports : reports[i] # d.turn
        BY <1>0, <1>1, <3>1, <3>2, <3>3, <3>4, <3>6 DEF EachOnce
      <3>. QED  BY <1>0, <2>1, <3>1, <3>5, <3>6, SameReportsBook
    <2>. QED  BY <2>1, <2>2, <2>3
  <1>5. CASE McgetRecv
    <2>1. /\ port' = port /\ todo' = todo /\ reports' = reports
          /\ (\E d \in Arrived : Receive(d)) \/ ReceiveNothing
      BY <1>5 DEF McgetRecv
    <2>2. /\ DOMAIN net' \subseteq DOMAIN net /\ duplicated' = duplicated
          /\ msg' # Nothing => msg' \in DOMAIN net /\ Backed(msg'.turn)
          /\ duplicated = 0 =>
               /\ \A d \in DOMAIN net' : net'[d] = net[d]
               /\ msg' # Nothing => \A d \in DOMAIN net' : d.turn # msg'.turn
      BY <2>1, ClientReceives
    <2>3. McgetHolds' => msg' # Nothing
      BY DEF McgetHolds
    <2>4. ASSUME duplicated = 0
          PROVE  /\ \A d, e \in DOMAIN net' : net'[d] = 1 /\ (d.turn = e.turn => d = e)
                 /\ \A d \in DOMAIN net', i \in DOMAIN reports : reports[i] # d.turn
                 /\ McgetHolds' => /\ \A d \in DOMAIN net' : d.turn # msg'.turn
                                   /\ \A i \in DOMAIN reports : reports[i] # msg'.turn
      BY <1>1, <2>2, <2>3, <2>4 DEF EachOnce
    <2>. QED  BY <1>0, <1>1, <2>1, <2>2, <2>3, <2>4, SameReportsBook
  <1>6. CASE McgetReport
    <2>. DEFINE k == IF msg = Nothing THEN 0 ELSE msg.turn
    <2>1. /\ Report(k, "open") /\ UNCHANGED <<port, todo, net, duplicated>>
          /\ msg # Nothing => McgetHolds
      BY <1>6 DEF McgetReport, network, McgetHolds
    <2>2. k \in Nat /\ k <= turn /\ (k # 0 => Backed(k))
      BY <1>0, <1>1, <2>1 DEF Types, IsDatagram
    <2>3. ASSUME duplicated = 0
          PROVE  /\ \A d \in DOMAIN net' : d.turn # k /\ net'[d] = net[d]
                 /\ k # 0 => \A i \in DOMAIN reports : reports[i] # k
      <3>1. \A d \in DOMAIN net : d.turn # 0
        BY <1>0 DEF IsDatagram
      <3>. QED  BY <1>1, <2>1, <2>3, <3>1 DEF EachOnce
    <2>. HIDE DEF k
    <2>. QED  BY <1>0, <2>1, <2>2, <2>3, NewReportBook
  <1>7. CASE TmclientRecv
    <2>. DEFINE k == Shown(msg')
    <2>1. /\ Report(k, "send") /\ port' = port /\ todo' = todo
          /\ (\E d \in Arrived : Receive(d)) \/ ReceiveNothing
      BY <1>7 DEF TmclientRecv
    <2>2. /\ DOMAIN net' \subseteq DOMAIN net /\ duplicated' = duplicated
          /\ msg' # Nothing => msg' \in DOMAIN net /\ Backed(msg'.turn)
          /\ duplicated = 0 =>
               /\ \A d \in DOMAIN net' : net'[d] = net[d]
               /\ msg' # Nothing => \A d \in DOMAIN net' : d.turn # msg'.turn
      BY <2>1, ClientReceives
    <2>3. k \in Nat /\ k <= turn /\ (k # 0 => msg' # Nothing /\ k = msg'.turn)
      BY <1>0, <2>2 DEF Shown, IsDatagram
    <2>4. ASSUME duplicated = 0
          PROVE  /\ \A d \in DOMAIN net' : d.turn # k /\ net'[d] = net[d]
                 /\ k # 0 => \A i \in DOMAIN reports : reports[i] # k
      <3>1. \A d \in DOMAIN net : d.turn # 0
        BY <1>0 DEF IsDatagram
      <3>. HIDE DEF k
      <3>. QED  BY <1>1, <2>2, <2>3, <2>4, <3>1 DEF EachOnce
    <2>. HIDE DEF k
    <2>. QED  BY <1>0, <2>1, <2>2, <2>3, <2>4, NewReportBook
  <1>8. CASE TmserverEchoes \/ ServerAnswers \/ Lose
    <2>1. PICK d, R :
            /\ d \in DOMAIN net /\ Exchange(d, R) /\ duplicated' = duplicated
            /\ \A e \in R : IsDatagram(e, turn) /\ e.turn = d.turn
            /\ \/ R = {}
               \/ /\ TmserverPort(line.server) = Dest(d.turn)
                  /\ d.kind = "request" /\ R = {[d EXCEPT !.kind = "answer"]}
      BY <1>8, ServersAnswer
    <2>2. /\ DOMAIN net' \subseteq DOMAIN net \cup R
          /\ net[d] = 1 => DOMAIN net' = (DOMAIN net \ {d}) \cup R
          /\ \A e \in DOMAIN net \ ({d} \cup R) : e \in DOMAIN net' /\ net'[e] = net[e]
          /\ \A e \in R \ DOMAIN net : net'[e] = 1
      BY <1>0, <2>1, ExchangeReplaces
    <2>3. UNCHANGED <<pc, port, todo, turn, msg, reports>>
      BY <2>1 DEF Exchange
    <2>4. /\ McgetHolds' <=> McgetHolds
          /\ \A e, f \in R : e = f
          /\ R # {} => Backed(d.turn) /\ d.kind = "request"
          /\ R # {} => \A e \in R : e.kind = "answer"
      <3>1. CASE R = {}
        BY <1>0, <2>3, <3>1 DEF McgetHolds
      <3>2. CASE R # {}
        <4>1. /\ TmserverPort(line.server) = Dest(d.turn)
              /\ d.kind = "request" /\ R = {[d EXCEPT !.kind = "answer"]}
          BY <2>1, <3>2
        <4>2. d = [kind |-> d.kind, turn |-> d.turn, client |-> d.client]
          BY <1>0, <2>1 DEF IsDatagram
        <4>3. [d EXCEPT !.kind = "answer"].kind = "answer"
          BY <4>2
        <4>. QED  BY <1>0, <2>3, <4>1, <4>3 DEF McgetHolds, Backed
      <3>. QED  BY <3>1, <3>2
    <2>5. \A e \in DOMAIN net' : e.kind # "request" => Backed(e.turn)
      BY <1>1, <2>1, <2>2, <2>4
    <2>6. ASSUME duplicated = 0
          PROVE  /\ \A e, f \in DOMAIN net' : net'[e] = 1 /\ (e.turn = f.turn => e = f)
                 /\ \A e \in DOMAIN net', i \in DOMAIN reports : reports[i] # e.turn
                 /\ McgetHolds' => /\ \A e \in DOMAIN net' : e.turn # msg'.turn
                                   /\ \A i \in DOMAIN reports : reports[i] # msg'.turn
      <3>1. /\ \A e, f \in DOMAIN net : net[e] = 1 /\ (e.turn = f.turn => e = f)
            /\ \A e \in DOMAIN net, i \in DOMAIN reports : reports[i] # e.turn
            /\ McgetHolds => /\ \A e \in DOMAIN net : e.turn # msg.turn
                             /\ \A i \in DOMAIN reports : reports[i] # msg.turn
        BY <1>1, <2>6 DEF EachOnce
      <3>2. /\ DOMAIN net' = (DOMAIN net \ {d}) \cup R
            /\ \A e \in DOMAIN net \ {d} : e.turn # d.turn
        BY <2>1, <2>2, <3>1
      <3>3. \A e \in R : e \in DOMAIN net => e = d
        BY <2>1, <3>1
      <3>4. \A e \in R : e.kind = "answer" /\ d.kind = "request"
        BY <2>4
      <3>5. \A e \in R : e \notin DOMAIN net
        BY <3>3, <3>4
      <3>6. \A e \in DOMAIN net' : net'[e] = 1
        BY <2>2, <3>1, <3>2, <3>5
      <3>7. \A e, f \in DOMAIN net' : e.turn = f.turn => e = f
        BY <2>1, <2>4, <3>1, <3>2
      <3>. QED  BY <2>1, <2>3, <2>4, <3>1, <3>2, <3>6, <3>7
    <2>7. McgetHolds' => Backed(msg'.turn)
      BY <1>1, <2>3, <2>4
    <2>. QED  BY <1>0, <2>1, <2>3, <2>5, <2>6, <2>7, SameReportsBook
  <1>9. CASE Duplicate
    <2>1. DOMAIN net' = DOMAIN net /\ duplicated' = duplicated + 1
      BY <1>0, <1>9, DuplicateRepeats
    <2>2. UNCHANGED <<pc, port, todo, turn, msg, reports>>
      BY <1>9 DEF Duplicate
    <2>3. McgetHolds' <=> McgetHolds
      BY <1>0, <2>2 DEF McgetHolds
    <2>4. duplicated' # 0
      BY <1>0, <2>1
    <2>. QED  BY <1>0, <1>1, <2>1, <2>2, <2>3, <2>4, SameReportsBook
  <1>10. CASE Expire \/ UNCHANGED vars
    <2>1. UNCHANGED <<pc, port, todo, turn, msg, reports, net, duplicated>>
      BY <1>10 DEF Expire, vars, network
    <2>2. McgetHolds' <=> McgetHolds
      BY <1>0, <2>1 DEF McgetHolds
    <2>. QED  BY <1>0, <1>1, <2>1, <2>2, SameReportsBook DEF EachOnce
  <1>11. ~(CoreSend \/ CoreRecvAck \/ CoreRecv \/ CoreRecvGarbled \/ CoreReport \/ CorePrintsBare)
    BY DEF CoreSend, CoreRecvAck, CoreRecv, CoreRecvGarbled, CoreLoops, CoreReport, CorePrintsBare,
           CoreEnds
  <1>12. ~(CheckNothing \/ CheckResends \/ CheckGivesUp)
    BY <1>0 DEF CheckNothing, CheckResends, CheckGivesUp, Checked
  <1>. QED
    BY <1>2, <1>3, <1>4, <1>5, <1>6, <1>7, <1>8, <1>9, <1>10, <1>11, <1>12
       DEF Next, Program, Begins

\* Whatever clients receive, they show no request before its turn, show an answer twice only if
\* the network duplicated it, and show nothing that went where nothing listens.
THEOREM AnswersShownOnceHolds == Spec => []AnswersShownOnce
  <1>1. Types /\ ClientBook => AnswersShownOnce
    <2>. SUFFICES ASSUME Types, ClientBook, line.program # "testbase", NEW i \in DOMAIN reports,
                         reports[i] # 0
                  PROVE  /\ reports[i] <= i
                         /\ \A j \in DOMAIN reports :
                              j # i /\ reports[j] = reports[i] => duplicated > 0
                         /\ Dest(reports[i]) \in {TmserverPort(line.server), port}
      BY DEF AnswersShownOnce
    <2>1. reports[i] <= i /\ Backed(reports[i])
      BY DEF ClientBook
    <2>2. ASSUME NEW j \in DOMAIN reports, j # i, reports[j] = reports[i] PROVE duplicated > 0
      <3>1. duplicated # 0
        BY <2>2 DEF ClientBook, EachOnce
      <3>. QED  BY <3>1 DEF Types
    <2>. QED  BY <2>1, <2>2 DEF Backed
  <1>. QED  BY <1>1, TypesInit, TypesNext, ClientInit, ClientNext, PTL DEF Spec
-----------------------------------------------------------------------------
(* What takes testbase down.                                               *)

\* The request of the first test, and what acknowledges it.
Acking == Acks \cup {"request"}
Firsts == {d \in DOMAIN net : d.turn = 1 /\ d.kind \in Acking}

\* One copy of that request at most, and no duplicates of anything.
Few == copies[1] <= 1 /\ duplicated = 0

\* Then it is one thing in one place, and nowhere once the first test has its acknowledgement.
Alone ==
  /\ \A d, e \in Firsts : d = e /\ net[d] = 1
  /\ turn = 1 /\ pc \in {"recv", "check"} /\ msg # Nothing /\ msg.kind \in Acks => Firsts = {}
  /\ turn = 2 /\ reports[1] # 0 => Firsts = {}

\* What the test was at when it went down.
Explained ==
  \/ msg.kind \in {"garbled", "bare"}
  \/ msg.kind = "ack" /\ msg.turn = turn
  \/ msg.kind \in Acks /\ msg.turn = 1 /\ turn = 2 /\ (Few => reports[1] = 0)

TestBook ==
  line.program = "testbase" =>
    /\ turn \in 1..2 \/ pc = "done"
    /\ pc # "args" => Len(todo) = 2 /\ copies \in [1..2 -> Nat]
    /\ pc \in {"recv", "check"} => (queued <=> completed = "no")
    /\ pc # "args" /\ copies[1] = 0 => Firsts = {}
    /\ pc # "args" /\ Few => Alone
    /\ pc = "crashed" => Explained

LEMMA TestInit == Init => TestBook
  BY DEF Init, TestBook

\* A request of the test that is under way goes out, for the first time or again.
LEMMA TestSends ==
  ASSUME Types, TestBook, line.program = "testbase", turn \in 1..2, pc # "args", Sent,
         UNCHANGED <<turn, reports>>, msg' = Nothing \/ msg'.kind \notin Acks
  PROVE  /\ copies' \in [1..2 -> Nat]
         /\ copies'[1] # 0 \/ Firsts' = {}
         /\ Few' => Alone'
  <1>1. PICK r :
          /\ DOMAIN net' = DOMAIN net \cup {r}
          /\ \A d \in DOMAIN net \ {r} : net'[d] = net[d]
          /\ r \notin DOMAIN net => net'[r] = 1
          /\ r.kind = "request" /\ r.turn = turn /\ duplicated' = duplicated
    BY SendAdds DEF Types
  <1>2. /\ copies \in [1..2 -> Nat] /\ (copies[1] = 0 => Firsts = {}) /\ (Few => Alone)
    BY DEF TestBook
  <1>3. copies' = [copies EXCEPT ![turn] = @ + 1] /\ copies' \in [1..2 -> Nat]
    BY <1>2 DEF Sent
  <1>4. CASE turn = 1
    <2>1. copies'[1] = copies[1] + 1 /\ copies[1] \in Nat
      BY <1>2, <1>3, <1>4
    <2>2. ASSUME Few' PROVE Alone'
      <3>1. copies[1] = 0
        BY <2>1, <2>2 DEF Few
      <3>2. Firsts = {}
        BY <1>2, <3>1
      <3>3. Firsts' \subseteq {r}
        BY <1>1, <3>2 DEF Firsts
      <3>4. r \notin DOMAIN net
        BY <1>1, <1>4, <3>2 DEF Firsts, Acking
      <3>5. \A d, e \in Firsts' : d = e /\ net'[d] = 1
        BY <1>1, <3>3, <3>4
      <3>. QED  BY <1>4, <3>5 DEF Alone
    <2>. QED  BY <1>3, <2>1, <2>2
  <1>5. CASE turn = 2
    <2>1. copies'[1] = copies[1]
      BY <1>2, <1>3, <1>5
    <2>2. Firsts' = Firsts /\ \A d \in Firsts : net'[d] = net[d]
      BY <1>1, <1>5 DEF Firsts
    <2>3. Few' => Few
      BY <1>1, <2>1 DEF Few
    <2>4. Few' => Alone'
      BY <1>2, <1>5, <2>2, <2>3 DEF Alone
    <2>. QED  BY <1>2, <1>3, <2>1, <2>2, <2>4
  <1>. QED  BY <1>4, <1>5
\* Steps that send nothing: no datagram of the first test appears.
LEMMA TestTakes ==
  ASSUME Types, TestBook, line.program = "testbase", pc # "args",
         UNCHANGED <<turn, reports, copies, duplicated>>,
         \A d \in DOMAIN net' : d \in DOMAIN net /\ (d.turn = 1 /\ d.kind \in Acking => net'[d] = net[d]),
         turn = 1 /\ pc' \in {"recv", "check"} /\ msg' # Nothing /\ msg'.kind \in Acks =>
           \/ pc \in {"recv", "check"} /\ msg' = msg
           \/ Few => Firsts' = {}
  PROVE  /\ copies[1] = 0 => Firsts' = {}
         /\ Few' => Few /\ Alone'
  <1>1. Firsts' \subseteq Firsts /\ \A d \in Firsts' : net'[d] = net[d]
    BY DEF Firsts
  <1>2. copies[1] = 0 => Firsts = {}
    BY DEF TestBook
  <1>3. Few' => Few
    BY DEF Few
  <1>4. ASSUME Few PROVE Alone'
    <2>1. Alone
      BY <1>4 DEF TestBook
    <2>2. \A d, e \in Firsts' : d = e /\ net'[d] = 1
      BY <1>1, <2>1 DEF Alone
    <2>3. turn' = 1 /\ pc' \in {"recv", "check"} /\ msg' # Nothing /\ msg'.kind \in Acks =>
            Firsts' = {}
      BY <1>1, <1>4, <2>1 DEF Alone
    <2>4. turn' = 2 /\ reports'[1] # 0 => Firsts' = {}
      BY <1>1, <2>1 DEF Alone
    <2>. QED  BY <2>2, <2>3, <2>4 DEF Alone
  <1>. QED  BY <1>1, <1>2, <1>3, <1>4

\* An answer or acknowledgement that testbase does not expect is one of the first test.
LEMMA AckArrives ==
  ASSUME Types, TestBook, CoreRecvAck
  PROVE  TestBook'
  <1>1. PICK d \in Arrived :
          /\ d.kind \in Acks /\ Receive(d)
          /\ IF d.turn = turn /\ queued
             THEN pc' = "check" /\ queued' = FALSE /\ completed' = "DONE"
             ELSE pc' = "crashed" /\ UNCHANGED <<queued, completed>>
    BY DEF CoreRecvAck, Completes
  <1>2. /\ line.program = "testbase" /\ pc = "recv" /\ completed = "no"
        /\ UNCHANGED <<line, port, todo, turn, reports>>
    BY DEF CoreRecvAck, CoreLoops
  <1>3. /\ d \in DOMAIN net /\ msg' = d /\ UNCHANGED <<duplicated, copies>>
        /\ DOMAIN net' \subseteq DOMAIN net
        /\ net[d] = 1 => DOMAIN net' = DOMAIN net \ {d}
        /\ \A e \in DOMAIN net \ {d} : e \in DOMAIN net' /\ net'[e] = net[e]
    BY <1>1, ReceiveTakes DEF Types, Receive
  <1>4. /\ turn \in 1..2 /\ Len(todo) = 2 /\ copies \in [1..2 -> Nat] /\ queued
        /\ copies[1] = 0 => Firsts = {}
        /\ Few => Alone
    BY <1>2 DEF TestBook
  <1>5. d.turn \in 1..turn
    BY <1>3 DEF Types, IsDatagram
  <1>6. d.turn = 1 => d \in Firsts
    BY <1>1, <1>3 DEF Firsts, Acking
  <1>7. Firsts' \subseteq Firsts /\ \A e \in Firsts' \ {d} : net'[e] = net[e]
    BY <1>3 DEF Firsts
  <1>8. ASSUME Few', d.turn = 1 PROVE Firsts' = {}
    <2>1. Alone
      BY <1>3, <1>4, <1>8 DEF Few
    <2>2. net[d] = 1 /\ \A e \in Firsts : e = d
      BY <1>6, <1>8, <2>1 DEF Alone
    <2>3. d \notin DOMAIN net'
      BY <1>3, <2>2
    <2>. QED  BY <1>7, <2>2, <2>3 DEF Firsts
  <1>9. Few' => Few
    BY <1>3 DEF Few
  <1>10. CASE pc' = "check"
    <2>1. d.turn = turn /\ queued' = FALSE /\ completed' = "DONE"
      BY <1>1, <1>10
    <2>2. ASSUME Few' PROVE Alone'
      <3>1. CASE turn = 1
        BY <1>2, <1>8, <2>1, <2>2, <3>1 DEF Alone
      <3>2. CASE turn = 2
        <4>1. Alone /\ d \notin Firsts
          BY <1>4, <1>9, <2>1, <2>2, <3>2 DEF Firsts
        <4>. QED  BY <1>2, <1>7, <3>2, <4>1 DEF Alone
      <3>. QED  BY <1>4, <3>1, <3>2
    <2>. QED  BY <1>2, <1>3, <1>4, <1>7, <1>10, <2>1, <2>2 DEF TestBook
  <1>11. CASE pc' = "crashed"
    <2>1. turn = 2 /\ d.turn = 1
      <3>1. d.turn # turn
        <4>1. queued /\ pc' # "check"
          BY <1>4, <1>11
        <4>. QED  BY Zenon, <1>1, <4>1
      <3>. QED  BY <1>4, <1>5, <3>1
    <2>2. ASSUME Few' PROVE reports[1] = 0
      BY <1>4, <1>6, <1>9, <2>1, <2>2 DEF Alone
    <2>3. Few' => Alone'
      BY <1>2, <1>8, <1>11, <2>1 DEF Alone
    <2>4. Explained'
      BY <1>1, <1>2, <1>3, <2>1, <2>2 DEF Explained
    <2>. QED  BY <1>2, <1>3, <1>4, <1>7, <1>11, <2>1, <2>3, <2>4 DEF TestBook
  <1>. QED  BY <1>1, <1>10, <1>11

LEMMA TestNext == ASSUME Types, AcksEndRequest, TestBook, [Next]_vars PROVE TestBook'
  <1>. SUFFICES ASSUME line.program = "testbase" PROVE TestBook'
    BY LineStays DEF TestBook
  <1>0. /\ line' = line /\ IsABag(net) /\ duplicated \in Nat
        /\ \A d \in DOMAIN net : IsDatagram(d, turn)
        /\ turn \in Nat \ {0} /\ reports \in Seq(Nat) /\ Len(reports) = turn - 1
    BY LineStays DEF Types
  <1>1. /\ turn \in 1..2 \/ pc = "done"
        /\ pc # "args" => Len(todo) = 2 /\ copies \in [1..2 -> Nat]
        /\ pc \in {"recv", "check"} => (queued <=> completed = "no")
        /\ pc # "args" /\ copies[1] = 0 => Firsts = {}
        /\ pc # "args" /\ Few => Alone
        /\ pc = "crashed" => Explained
    BY DEF TestBook
  <1>2. CASE RunAllTests
    <2>1. /\ pc = "args" /\ pc' = "open" /\ todo' = <<"core01", "core02">>
          /\ copies' = [k \in DOMAIN todo' |-> 0] /\ UNCHANGED <<turn, net, reports>>
      BY <1>2 DEF RunAllTests, Start
    <2>2. turn = 1 /\ \A d \in DOMAIN net : d.turn < turn
      BY <2>1 DEF Types
    <2>3. Firsts' = {}
      BY <2>1, <2>2 DEF Firsts
    <2>4. Len(todo') = 2 /\ DOMAIN todo' = 1..2
      BY <2>1
    <2>5. copies' \in [1..2 -> Nat]
      BY <2>1, <2>4
    <2>. QED  BY <2>1, <2>2, <2>3, <2>4, <2>5 DEF TestBook, Alone
  <1>3. CASE Open
    <2>1. /\ pc = "open" /\ pc' = "send"
          /\ UNCHANGED <<todo, turn, msg, net, copies, duplicated, reports>>
      BY <1>3 DEF Open, network
    <2>2. (copies[1] = 0 => Firsts' = {}) /\ (Few' => Alone')
      BY <2>1, TestTakes
    <2>. QED  BY <1>1, <2>1, <2>2 DEF TestBook
  <1>4. CASE CoreSend
    <2>1. /\ pc = "send" /\ pc' = "recv" /\ msg' = Nothing /\ UNCHANGED <<todo, turn, reports>>
          /\ \/ Sent /\ queued' = TRUE /\ completed' = "no"
             \/ NotSent /\ queued' = FALSE /\ completed' = "ERROR"
      BY <1>4 DEF CoreSend, Completes
    <2>2. /\ copies' \in [1..2 -> Nat]
          /\ copies'[1] # 0 \/ Firsts' = {}
          /\ Few' => Alone'
      <3>1. CASE Sent
        BY <1>1, <2>1, <3>1, TestSends
      <3>2. CASE NotSent
        BY <1>1, <2>1, <3>2, TestTakes DEF NotSent, network
      <3>. QED  BY <2>1, <3>1, <3>2
    <2>. QED  BY <1>1, <2>1, <2>2 DEF TestBook
  <1>5. CASE CoreRecvAck
    BY <1>5, AckArrives
  <1>6. CASE CoreRecv \/ CoreRecvGarbled
    <2>1. /\ pc = "recv" /\ UNCHANGED <<todo, turn, reports, queued, completed>>
          /\ \/ pc' = "check" /\ ReceiveNothing
             \/ pc' = "check" /\ \E d \in Arrived : d.kind \in {"response", "bare"} /\ Receive(d)
             \/ pc' = "crashed" /\ \E d \in Arrived : d.kind = "garbled" /\ Receive(d)
      BY <1>6 DEF CoreRecv, CoreRecvGarbled, CoreLoops, queue
    <2>2. /\ UNCHANGED <<copies, duplicated>>
          /\ \A d \in DOMAIN net' :
               d \in DOMAIN net /\ (d.turn = 1 /\ d.kind \in Acking => net'[d] = net[d])
          /\ msg' = Nothing \/ msg'.kind \notin Acks
          /\ pc' = "crashed" => msg'.kind = "garbled"
      <3>1. CASE ReceiveNothing /\ pc' = "check"
        BY <3>1 DEF ReceiveNothing, network
      <3>2. ASSUME NEW d \in Arrived, d.kind \in {"response", "bare", "garbled"}, Receive(d)
            PROVE  /\ UNCHANGED <<copies, duplicated>>
                   /\ \A e \in DOMAIN net' :
                        e \in DOMAIN net /\ (e.turn = 1 /\ e.kind \in Acking => net'[e] = net[e])
                   /\ msg' = d /\ msg'.kind \notin Acks
        <4>1. /\ msg' = d /\ duplicated' = duplicated
              /\ DOMAIN net' \subseteq DOMAIN net
              /\ \A e \in DOMAIN net \ {d} : net'[e] = net[e]
          BY <1>0, <3>2, ReceiveTakes
        <4>. QED  BY <3>2, <4>1 DEF Receive, Acking, Acks
      <3>. QED  BY <2>1, <3>1, <3>2
    <2>3. (copies[1] = 0 => Firsts' = {}) /\ (Few' => Alone')
      BY <2>1, <2>2, TestTakes
    <2>4. pc' = "crashed" => Explained'
      BY <2>2 DEF Explained
    <2>. QED  BY <1>1, <2>1, <2>2, <2>3, <2>4 DEF TestBook
  <1>7. CASE CheckNothing \/ CheckGivesUp
    <2>1. /\ pc = "check" /\ pc' = "recv" /\ UNCHANGED <<todo, turn, reports, msg>>
          /\ UNCHANGED <<net, copies, duplicated>>
          /\ \/ UNCHANGED <<queued, completed>>
             \/ queued' = FALSE /\ completed' = "TIMEOUT"
      BY <1>7 DEF CheckNothing, CheckGivesUp, Checked, Completes, network, queue
    <2>2. (copies[1] = 0 => Firsts' = {}) /\ (Few' => Alone')
      BY <2>1, TestTakes
    <2>. QED  BY <1>1, <2>1, <2>2 DEF TestBook
  <1>8. CASE CheckResends
    <2>1. /\ pc = "check" /\ pc' = "recv" /\ UNCHANGED <<todo, turn, reports, msg>> /\ queued
          /\ \/ Sent /\ UNCHANGED <<queued, completed>>
             \/ NotSent /\ queued' = FALSE /\ completed' = "ERROR"
      BY <1>8 DEF CheckResends, Checked, Completes
    <2>2. msg' = Nothing \/ msg'.kind \notin Acks
      BY <2>1 DEF AcksEndRequest
    <2>3. /\ copies' \in [1..2 -> Nat]
          /\ copies'[1] # 0 \/ Firsts' = {}
          /\ Few' => Alone'
      <3>1. CASE Sent
        BY <1>1, <2>1, <2>2, <3>1, TestSends
      <3>2. CASE NotSent
        BY <1>1, <2>1, <3>2, TestTakes DEF NotSent, network
      <3>. QED  BY <2>1, <3>1, <3>2
    <2>. QED  BY <1>1, <2>1, <2>3 DEF TestBook
  <1>9. CASE CoreReport
    <2>1. /\ pc = "recv" /\ reports' = Append(reports, IF Passes THEN turn ELSE 0)
          /\ turn' = turn + 1 /\ pc' = (IF turn = Len(todo) THEN "done" ELSE "open")
          /\ UNCHANGED <<todo, msg, net, copies, duplicated>>
      BY <1>9 DEF CoreReport, CoreEnds, Report, network
    <2>2. Firsts' = Firsts /\ (Few' <=> Few)
      BY <2>1 DEF Firsts, Few
    <2>3. CASE turn = 2
      BY <1>1, <2>1, <2>2, <2>3 DEF TestBook, Alone
    <2>4. CASE turn = 1
      <3>1. turn' = 2 /\ pc' = "open" /\ reports'[1] = (IF Passes THEN turn ELSE 0)
        <4>1. turn' = 2 /\ Len(todo) = 2 /\ turn # Len(todo)
          BY <1>1, <2>1, <2>4
        <4>2. Len(reports) = 0 /\ reports \in Seq(Nat)
          BY <1>0, <2>4
        <4>. DEFINE k == IF Passes THEN turn ELSE 0
        <4>3. reports' = Append(reports, k)
          BY <2>1
        <4>. HIDE DEF k
        <4>4. reports'[1] = k
          BY <4>2, <4>3
        <4>. QED  BY <2>1, <4>1, <4>4 DEF k
      <3>2. ASSUME Few, reports'[1] # 0 PROVE Firsts = {}
        <4>1. msg # Nothing /\ msg.kind \in Acks
          BY <3>1, <3>2 DEF Passes, Acks
        <4>. QED  BY <1>1, <2>1, <2>4, <3>2, <4>1 DEF Alone
      <3>3. Few' => Alone'
        BY <1>1, <2>1, <2>2, <3>1, <3>2 DEF Alone
      <3>. QED  BY <1>1, <2>1, <2>2, <3>1, <3>3 DEF TestBook
    <2>. QED  BY <1>1, <2>1, <2>3, <2>4
  <1>10. CASE CorePrintsBare
    <2>1. /\ pc = "recv" /\ pc' = "crashed" /\ msg # Nothing /\ msg.kind \in Bare
          /\ UNCHANGED <<todo, turn, reports, msg, queued, completed, net, copies, duplicated>>
      BY <1>10 DEF CorePrintsBare, CoreEnds, Printable, network, queue
    <2>2. (copies[1] = 0 => Firsts' = {}) /\ (Few' => Alone')
      BY <2>1, TestTakes
    <2>3. Explained'
      BY <2>1 DEF Explained, AcksEndRequest, Bare, Acks
    <2>. QED  BY <1>1, <2>1, <2>2, <2>3 DEF TestBook
  <1>11. CASE TmserverEchoes \/ ServerAnswers \/ Lose
    <2>1. PICK d, R :
            /\ d \in DOMAIN net /\ Exchange(d, R) /\ duplicated' = duplicated
            /\ \A e \in R : IsDatagram(e, turn) /\ e.turn = d.turn
            /\ \/ R = {}
               \/ /\ d.kind = "request"
                  /\ \E kinds \in Replies : R = {[d EXCEPT !.kind = k] : k \in kinds}
      BY <1>11, ServersAnswer
    <2>2. /\ DOMAIN net' \subseteq DOMAIN net \cup R
          /\ net[d] = 1 => DOMAIN net' = (DOMAIN net \ {d}) \cup R
          /\ \A e \in DOMAIN net \ ({d} \cup R) : e \in DOMAIN net' /\ net'[e] = net[e]
          /\ \A e \in R \ DOMAIN net : net'[e] = 1
      BY <1>0, <2>1, ExchangeReplaces
    <2>3. UNCHANGED <<pc, todo, turn, msg, queued, completed, copies, reports>>
      BY <2>1 DEF Exchange, queue
    <2>4. pc # "args"
      <3>1. ASSUME pc = "args" PROVE FALSE
        BY <1>0, <2>1, <3>1 DEF Types, IsDatagram
      <3>. QED  BY <3>1
    <2>5. /\ R # {} => d.kind = "request"
          /\ \A e \in R : e.kind # "request"
          /\ \A e, f \in R : e.kind \in Acking /\ f.kind \in Acking => e = f
      <3>1. CASE R = {}
        BY <3>1
      <3>2. CASE R # {}
        <4>1. PICK kinds \in Replies : R = {[d EXCEPT !.kind = k] : k \in kinds}
          BY <2>1, <3>2
        <4>2. d = [kind |-> d.kind, turn |-> d.turn, client |-> d.client]
          BY <1>0, <2>1 DEF IsDatagram
        <4>3. \A k : [d EXCEPT !.kind = k].kind = k
          BY <4>2
        <4>4. /\ \A k \in kinds : k # "request"
              /\ \A j, k \in kinds : j \in Acking /\ k \in Acking => j = k
          <5>1. kinds \in {{k} : k \in Acks} \/ kinds \in {{"ack", "response"}, {"bare"}, {"garbled"}}
            BY DEF Replies
          <5>2. "request" \notin Acks /\ "response" \notin Acking
            BY DEF Acking, Acks
          <5>. QED  BY <5>1, <5>2
        <4>5. \A e \in R : e.kind \in kinds /\ e = [d EXCEPT !.kind = e.kind]
          BY <4>1, <4>3
        <4>6. d.kind = "request"
          BY <2>1, <3>2
        <4>. QED  BY <4>4, <4>5, <4>6
      <3>. QED  BY <3>1, <3>2
    <2>6. Explained' <=> Explained
      <3>1. Few' <=> Few
        BY <2>1, <2>3 DEF Few
      <3>. QED  BY <2>3, <3>1 DEF Explained
    <2>7. CASE d.turn # 1
      <3>1. Firsts' \subseteq Firsts /\ \A e \in Firsts' : net'[e] = net[e]
        BY <2>1, <2>2, <2>7 DEF Firsts
      <3>2. Few' => Few
        BY <2>1, <2>3 DEF Few
      <3>3. Few => Alone'
        BY <1>1, <2>3, <2>4, <3>1 DEF Alone
      <3>. QED  BY <1>1, <2>3, <2>4, <2>6, <3>1, <3>2, <3>3 DEF TestBook
    <2>8. CASE d.turn = 1
      <3>1. copies[1] = 0 => Firsts' = {}
        <4>1. ASSUME copies[1] = 0 PROVE Firsts' = {}
          <5>1. d \notin Firsts /\ Firsts = {}
            BY <1>1, <2>4, <4>1
          <5>2. R = {}
            BY <2>1, <2>5, <2>8, <5>1 DEF Firsts, Acking
          <5>. QED  BY <2>2, <5>1, <5>2 DEF Firsts
        <4>. QED  BY <4>1
      <3>2. Few' => Few
        BY <2>1, <2>3 DEF Few
      <3>3. ASSUME Few PROVE Alone'
        <4>1. Alone
          BY <1>1, <2>4, <3>3
        <4>2. CASE d.kind \notin Acking
          <5>1. R = {}
            BY <2>5, <4>2 DEF Acking
          <5>2. Firsts' \subseteq Firsts /\ \A e \in Firsts' : net'[e] = net[e]
            BY <2>2, <4>2, <5>1 DEF Firsts
          <5>. QED  BY <2>3, <4>1, <5>2 DEF Alone
        <4>3. CASE d.kind \in Acking
          <5>1. d \in Firsts
            BY <2>1, <2>8, <4>3 DEF Firsts
          <5>2. net[d] = 1 /\ \A e \in Firsts : e = d
            BY <4>1, <5>1 DEF Alone
          <5>3. DOMAIN net' = (DOMAIN net \ {d}) \cup R
            BY <2>2, <5>2
          <5>4. Firsts' \subseteq {e \in R : e.kind \in Acking}
            BY <5>2, <5>3 DEF Firsts
          <5>5. \A e \in Firsts' : e \notin DOMAIN net
            BY <2>1, <2>5, <2>8, <5>2, <5>4 DEF Firsts, Acking
          <5>6. \A e, f \in Firsts' : e = f /\ net'[e] = 1
            BY <2>2, <2>5, <5>4, <5>5
          <5>. QED  BY <2>3, <4>1, <5>1, <5>6 DEF Alone
        <4>. QED  BY <4>2, <4>3
      <3>. QED  BY <1>1, <2>3, <2>4, <2>6, <3>1, <3>2, <3>3 DEF TestBook
    <2>. QED  BY <2>7, <2>8
  <1>12. CASE Duplicate
    <2>1. DOMAIN net' = DOMAIN net /\ duplicated' = duplicated + 1
      BY <1>0, <1>12, DuplicateRepeats
    <2>2. UNCHANGED <<pc, todo, turn, msg, queued, completed, copies, reports>>
      BY <1>12 DEF Duplicate, queue
    <2>3. ~Few' /\ Firsts' = Firsts
      BY <1>0, <2>1 DEF Few, Firsts
    <2>4. Explained => Explained'
      BY <2>2, <2>3 DEF Explained
    <2>. QED  BY <1>0, <1>1, <2>2, <2>3, <2>4 DEF TestBook
  <1>13. CASE Expire \/ UNCHANGED vars
    <2>1. UNCHANGED <<pc, todo, turn, msg, net, queued, completed, copies, duplicated, reports>>
      BY <1>13 DEF Expire, vars, network, queue
    <2>2. Firsts' = Firsts /\ (Few' <=> Few) /\ (Alone' <=> Alone) /\ (Explained' <=> Explained)
      BY <2>1 DEF Firsts, Few, Alone, Explained
    <2>. QED  BY <1>0, <1>1, <2>1, <2>2 DEF TestBook
  <1>. QED
    BY <1>2, <1>3, <1>4, <1>5, <1>6, <1>7, <1>8, <1>9, <1>10, <1>11, <1>12,
       <1>13, TestsAreNoClients
       DEF Next, Program, Clients

\* Whatever is lost, delayed, duplicated and sent again, and however many copies are allowed,
\* testbase goes down only by what cannot be parsed, by a message without options, and in its
\* second test by an acknowledgement left over from the first, which was then sent or delivered
\* twice or came too late for it.
THEOREM CrashesExplainedHolds == Spec => []CrashesExplained
  <1>1. Types /\ TestBook => CrashesExplained
    <2>. SUFFICES ASSUME Types, TestBook, pc = "crashed"
                  PROVE  \/ msg.kind \in {"garbled", "bare"}
                         \/ msg.kind = "ack" /\ msg.turn = turn
                         \/ /\ msg.kind \in Acks /\ msg.turn = 1 /\ turn = 2
                            /\ copies[1] > 1 \/ duplicated > 0 \/ reports[1] = 0
      BY DEF CrashesExplained
    <2>1. Explained /\ copies \in [1..2 -> Nat] /\ duplicated \in Nat
      BY DEF Types, TestBook
    <2>. QED  BY <2>1 DEF Few, Explained
  <1>. QED
    BY <1>1, TypesInit, TypesNext, AcksInit, AcksNext, TestInit, TestNext, PTL DEF Spec
-----------------------------------------------------------------------------
(* The arguments that packargs keeps.                                      *)

LEMMA MaxIs ==
  ASSUME NEW S, S \subseteq Nat, NEW m \in S, \A y \in S : m >= y
  PROVE  Max(S) = m
  <1>1. ASSUME NEW x \in S, \A y \in S : x >= y PROVE x = m
    <2>1. x >= m /\ m >= x /\ x \in Nat /\ m \in Nat
      BY <1>1
    <2>. QED  BY <2>1
  <1>. QED  BY <1>1 DEF Max

\* What PackArgs folds the arguments into, and how it takes the next of them.
Packing == [skip : BOOLEAN, uris : Seq(STRING)]

NoneYet == [skip |-> FALSE, uris |-> <<>>]

Packs(acc, a) ==
  IF acc.skip THEN [acc EXCEPT !.skip = FALSE]
  ELSE IF a = "-p" THEN [acc EXCEPT !.skip = TRUE]
  ELSE [acc EXCEPT !.uris = Append(@, a)]

\* The function that the fold is defined by: a largest argument is taken last.
IsPacking(h, args) ==
  h = [s \in SUBSET (DOMAIN args) |->
         IF s = {} THEN NoneYet ELSE Packs(h[s \ {Max(s)}], args[Max(s)])]

\* What PackArgs has after i of the arguments.
PackedUpTo(args, i) == (CHOOSE h : IsPacking(h, args))[1..i]

LEMMA PacksType ==
  ASSUME NEW acc \in Packing, NEW a \in STRING
  PROVE  Packs(acc, a) \in Packing
  <1>1. acc.uris \in Seq(STRING) /\ Append(acc.uris, a) \in Seq(STRING)
    BY DEF Packing
  <1>. QED  BY <1>1 DEF Packing, Packs

\* A set of positions has a largest one.
LEMMA LargestPosition ==
  ASSUME NEW n \in Nat, NEW s \in SUBSET (0..n), s # {}
  PROVE  \E m \in s : \A y \in s : m >= y
  <1>. DEFINE T == {n - y : y \in s}
  <1>1. T \subseteq Nat /\ T # {}
    <2>1. \A y \in s : y \in 0..n /\ n - y \in Nat
      OBVIOUS
    <2>. QED  BY <2>1
  <1>2. PICK x \in T : \A y \in T : x <= y
    <2>. HIDE DEF T
    <2>. QED  BY <1>1, LeastElement
  <1>3. PICK m \in s : x = n - m
    OBVIOUS
  <1>4. ASSUME NEW y \in s PROVE m >= y
    <2>1. n - m <= n - y
      BY <1>2, <1>3
    <2>2. m \in 0..n /\ y \in 0..n
      OBVIOUS
    <2>. QED  BY <2>1, <2>2
  <1>. QED  BY <1>4

LEMMA PackingExists ==
  ASSUME NEW args \in Seq(STRING)
  PROVE  \E h : IsPacking(h, args)
  <1>. DEFINE n == Len(args)
              F == [k \in Nat |-> [acc \in Packing |->
                      IF k \in 1..n THEN Packs(acc, args[k]) ELSE acc]]
  <1>1. n \in Nat /\ DOMAIN args = 1..n /\ \A i \in 1..n : args[i] \in STRING
    OBVIOUS
  <1>2. NoneYet \in Packing
    BY DEF NoneYet, Packing
  <1>. HIDE DEF n
  <1>3. IsStep(F, Packing)
    <2>1. ASSUME NEW k \in Nat, NEW acc \in Packing
          PROVE  (IF k \in 1..n THEN Packs(acc, args[k]) ELSE acc) \in Packing
      BY <1>1, PacksType
    <2>. QED  BY <2>1 DEF IsStep
  <1>4. PICK h : IsFold(h, n, Packing, NoneYet, F)
    <2>. HIDE DEF F
    <2>. QED  BY <1>1, <1>2, <1>3, FoldExists
  <1>5. h \in [SUBSET (1..n) -> Packing] /\ h[{}] = NoneYet
    BY <1>4 DEF IsFold
  <1>6. ASSUME NEW s \in SUBSET (1..n), s # {}
        PROVE  h[s] = Packs(h[s \ {Max(s)}], args[Max(s)])
    <2>0. s \in SUBSET (0..n) /\ s \subseteq Nat
      BY <1>1
    <2>1. PICK m \in s : \A y \in s : m >= y
      BY <1>1, <1>6, <2>0, LargestPosition
    <2>2. Max(s) = m
      BY <2>0, <2>1, MaxIs
    <2>3. h[s] = F[m][h[s \ {m}]]
      <3>. HIDE DEF F
      <3>. QED  BY <1>4, <2>1 DEF IsFold
    <2>4. s \ {m} \in SUBSET (1..n) /\ m \in 1..n /\ m \in Nat
      BY <1>1
    <2>5. h[s \ {m}] \in Packing
      BY <1>5, <2>4
    <2>. QED  BY <2>2, <2>3, <2>4, <2>5
  <1>7. h = [s \in SUBSET (1..n) |->
               IF s = {} THEN NoneYet ELSE Packs(h[s \ {Max(s)}], args[Max(s)])]
    <2>. DEFINE D == SUBSET (1..n)
                p == [s \in D |-> IF s = {} THEN NoneYet ELSE Packs(h[s \ {Max(s)}], args[Max(s)])]
    <2>1. ASSUME NEW s \in D PROVE h[s] = p[s]
      <3>1. CASE s = {}
        BY <1>5, <3>1
      <3>2. CASE s # {}
        BY <1>6, <3>2
      <3>. QED  BY <3>1, <3>2
    <2>2. h = [s \in D |-> h[s]] /\ p = [s \in D |-> p[s]]
      BY <1>5
    <2>3. h = p
      <3>. HIDE DEF p, D
      <3>. QED  BY <2>1, <2>2
    <2>. QED  BY <2>3
  <1>. QED  BY <1>1, <1>7 DEF IsPacking

\* One argument after the other.
LEMMA PackedInOrder ==
  ASSUME NEW args \in Seq(STRING)
  PROVE  /\ PackArgs(args) = PackedUpTo(args, Len(args)).uris
         /\ PackedUpTo(args, 0) = NoneYet
         /\ \A i \in 1..Len(args) :
              PackedUpTo(args, i) = Packs(PackedUpTo(args, i - 1), args[i])
  <1>. DEFINE n == Len(args)
              f == CHOOSE h : IsPacking(h, args)
  <1>1. n \in Nat /\ DOMAIN args = 1..n
    OBVIOUS
  <1>2. PackArgs(args) = f[DOMAIN args].uris
    BY DEF PackArgs, FoldLeft, MapThenFoldSet, IsPacking, Packs, NoneYet
  <1>3. IsPacking(f, args)
    BY PackingExists
  <1>. HIDE DEF n, f
  <1>4. \A s \in SUBSET (1..n) :
          f[s] = IF s = {} THEN NoneYet ELSE Packs(f[s \ {Max(s)}], args[Max(s)])
    BY <1>1, <1>3 DEF IsPacking
  <1>5. ASSUME NEW i \in 1..n PROVE f[1..i] = Packs(f[1..(i - 1)], args[i])
    <2>1. 1..i \in SUBSET (1..n) /\ 1..i \subseteq Nat /\ i \in 1..i /\ \A y \in 1..i : i >= y
      BY <1>1
    <2>2. Max(1..i) = i
      BY <2>1, MaxIs
    <2>3. (1..i) \ {i} = 1..(i - 1)
      BY <1>1
    <2>4. 1..i # {}
      BY <2>1
    <2>. QED  BY <1>4, <2>1, <2>2, <2>3, <2>4
  <1>6. f[1..0] = NoneYet
    <2>1. 1..0 = {} /\ {} \in SUBSET (1..n)
      OBVIOUS
    <2>. QED  BY <1>4, <2>1
  <1>. QED  BY <1>1, <1>2, <1>5, <1>6 DEF PackedUpTo, n, f

\* The last word before a position that is no -p, step by step.
LEMMA BeforeFlagsIs ==
  ASSUME NEW args, NEW i \in Nat \ {0}
  PROVE  /\ BeforeFlags(args, i) \in 0..(i - 1)
         /\ BeforeFlags(args, i + 1) = IF args[i] # "-p" THEN i ELSE BeforeFlags(args, i)
  <1>. DEFINE Q(k) == {0} \cup {j \in 1..(k - 1) : args[j] # "-p"}
  <1>1. i - 1 \in Nat /\ (i + 1) - 1 = i /\ i \in Nat
    OBVIOUS
  <1>2. Q(i) \in SUBSET (0..(i - 1)) /\ Q(i) # {} /\ Q(i) \subseteq Nat
    OBVIOUS
  <1>3. PICK m \in Q(i) : \A y \in Q(i) : m >= y
    <2>. HIDE DEF Q
    <2>. QED  BY <1>1, <1>2, LargestPosition
  <1>4. BeforeFlags(args, i) = m
    <2>1. BeforeFlags(args, i) = Max(Q(i))
      BY DEF BeforeFlags
    <2>. HIDE DEF Q
    <2>. QED  BY <1>2, <1>3, <2>1, MaxIs
  <1>5. CASE args[i] # "-p"
    <2>1. i \in Q(i + 1) /\ Q(i + 1) \subseteq Nat /\ \A y \in Q(i + 1) : i >= y
      BY <1>1, <1>5
    <2>2. BeforeFlags(args, i + 1) = Max(Q(i + 1))
      BY DEF BeforeFlags
    <2>3. BeforeFlags(args, i + 1) = i
      <3>. HIDE DEF Q
      <3>. QED  BY <2>1, <2>2, MaxIs
    <2>4. m \in 0..(i - 1)
      BY <1>2
    <2>. QED  BY <1>4, <1>5, <2>3, <2>4
  <1>6. CASE args[i] = "-p"
    <2>1. {j \in 1..((i + 1) - 1) : args[j] # "-p"} = {j \in 1..(i - 1) : args[j] # "-p"}
      <3>1. ASSUME NEW j \in 1..((i + 1) - 1), args[j] # "-p" PROVE j \in 1..(i - 1)
        <4>1. j # i /\ j \in Nat /\ j <= i /\ j >= 1
          BY <1>1, <1>6, <3>1
        <4>. QED  BY <1>1, <4>1
      <3>2. 1..(i - 1) \subseteq 1..((i + 1) - 1)
        BY <1>1
      <3>. QED  BY <3>1, <3>2
    <2>2. BeforeFlags(args, i + 1) = BeforeFlags(args, i)
      BY <2>1 DEF BeforeFlags
    <2>3. m \in 0..(i - 1)
      BY <1>2
    <2>. QED  BY <1>4, <1>6, <2>2, <2>3
  <1>. QED  BY <1>5, <1>6

LEMMA BeforeFirst == \A args : BeforeFlags(args, 1) = 0
  <1>. SUFFICES ASSUME NEW args PROVE BeforeFlags(args, 1) = 0
    OBVIOUS
  <1>1. BeforeFlags(args, 1) \in 0..(1 - 1)
    BY BeforeFlagsIs
  <1>. QED  BY <1>1

\* URIs are counted one by one.
LEMMA UrisCounted ==
  ASSUME NEW args, NEW i \in Nat
  PROVE  /\ UrisUpTo(args, i) \in Nat
         /\ UrisUpTo(args, 0) = 0
         /\ UrisUpTo(args, i + 1) =
              IF IsUri(args, i + 1) THEN UrisUpTo(args, i) + 1 ELSE UrisUpTo(args, i)
  <1>. DEFINE Q(k) == {j \in 1..k : IsUri(args, j)}
  <1>1. IsFiniteSet(Q(i)) /\ Cardinality(Q(i)) \in Nat
    <2>1. IsFiniteSet(1..i) /\ Q(i) \subseteq 1..i
      BY FS_Interval
    <2>. HIDE DEF Q
    <2>. QED  BY <2>1, FS_Subset, FS_CardinalityType
  <1>2. UrisUpTo(args, 0) = 0
    <2>1. {j \in 1..0 : IsUri(args, j)} = {}
      OBVIOUS
    <2>. QED  BY <2>1, FS_EmptySet DEF UrisUpTo
  <1>3. CASE IsUri(args, i + 1)
    <2>1. Q(i + 1) = Q(i) \cup {i + 1} /\ i + 1 \notin Q(i)
      <3>1. 1..(i + 1) = (1..i) \cup {i + 1} /\ i + 1 \notin 1..i
        OBVIOUS
      <3>. QED  BY <1>3, <3>1
    <2>2. Cardinality(Q(i) \cup {i + 1}) = Cardinality(Q(i)) + 1
      <3>. HIDE DEF Q
      <3>. QED  BY <1>1, <2>1, FS_AddElement
    <2>. QED  BY <1>1, <1>2, <1>3, <2>1, <2>2 DEF UrisUpTo
  <1>4. CASE ~IsUri(args, i + 1)
    <2>1. Q(i + 1) = Q(i)
      <3>1. 1..(i + 1) = (1..i) \cup {i + 1} /\ i + 1 \notin 1..i
        OBVIOUS
      <3>. QED  BY <1>4, <3>1
    <2>. QED  BY <1>1, <1>2, <1>4, <2>1 DEF UrisUpTo
  <1>. QED  BY <1>3, <1>4

\* acc holds the URIs among the first i arguments, and knows whether the next word is skipped.
HoldsUris(acc, args, i) ==
  /\ acc \in Packing
  /\ acc.skip <=> (i - BeforeFlags(args, i + 1)) % 2 = 1
  /\ Len(acc.uris) = UrisUpTo(args, i)
  /\ \A j \in 1..i :
       IsUri(args, j) => UrisUpTo(args, j) \in 1..Len(acc.uris) /\ acc.uris[UrisUpTo(args, j)] = args[j]

LEMMA PacksKeepUris ==
  ASSUME NEW args \in Seq(STRING), NEW i \in 1..Len(args), NEW acc, HoldsUris(acc, args, i - 1)
  PROVE  HoldsUris(Packs(acc, args[i]), args, i)
  <1>. DEFINE a == args[i]
              b == BeforeFlags(args, i)
              new == Packs(acc, a)
              u == UrisUpTo(args, i - 1)
  <1>1. i \in Nat \ {0} /\ i - 1 \in Nat /\ (i - 1) + 1 = i /\ a \in STRING
    OBVIOUS
  <1>2. /\ acc \in Packing /\ (acc.skip <=> (i - 1 - b) % 2 = 1) /\ Len(acc.uris) = u
        /\ \A j \in 1..(i - 1) : IsUri(args, j) =>
             UrisUpTo(args, j) \in 1..u /\ acc.uris[UrisUpTo(args, j)] = args[j]
    BY <1>1 DEF HoldsUris
  <1>3. b \in 0..(i - 1) /\ BeforeFlags(args, i + 1) = IF a # "-p" THEN i ELSE b
    BY <1>1, BeforeFlagsIs
  <1>4. /\ u \in Nat
        /\ UrisUpTo(args, i) = IF IsUri(args, i) THEN u + 1 ELSE u
    BY <1>1, UrisCounted
  <1>5. IsUri(args, i) <=> a # "-p" /\ ~acc.skip
    <2>1. (i - 1 - b) % 2 \in {0, 1}
      BY <1>1, <1>3
    <2>. QED  BY <1>2, <2>1 DEF IsUri
  <1>6. new \in Packing
    BY <1>1, <1>2, PacksType
  <1>7. new.skip <=> (i - BeforeFlags(args, i + 1)) % 2 = 1
    <2>1. CASE a # "-p"
      <3>1. (i - i) % 2 = 0
        BY <1>1
      <3>2. ~new.skip
        BY <1>2, <2>1 DEF Packs, Packing
      <3>. QED  BY <1>3, <2>1, <3>1, <3>2
    <2>2. CASE a = "-p"
      <3>1. new.skip <=> ~acc.skip
        BY <1>2, <2>2 DEF Packs, Packing
      <3>2. (i - b) % 2 = 1 <=> ~((i - 1 - b) % 2 = 1)
        BY <1>1, <1>3
      <3>. QED  BY <1>2, <1>3, <2>2, <3>1, <3>2
    <2>. QED  BY <2>1, <2>2
  <1>8. CASE IsUri(args, i)
    <2>1. new.uris = Append(acc.uris, a) /\ acc.uris \in Seq(STRING)
      BY <1>2, <1>5, <1>8 DEF Packs, Packing
    <2>2. Len(new.uris) = u + 1 /\ new.uris[u + 1] = a /\ \A k \in 1..u : new.uris[k] = acc.uris[k]
      BY <1>1, <1>2, <1>4, <2>1
    <2>3. ASSUME NEW j \in 1..i, IsUri(args, j)
          PROVE  UrisUpTo(args, j) \in 1..(u + 1) /\ new.uris[UrisUpTo(args, j)] = args[j]
      <3>1. CASE j = i
        BY <1>4, <1>8, <2>2, <3>1
      <3>2. CASE j # i
        <4>1. j \in 1..(i - 1)
          BY <1>1, <3>2
        <4>2. UrisUpTo(args, j) \in 1..u /\ acc.uris[UrisUpTo(args, j)] = args[j]
          BY <1>2, <2>3, <4>1
        <4>. QED  BY <1>4, <2>2, <4>2
      <3>. QED  BY <3>1, <3>2
    <2>. HIDE DEF new, u, a, b
    <2>4. HoldsUris(new, args, i)
      BY <1>4, <1>6, <1>7, <1>8, <2>2, <2>3 DEF HoldsUris
    <2>. QED  BY <2>4 DEF new, a
  <1>9. CASE ~IsUri(args, i)
    <2>1. new.uris = acc.uris
      BY <1>2, <1>5, <1>9 DEF Packs, Packing
    <2>2. ASSUME NEW j \in 1..i, IsUri(args, j)
          PROVE  UrisUpTo(args, j) \in 1..u /\ new.uris[UrisUpTo(args, j)] = args[j]
      <3>1. j \in 1..(i - 1)
        <4>1. j # i
          BY <1>9, <2>2
        <4>. QED  BY <1>1, <4>1
      <3>. QED  BY <1>2, <2>1, <2>2, <3>1
    <2>. HIDE DEF new, u, a, b
    <2>3. HoldsUris(new, args, i)
      BY <1>2, <1>4, <1>6, <1>7, <1>9, <2>1, <2>2 DEF HoldsUris
    <2>. QED  BY <2>3 DEF new, a
  <1>. QED  BY <1>8, <1>9

\* What mcget asks for are the URIs among its arguments, all of them, in their order.
LEMMA PackArgsKeepsUris ==
  ASSUME NEW args \in Seq(STRING)
  PROVE  /\ PackArgs(args) \in Seq(STRING)
         /\ Len(PackArgs(args)) = UrisUpTo(args, Len(args))
         /\ \A i \in 1..Len(args) :
              IsUri(args, i) => PackArgs(args)[UrisUpTo(args, i)] = args[i]
  <1>. DEFINE n == Len(args)
              T == {i \in Nat : i <= n => HoldsUris(PackedUpTo(args, i), args, i)}
  <1>1. n \in Nat
    OBVIOUS
  <1>. HIDE DEF n
  <1>2. 0 \in T
    <2>1. NoneYet \in Packing /\ NoneYet.skip = FALSE /\ NoneYet.uris = <<>>
      BY DEF NoneYet, Packing
    <2>2. (0 - BeforeFlags(args, 0 + 1)) % 2 = 0
      BY BeforeFirst
    <2>3. UrisUpTo(args, 0) = 0
      BY UrisCounted
    <2>4. HoldsUris(NoneYet, args, 0)
      BY <2>1, <2>2, <2>3 DEF HoldsUris
    <2>. QED  BY <2>4, PackedInOrder
  <1>3. ASSUME NEW i \in Nat, i \in T PROVE i + 1 \in T
    <2>1. SUFFICES ASSUME i + 1 <= n PROVE HoldsUris(PackedUpTo(args, i + 1), args, i + 1)
      OBVIOUS
    <2>2. i + 1 \in 1..n /\ i <= n /\ (i + 1) - 1 = i
      BY <1>1, <2>1
    <2>3. HoldsUris(PackedUpTo(args, (i + 1) - 1), args, (i + 1) - 1)
      BY <1>3, <2>2
    <2>4. PackedUpTo(args, i + 1) = Packs(PackedUpTo(args, (i + 1) - 1), args[i + 1])
      BY <2>2, PackedInOrder DEF n
    <2>. QED  BY <2>2, <2>3, <2>4, PacksKeepUris DEF n
  <1>4. HoldsUris(PackedUpTo(args, n), args, n)
    <2>. HIDE DEF T
    <2>1. n \in T
      BY <1>1, <1>2, <1>3, SetInduction
    <2>. QED  BY <2>1 DEF T
  <1>5. PackArgs(args) = PackedUpTo(args, n).uris
    BY PackedInOrder DEF n
  <1>. QED  BY <1>4, <1>5 DEF HoldsUris, Packing, n

\* mcget has no port only if a -p is the last word, or one stands before a number of which
\* an unsigned short leaves nothing.
LEMMA NoPort ==
  ASSUME NEW args \in Seq(STRING), McgetPort(args) = 0
  PROVE  \E i \in DOMAIN args :
           args[i] = "-p" /\ (i < Len(args) => Number[args[i + 1]] % 65536 = 0)
  <1>. DEFINE at == {i \in 1..(Len(args) - 1) : args[i] = "-p"}
  <1>1. Len(args) \in Nat /\ DOMAIN args = 1..Len(args)
    OBVIOUS
  <1>2. McgetPort(args) =
          IF at # {} THEN Number[args[Min(at) + 1]] % 65536
          ELSE IF args # <<>> /\ Last(args) = "-p" THEN 0 ELSE MC_DEFAULT_PORT
    BY DEF McgetPort, GetPort
  <1>3. CASE at # {}
    <2>1. PICK m \in at : \A y \in at : m <= y
      <3>1. at \subseteq Nat
        OBVIOUS
      <3>. HIDE DEF at
      <3>. QED  BY <1>3, <3>1, LeastElement
    <2>2. Min(at) \in at
      <3>. HIDE DEF at
      <3>. QED  BY <2>1 DEF Min
    <2>3. Number[args[Min(at) + 1]] % 65536 = 0
      <3>. HIDE DEF at
      <3>. QED  BY <1>2, <1>3
    <2>4. Min(at) \in 1..Len(args) /\ args[Min(at)] = "-p"
      BY <1>1, <2>2
    <2>. QED  BY <1>1, <2>3, <2>4
  <1>4. CASE at = {}
    <2>1. args # <<>> /\ Last(args) = "-p"
      <3>. HIDE DEF at
      <3>. QED  BY <1>2, <1>4 DEF MC_DEFAULT_PORT
    <2>2. Len(args) \in 1..Len(args) /\ args[Len(args)] = "-p" /\ ~(Len(args) < Len(args))
      BY <1>1, <2>1 DEF Last
    <2>. DEFINE n == Len(args)
    <2>3. n \in DOMAIN args /\ args[n] = "-p" /\ ~(n < Len(args))
      BY <1>1, <2>2
    <2>. HIDE DEF n
    <2>. QED  BY <2>3
  <1>. QED  BY <1>3, <1>4

Asks(args) == McgetPort(args) # 0 /\ PackArgs(args) # <<>>

\* mcget has not looked at its arguments, or has ended for want of what to ask, or takes one
\* URI after the other.
Asked ==
  /\ line \in Lines
  /\ line.program = "mcget" =>
       \/ pc = "args"
       \/ ~Asks(line.args) /\ pc = "done" /\ todo = <<>> /\ turn = 1
       \/ /\ Asks(line.args) /\ todo = PackArgs(line.args)
          /\ IF pc = "done" THEN turn = Len(todo) + 1 ELSE turn <= Len(todo)

LEMMA AskedInit == Init => Asked
  BY DEF Init, Asked

LEMMA AskedNext == ASSUME Types, Asked, [Next]_vars PROVE Asked'
  <1>0. line' = line /\ line \in Lines /\ turn \in Nat \ {0}
    BY LineStays DEF Types, Asked
  <1>. SUFFICES ASSUME line.program = "mcget" PROVE Asked'
    BY <1>0 DEF Asked
  <1>. DEFINE uris == PackArgs(line.args)
  <1>a. uris \in Seq(STRING)
    BY <1>0, LinesAssumption, PackArgsKeepsUris
  <1>. HIDE DEF uris
  <1>1. CASE McgetMain
    <2>1. /\ pc = "args" /\ turn' = turn /\ turn = 1
          /\ pc' = IF Asks(line.args) THEN "open" ELSE "done"
          /\ todo' = IF Asks(line.args) THEN uris ELSE <<>>
      BY <1>1 DEF McgetMain, Start, Asks, Types, uris
    <2>2. CASE Asks(line.args)
      <3>1. uris # <<>>
        BY <2>2 DEF Asks, uris
      <3>2. 1 <= Len(uris)
        BY <1>a, <3>1
      <3>. QED  BY <1>0, <2>1, <2>2, <3>2 DEF Asked, uris
    <2>3. CASE ~Asks(line.args)
      BY <1>0, <2>1, <2>3 DEF Asked
    <2>. QED  BY <2>2, <2>3
  <1>2. ASSUME todo' = todo, turn' = turn, pc # "args", pc # "done", pc' # "done" PROVE Asked'
    BY <1>0, <1>2 DEF Asked
  <1>3. CASE Open \/ McgetSend \/ McgetRecv
    BY <1>2, <1>3 DEF Open, McgetSend, McgetRecv
  <1>4. CASE McgetReport
    <2>1. /\ pc = "recv" /\ turn' = turn + 1 /\ todo' = todo
          /\ pc' = IF turn = Len(todo) THEN "done" ELSE "open"
      BY <1>4 DEF McgetReport, Report
    <2>2. Asks(line.args) /\ todo = uris /\ turn <= Len(todo)
      BY <2>1 DEF Asked, uris
    <2>3. Len(todo) \in Nat
      BY <1>a, <2>2
    <2>4. IF pc' = "done" THEN turn' = Len(todo) + 1 ELSE turn' <= Len(todo)
      BY <1>0, <2>1, <2>2, <2>3
    <2>. QED  BY <1>0, <2>1, <2>2, <2>4 DEF Asked, uris
  <1>5. ~(TmclientMain \/ RunAllTests \/ TmclientSend \/ TmclientRecv)
    BY DEF TmclientMain, RunAllTests, TmclientSend, TmclientRecv
  <1>6. ~(CoreSend \/ CoreRecvAck \/ CoreRecv \/ CoreRecvGarbled \/ CoreReport \/ CorePrintsBare)
    BY DEF CoreSend, CoreRecvAck, CoreRecv, CoreRecvGarbled, CoreReport, CorePrintsBare,
           CoreLoops, CoreEnds
  <1>7. ~(CheckNothing \/ CheckResends \/ CheckGivesUp)
    BY DEF CheckNothing, CheckResends, CheckGivesUp, Checked, Types
  <1>8. ASSUME pc' = pc, todo' = todo, turn' = turn PROVE Asked'
    BY <1>0, <1>8 DEF Asked
  <1>9. CASE TmserverEchoes \/ ServerAnswers \/ Lose
    BY <1>8, <1>9 DEF TmserverEchoes, ServerAnswers, Lose, Exchange
  <1>10. CASE Duplicate \/ Expire \/ UNCHANGED vars
    BY <1>8, <1>10 DEF Duplicate, Expire, vars
  <1>. QED
    BY <1>1, <1>3, <1>4, <1>5, <1>6, <1>7, <1>9, <1>10 DEF Next, Program

\* However many arguments there are and wherever the options stand among them, mcget asks for
\* each URI once, in their order, and reports on each, unless it prints its usage.
THEOREM OneReportPerUriHolds == Spec => []OneReportPerUri
  <1>1. Types /\ Asked => OneReportPerUri
    <2>. SUFFICES ASSUME Types, Asked, pc = "done", line.program = "mcget"
                  PROVE  OneReportPerUri
      BY DEF OneReportPerUri
    <2>. DEFINE args == line.args
    <2>1. args \in Seq(STRING) /\ Len(reports) = turn - 1
      BY LinesAssumption DEF Asked, Types
    <2>2. /\ PackArgs(args) \in Seq(STRING)
          /\ Len(PackArgs(args)) = UrisUpTo(args, Len(args))
          /\ \A i \in 1..Len(args) :
               IsUri(args, i) => PackArgs(args)[UrisUpTo(args, i)] = args[i]
      <3>. HIDE DEF args
      <3>. QED  BY <2>1, PackArgsKeepsUris
    <2>3. \/ ~Asks(args) /\ todo = <<>> /\ turn = 1
          \/ Asks(args) /\ todo = PackArgs(args) /\ turn = Len(todo) + 1
      BY DEF Asked
    <2>4. DOMAIN args = 1..Len(args)
      BY <2>1
    <2>. HIDE DEF args
    <2>5. CASE ~Asks(args) /\ todo = <<>> /\ turn = 1
      <3>1. McgetPort(args) = 0 \/ UrisUpTo(args, Len(args)) = 0
        BY <2>2, <2>5 DEF Asks
      <3>2. Len(reports) = Len(todo)
        BY <2>1, <2>5
      <3>. QED  BY <2>1, <2>5, <3>1, <3>2, NoPort DEF OneReportPerUri, args
    <2>6. CASE Asks(args) /\ todo = PackArgs(args) /\ turn = Len(todo) + 1
      <3>1. todo # <<>>
        BY <2>6 DEF Asks
      <3>2. Len(reports) = Len(todo)
        BY <2>1, <2>2, <2>6
      <3>. QED  BY <2>2, <2>4, <2>6, <3>1, <3>2 DEF OneReportPerUri, args
    <2>. QED  BY <2>3, <2>5, <2>6
  <1>. QED  BY <1>1, TypesInit, TypesNext, AskedInit, AskedNext, PTL DEF Spec
=============================================================================
