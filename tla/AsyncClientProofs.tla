-------------------------- MODULE AsyncClientProofs --------------------------
(***************************************************************************)
(* Proofs about AsyncClient, for every Units, ReadBuf, MaxCalls, MaxFaults *)
(* and FaultKinds.                                                         *)
(***************************************************************************)
EXTENDS AsyncClient, SeqLemmas

-----------------------------------------------------------------------------
(* Typing *)

\* A message is a sequence of units.
LEMMA EncodeType ==
    ASSUME NEW M, NEW m \in M
    PROVE  Encode(m) \in Seq(Unit(M))
BY UnitsAssumption DEF Encode, Unit

\* The packet at the front of a non-empty input buffer is a server packet.
LEMMA FrontType ==
    ASSUME CoreTypeOK, ~WouldBlock
    PROVE  FrontPacket \in ServerPacket
<1>1. 1 \in 1..Len(inbuf)
  BY UnitsAssumption, LenProperties DEF CoreTypeOK, WouldBlock
<1>2. inbuf[1] \in Unit(ServerPacket)
  BY <1>1, LenProperties DEF CoreTypeOK
<1> QED BY <1>2 DEF Unit, FrontPacket

\* Queueing a client message keeps the core typed.
LEMMA QueueOutType ==
    ASSUME CoreTypeOK, NEW m \in ClientMessage, QueueOut(m)
    PROVE  /\ outq' \in Seq(Unit(ClientMessage))
           /\ queued' \in Seq(Unit(ClientMessage))
<1>1. Encode(m) \in Seq(Unit(ClientMessage))
  BY EncodeType
<1> QED BY <1>1, ConcatProperties DEF CoreTypeOK, QueueOut

\* So does decoding a packet.
LEMMA DecodeType ==
    ASSUME CoreTypeOK, ~WouldBlock, DecodeFront
    PROVE  /\ inbuf' \in Seq(Unit(ServerPacket))
           /\ eaten' \in Seq(Unit(ServerPacket))
<1>1. Units \in 0..Len(inbuf) /\ inbuf \in Seq(Unit(ServerPacket))
  BY UnitsAssumption, LenProperties DEF CoreTypeOK, WouldBlock
<1>2. /\ SubSeq(inbuf, 1, Units) \in Seq(Unit(ServerPacket))
      /\ SubSeq(inbuf, Units + 1, Len(inbuf)) \in Seq(Unit(ServerPacket))
  BY <1>1, CutFact DEF Cuts, Front, Back
<1> QED BY <1>2, ConcatProperties DEF CoreTypeOK, DecodeFront

\* Every method of the core keeps it typed.
LEMMA CoreMethodType ==
    ASSUME CoreTypeOK,
           \/ \E m \in ClientMessage : send(m)
           \/ \E res \in {"NeedsInput", "Ready", "Err"} :
                handshake(res) \/ recv_event(res)
    PROVE  CoreTypeOK'
<1>1. ASSUME NEW m \in ClientMessage, send(m) PROVE CoreTypeOK'
  BY <1>1, QueueOutType DEF send, CoreTypeOK
<1>2. ASSUME NEW res, handshake(res) PROVE CoreTypeOK'
  <2>1. CASE UNCHANGED coreVars
    BY <2>1 DEF coreVars, CoreTypeOK
  <2>2. CASE /\ QueueOut("Hello") /\ hs' = "sent"
             /\ UNCHANGED <<inbuf, eaten, decoded>>
    <3>1. "Hello" \in ClientMessage
      BY DEF ClientMessage
    <3> QED BY <2>2, <3>1, QueueOutType DEF CoreTypeOK
  <2>3. CASE /\ ~WouldBlock /\ DecodeFront /\ QueueOut("Addendum")
             /\ hs' = "done" /\ UNCHANGED decoded
    <3>1. "Addendum" \in ClientMessage
      BY DEF ClientMessage
    <3> QED BY <2>3, <3>1, QueueOutType, DecodeType DEF CoreTypeOK
  <2>4. CASE /\ ~WouldBlock /\ DecodeFront
             /\ UNCHANGED <<outq, queued, hs, decoded>>
    BY <2>4, DecodeType DEF CoreTypeOK
  <2> QED BY <1>2, <2>1, <2>2, <2>3, <2>4 DEF handshake
<1>3. ASSUME NEW res, recv_event(res) PROVE CoreTypeOK'
  <2>1. CASE UNCHANGED coreVars
    BY <2>1 DEF coreVars, CoreTypeOK
  <2>2. CASE /\ ~WouldBlock /\ DecodeFront
             /\ UNCHANGED <<outq, hs, queued, decoded>>
    BY <2>2, DecodeType DEF CoreTypeOK
  <2>3. CASE /\ ~WouldBlock /\ DecodeFront
             /\ decoded' = Append(decoded, FrontPacket)
             /\ UNCHANGED <<outq, hs, queued>>
    <3>1. decoded' \in Seq(ServerPacket)
      BY <2>3, FrontType, AppendProperties DEF CoreTypeOK
    <3> QED BY <2>3, <3>1, DecodeType DEF CoreTypeOK
  <2> QED BY <1>3, <2>1, <2>2, <2>3 DEF recv_event
<1> QED BY <1>1, <1>2, <1>3

\* Returning hands over a typed event, and failing forgets it.
LEMMA ReturnType ==
    ASSUME TaskTypeOK, ReturnOk \/ Abandon
    PROVE  TaskTypeOK'
<1>1. CASE ReturnOk
  <2>1. events' \in Seq(ServerPacket)
    BY <1>1, ConcatProperties DEF TaskTypeOK, ReturnOk
  <2>2. wrote' \in BOOLEAN
    BY <1>1 DEF ReturnOk
  <2> QED BY <1>1, <2>1, <2>2, EmptySeq DEF TaskTypeOK, ReturnOk, Pc, Cont
<1>2. CASE Abandon
  <2>1. wrote' \in BOOLEAN
    BY <1>2 DEF Abandon
  <2> QED BY <1>2, <2>1, EmptySeq DEF TaskTypeOK, Abandon, Pc, Cont
<1> QED BY <1>1, <1>2

\* The code after drain_out keeps the core and the future typed.
LEMMA AfterDrainType ==
    ASSUME CoreTypeOK, TaskTypeOK, AfterDrain
    PROVE  CoreTypeOK' /\ TaskTypeOK'
<1>1. CASE cont = "pre" /\ send(op) /\ Drain("post") /\ UNCHANGED <<op, held, events>>
  <2>1. op \in ClientMessage
    BY <1>1 DEF TaskTypeOK, SendOp, ClientMessage
  <2>2. TaskTypeOK'
    BY <1>1 DEF TaskTypeOK, Drain, Pc, Cont, Await
  <2> QED BY <1>1, <2>1, <2>2, CoreMethodType
<1>2. CASE (ReturnOk \/ Abandon) /\ UNCHANGED coreVars
  BY <1>2, ReturnType DEF coreVars, CoreTypeOK
<1>3. CASE /\ op = "handshake"
           /\ \/ handshake("NeedsInput") /\ Drain("need") /\ UNCHANGED <<op, held, events>>
              \/ handshake("Ready") /\ Drain("ready") /\ UNCHANGED <<op, held, events>>
              \/ handshake("Err") /\ Abandon
  <2>1. CoreTypeOK'
    BY <1>3, CoreMethodType
  <2>2. TaskTypeOK'
    BY <1>3, ReturnType DEF TaskTypeOK, Drain, Pc, Cont, Await
  <2> QED BY <2>1, <2>2
<1>4. CASE /\ op = "recv"
           /\ \/ recv_event("NeedsInput") /\ Drain("need") /\ UNCHANGED <<op, held, events>>
              \/ /\ recv_event("Ready")
                 /\ held' = <<FrontPacket>>
                 /\ Drain("ready") /\ UNCHANGED <<op, events>>
              \/ recv_event("Err") /\ Abandon
  <2>1. CoreTypeOK'
    BY <1>4, CoreMethodType
  <2>2. CASE recv_event("Ready") /\ held' = <<FrontPacket>>
             /\ Drain("ready") /\ UNCHANGED <<op, events>>
    <3>1. ~WouldBlock
      BY <2>2 DEF recv_event
    <3>2. held' \in Seq(ServerPacket)
      BY <2>2, <3>1, FrontType
    <3> QED BY <2>1, <2>2, <3>2 DEF TaskTypeOK, Drain, Pc, Cont, Await
  <2>3. CASE ~recv_event("Ready")
    BY <1>4, <2>1, <2>3, ReturnType DEF TaskTypeOK, Drain, Pc, Cont, Await
  <2> QED BY <1>4, <2>1, <2>2, <2>3, ReturnType
        DEF TaskTypeOK, Drain, Pc, Cont, Await
<1>5. CASE pc' = "read" /\ UNCHANGED <<coreVars, op, cont, wrote, held, events>>
  BY <1>5 DEF coreVars, CoreTypeOK, TaskTypeOK, Pc, Await
<1> QED BY <1>1, <1>2, <1>3, <1>4, <1>5 DEF AfterDrain

\* The server answers with packets and moves to one of its states.
LEMMA ReactType ==
    ASSUME NEW m, React(m)
    PROVE  /\ todo' \in Seq(ServerPacket)
           /\ srv' \in {"greeting", "addendum", "idle", "insert", "closed"}
<1>1. srv' \in {"greeting", "addendum", "idle", "insert", "closed"}
  BY DEF React, Answer
<1>2. \A p \in ServerPacket : <<p>> \in Seq(ServerPacket)
  OBVIOUS
<1>3. \A p, q \in ServerPacket : <<p, q>> \in Seq(ServerPacket)
  OBVIOUS
<1>4. \/ todo' = <<>>
      \/ \E p \in ServerPacket : todo' = <<p>>
      \/ \E p, q \in ServerPacket : todo' = <<p, q>>
  BY DEF React, Answer, ServerPacket
<1>5. todo' \in Seq(ServerPacket)
  BY <1>2, <1>3, <1>4, EmptySeq
<1> QED BY <1>1, <1>5

\* Every step keeps every variable typed: one case per action.
LEMMA TypeStep == TypeOK /\ [Next]_vars => TypeOK'
<1> SUFFICES ASSUME TypeOK, [Next]_vars PROVE TypeOK'
  OBVIOUS
<1> USE DEF TypeOK
<1>1. ASSUME NEW o \in SendOp, CallSend(o) PROVE TypeOK'
  <2>1. calls' \in [SendOp -> Nat]
    BY <1>1 DEF CallSend, CountCall, HistTypeOK
  <2>2. TaskTypeOK'
    BY <1>1 DEF CallSend, Drain, TaskTypeOK, Pc, Cont
  <2> QED BY <1>1, <2>1, <2>2 DEF CallSend, coreVars, netVars, srvVars, CoreTypeOK,
        NetTypeOK, SrvTypeOK, HistTypeOK
<1>2. ASSUME NEW o \in SendOp, CoreSend(o) PROVE TypeOK'
  <2>1. o \in ClientMessage
    BY DEF SendOp, ClientMessage
  <2>2. CoreTypeOK'
    BY <1>2, <2>1, CoreMethodType DEF CoreSend
  <2> QED BY <1>2, <2>2 DEF CoreSend, CountCall, taskVars, netVars, srvVars,
     TaskTypeOK, NetTypeOK, SrvTypeOK, HistTypeOK
<1>3. CASE CallRecv
  BY <1>3 DEF CallRecv, Drain, coreVars, netVars, srvVars, histVars, CoreTypeOK,
     TaskTypeOK, NetTypeOK, SrvTypeOK, HistTypeOK, Pc, Cont, Await
<1>4. CASE DropFuture
  <2>1. TaskTypeOK'
    BY <1>4, ReturnType DEF DropFuture
  <2>2. cut' \in BOOLEAN
    BY <1>4 DEF DropFuture
  <2> QED BY <1>4, <2>1, <2>2 DEF DropFuture, Fault, coreVars, netVars, srvVars,
        CoreTypeOK, NetTypeOK, SrvTypeOK, HistTypeOK
<1>5. CASE DrainWrite \/ DrainFlush
  BY <1>5 DEF DrainWrite, DrainFlush, coreVars, netVars, srvVars, histVars,
     CoreTypeOK, TaskTypeOK, NetTypeOK, SrvTypeOK, HistTypeOK, Pc, Await
<1>6. CASE DrainNothing
  BY <1>6, AfterDrainType DEF DrainNothing, netVars, srvVars,
     NetTypeOK, SrvTypeOK, HistTypeOK, TaskTypeOK
<1>7. CASE FlushDone
  BY <1>7, AfterDrainType DEF FlushDone, netVars, srvVars,
     NetTypeOK, SrvTypeOK, HistTypeOK, TaskTypeOK
<1>8. ASSUME NEW n \in Nat, NEW k \in Nat, WriteDone(n, k) PROVE TypeOK'
  <2> DEFINE t == tbuf \o SubSeq(outq, 1, n)
  <2>1. /\ SubSeq(outq, 1, n) \in Seq(Unit(ClientMessage))
        /\ outq' \in Seq(Unit(ClientMessage))
    <3>1. n \in 0..Len(outq) /\ outq \in Seq(Unit(ClientMessage))
      BY <1>8 DEF WriteDone, AcceptWrite, CoreTypeOK
    <3> QED BY <1>8, <3>1, CutFact DEF Cuts, Front, Back, WriteDone, AcceptWrite, consume_out
  <2>2. t \in Seq(Unit(ClientMessage)) /\ k \in 0..Len(t)
    BY <1>8, <2>1, ConcatProperties DEF WriteDone, AcceptWrite, NetTypeOK
  <2>3. up' = up \o SubSeq(t, 1, k) /\ tbuf' = SubSeq(t, k + 1, Len(t))
    BY <1>8 DEF WriteDone, AcceptWrite
  <2> HIDE DEF t
  <2>4. SubSeq(t, 1, k) \in Seq(Unit(ClientMessage))
        /\ tbuf' \in Seq(Unit(ClientMessage))
    BY <2>2, <2>3, CutFact DEF Cuts, Front, Back
  <2>5. up' \in Seq(Unit(ClientMessage))
    BY <2>3, <2>4, ConcatProperties DEF NetTypeOK
  <2> QED BY <1>8, <2>1, <2>4, <2>5 DEF WriteDone, AcceptWrite, srvVars, histVars,
        CoreTypeOK, TaskTypeOK, NetTypeOK, SrvTypeOK, HistTypeOK, Pc
<1>9. CASE WriteFails \/ FlushFails \/ ReadFails \/ ReadEof
  <2>1. TaskTypeOK'
    BY <1>9, ReturnType DEF WriteFails, FlushFails, ReadFails, ReadEof
  <2>2. cut' \in BOOLEAN
    BY <1>9 DEF WriteFails, FlushFails, ReadFails, ReadEof, HistTypeOK
  <2>4. faults' \in Nat /\ UNCHANGED <<calls, lost>>
    BY <1>9 DEF WriteFails, FlushFails, ReadFails, ReadEof, Fault, PeerGone, TypeOK, HistTypeOK
  <2>3. UNCHANGED <<coreVars, netVars, srvVars>>
    BY <1>9 DEF WriteFails, FlushFails, ReadFails, ReadEof
  <2> QED BY <2>1, <2>2, <2>3, <2>4 DEF coreVars, netVars, srvVars, CoreTypeOK,
        NetTypeOK, SrvTypeOK, HistTypeOK
<1>10. CASE FlushSome
  <2>1. 1 \in 0..Len(tbuf) /\ tbuf \in Seq(Unit(ClientMessage))
    BY <1>10, EmptySeq, LenProperties DEF FlushSome, NetTypeOK
  <2>2. /\ SubSeq(tbuf, 1, 1) \in Seq(Unit(ClientMessage))
        /\ SubSeq(tbuf, 1 + 1, Len(tbuf)) \in Seq(Unit(ClientMessage))
    BY <2>1, CutFact DEF Cuts, Front, Back
  <2>3. NetTypeOK'
    BY <1>10, <2>2, ConcatProperties DEF FlushSome, NetTypeOK
  <2> QED BY <1>10, <2>3 DEF FlushSome, coreVars, taskVars, srvVars, histVars,
        CoreTypeOK, TaskTypeOK, SrvTypeOK, HistTypeOK
<1>11. ASSUME NEW n \in Nat, ReadDone(n) PROVE TypeOK'
  <2>1. n \in 0..Len(down) /\ down \in Seq(Unit(ServerPacket))
    BY <1>11 DEF ReadDone, NetTypeOK
  <2>2. SubSeq(down, 1, n) \in Seq(Unit(ServerPacket)) /\ NetTypeOK'
    BY <1>11, <2>1, CutFact DEF Cuts, Front, Back, ReadDone, NetTypeOK
  <2>3. inbuf' \in Seq(Unit(ServerPacket))
    BY <1>11, <2>2, ConcatProperties DEF ReadDone, submit, CoreTypeOK
  <2>4. TaskTypeOK'
    BY <1>11, ReturnType DEF ReadDone, Drain, TaskTypeOK, Pc, Cont
  <2>5. HistTypeOK'
    <3>1. lost' \in BOOLEAN
      BY <1>11 DEF ReadDone, HistTypeOK
    <3>2. faults' \in Nat /\ UNCHANGED <<calls, cut>>
      BY <1>11 DEF ReadDone, Fault, HistTypeOK
    <3> QED BY <3>1, <3>2 DEF HistTypeOK
  <2>6. UNCHANGED <<outq, hs, queued, eaten, decoded, srvVars>>
    BY <1>11 DEF ReadDone
  <2> QED BY <2>2, <2>3, <2>4, <2>5, <2>6 DEF srvVars, CoreTypeOK, SrvTypeOK
<1>12. CASE ServerReads
  <2>1. 1 \in 0..Len(up) /\ up \in Seq(Unit(ClientMessage))
    BY <1>12, EmptySeq, LenProperties DEF ServerReads, NetTypeOK
  <2>2. /\ SubSeq(up, 1, 1) \in Seq(Unit(ClientMessage))
        /\ SubSeq(up, 1 + 1, Len(up)) \in Seq(Unit(ClientMessage))
    BY <2>1, CutFact DEF Cuts, Front, Back
  <2>3. todo' \in Seq(ServerPacket)
        /\ srv' \in {"greeting", "addendum", "idle", "insert", "closed"}
    BY <1>12, ReactType DEF ServerReads, SrvTypeOK
  <2>4. got' \in Seq(Unit(ClientMessage))
    BY <1>12, <2>2, ConcatProperties DEF ServerReads, SrvTypeOK
  <2>5. SrvTypeOK' /\ NetTypeOK'
    BY <1>12, <2>2, <2>3, <2>4 DEF ServerReads, NetTypeOK, SrvTypeOK
  <2> QED BY <1>12, <2>5 DEF ServerReads, coreVars, taskVars, histVars,
        CoreTypeOK, TaskTypeOK, HistTypeOK
<1>13. CASE ServerSends
  <2>1. 1 \in 0..Len(todo) /\ 1 \in 1..Len(todo) /\ todo \in Seq(ServerPacket)
    BY <1>13, EmptySeq, LenProperties DEF ServerSends, SrvTypeOK
  <2>2. SubSeq(todo, 1 + 1, Len(todo)) \in Seq(ServerPacket)
    BY <2>1, CutFact DEF Cuts, Front, Back
  <2>3. Encode(todo[1]) \in Seq(Unit(ServerPacket))
    BY <2>1, EncodeType, LenProperties
  <2>4. SrvTypeOK' /\ NetTypeOK'
    BY <1>13, <2>2, <2>3, ConcatProperties DEF ServerSends, NetTypeOK, SrvTypeOK
  <2> QED BY <1>13, <2>4 DEF ServerSends, coreVars, taskVars, histVars,
        CoreTypeOK, TaskTypeOK, HistTypeOK
<1>14. CASE ServerCloses
  BY <1>14 DEF ServerCloses, Fault, coreVars, taskVars, netVars, CoreTypeOK,
     TaskTypeOK, NetTypeOK, SrvTypeOK, HistTypeOK
<1>15. CASE UNCHANGED vars
  BY <1>15 DEF vars, coreVars, taskVars, netVars, srvVars, histVars, CoreTypeOK,
     TaskTypeOK, NetTypeOK, SrvTypeOK, HistTypeOK
<1> QED BY <1>1, <1>2, <1>3, <1>4, <1>5, <1>6, <1>7, <1>8, <1>9, <1>10, <1>11,
           <1>12, <1>13, <1>14, <1>15, AsyncAssumption
        DEF Next, Application, Task, TransportFault, Server

\* AsyncClient keeps every variable in its type.
THEOREM Typing == Spec => []TypeOK
<1>1. Init => TypeOK
  <2> SUFFICES ASSUME Init PROVE TypeOK
    OBVIOUS
  <2>1. CoreTypeOK
    BY EmptySeq DEF Init, new, CoreTypeOK
  <2>2. TaskTypeOK
    BY EmptySeq DEF Init, TaskTypeOK, Pc, Cont
  <2>3. NetTypeOK /\ SrvTypeOK
    BY EmptySeq DEF Init, NetTypeOK, SrvTypeOK
  <2>4. HistTypeOK
    BY DEF Init, HistTypeOK
  <2> QED BY <2>1, <2>2, <2>3, <2>4 DEF TypeOK
<1> QED BY <1>1, TypeStep, PTL DEF Spec

-----------------------------------------------------------------------------
(* Both directions carry every unit exactly once and in order *)

\* What the code after drain_out does to the core's two buffers.
LEMMA AfterDrainBuffers ==
    ASSUME CoreTypeOK, TaskTypeOK, AfterDrain
    PROVE  /\ \/ UNCHANGED <<outq, queued>>
              \/ \E m \in ClientMessage : QueueOut(m)
           /\ \/ UNCHANGED <<inbuf, eaten>>
              \/ ~WouldBlock /\ DecodeFront
<1>1. op \in SendOp => op \in ClientMessage
  BY DEF SendOp, ClientMessage
<1>2. {"Hello", "Addendum"} \subseteq ClientMessage
  BY DEF ClientMessage
<1> QED BY <1>1, <1>2 DEF AfterDrain, handshake, recv_event, send, coreVars, TaskTypeOK

\* Queueing a message extends the outbound stream and its history alike.
LEMMA QueueOutIntegrity ==
    ASSUME TypeOK, OutboundIntegrity, NEW m \in ClientMessage, QueueOut(m),
           UNCHANGED <<got, up, tbuf>>
    PROVE  OutboundIntegrity'
<1> DEFINE U == Unit(ClientMessage)
           p == got \o up \o tbuf
<1>1. Encode(m) \in Seq(U) /\ outq \in Seq(U)
  BY EncodeType DEF TypeOK, CoreTypeOK
<1>2. p \in Seq(U)
  <2>1. got \in Seq(U) /\ up \in Seq(U) /\ tbuf \in Seq(U) /\ Closed(U)
    BY ConcatFacts DEF TypeOK, NetTypeOK, SrvTypeOK
  <2> QED BY ONLY <2>1 DEF Closed
<1>3. Assoc(U)
  BY ConcatFacts
<1> HIDE DEF U, p
<1>4. AssocAt(p, outq, Encode(m))
  BY ONLY <1>1, <1>2, <1>3 DEF Assoc
<1>5. /\ queued = p \o outq /\ queued' = queued \o Encode(m)
      /\ outq' = outq \o Encode(m)
      /\ (got \o up \o tbuf)' = p
  BY DEF OutboundIntegrity, QueueOut, p
<1>6. p \o outq' = queued'
  BY ONLY <1>4, <1>5 DEF AssocAt
<1> QED BY <1>5, <1>6 DEF OutboundIntegrity

\* No step loses, repeats or reorders an outbound unit.
LEMMA OutboundStep == TypeOK /\ OutboundIntegrity /\ [Next]_vars => OutboundIntegrity'
<1> SUFFICES ASSUME TypeOK, OutboundIntegrity, [Next]_vars PROVE OutboundIntegrity'
  OBVIOUS
<1> DEFINE U == Unit(ClientMessage)
<1>0. outq \in Seq(U) /\ queued \in Seq(U) /\ got \in Seq(U) /\ up \in Seq(U)
      /\ tbuf \in Seq(U)
  BY DEF TypeOK, CoreTypeOK, NetTypeOK, SrvTypeOK
<1>1. CASE UNCHANGED <<outq, queued, got, up, tbuf>>
  BY <1>1 DEF OutboundIntegrity
<1>2. ASSUME NEW o \in SendOp, CoreSend(o) PROVE OutboundIntegrity'
  <2>1. o \in ClientMessage
    BY DEF SendOp, ClientMessage
  <2> QED BY <1>2, <2>1, QueueOutIntegrity DEF CoreSend, send, netVars, srvVars
<1>3. CASE DrainNothing \/ FlushDone
  <2>1. AfterDrain /\ UNCHANGED <<got, up, tbuf>>
    BY <1>3 DEF DrainNothing, FlushDone, netVars, srvVars
  <2>2. CoreTypeOK /\ TaskTypeOK
    BY DEF TypeOK
  <2> QED BY <1>1, <2>1, <2>2, AfterDrainBuffers, QueueOutIntegrity
<1>4. ASSUME NEW n, NEW k, WriteDone(n, k) PROVE OutboundIntegrity'
  <2>1. Pipelines(U)
    BY PipelineFact
  <2>2. n \in 0..Len(outq) /\ k \in 0..Len(Joined(tbuf, outq, n))
    BY <1>0, <1>4, LenProperties DEF WriteDone, AcceptWrite, Joined, Front
  <2>3. /\ up' = up \o Front(Joined(tbuf, outq, n), k)
        /\ tbuf' = Back(Joined(tbuf, outq, n), k)
        /\ outq' = Back(outq, n)
        /\ UNCHANGED <<got, queued>>
    BY <1>4 DEF WriteDone, AcceptWrite, consume_out, srvVars, Joined, Front, Back
  <2> HIDE DEF U
  <2>4. PipelineAt(got, up, tbuf, outq, n, k)
    BY <1>0, <2>1, <2>2 DEF Pipelines
  <2> QED BY ONLY OutboundIntegrity, <2>3, <2>4 DEF PipelineAt, OutboundIntegrity
<1>5. CASE FlushSome
  <2>1. InnerShifts(U)
    BY InnerShiftFact
  <2>2. 1 \in 0..Len(tbuf)
    BY <1>0, <1>5, EmptySeq DEF FlushSome
  <2>3. up' = up \o Front(tbuf, 1) /\ tbuf' = Back(tbuf, 1) /\ UNCHANGED <<got, queued, outq>>
    BY <1>5 DEF FlushSome, coreVars, srvVars, Front, Back
  <2> HIDE DEF U
  <2>4. InnerShiftAt(got, up, tbuf, 1)
    BY <1>0, <2>1, <2>2 DEF InnerShifts
  <2> QED BY ONLY OutboundIntegrity, <2>3, <2>4 DEF InnerShiftAt, OutboundIntegrity
<1>6. CASE ServerReads
  <2>1. Shifts(U)
    BY ShiftFact
  <2>2. 1 \in 0..Len(up)
    BY <1>0, <1>6, EmptySeq DEF ServerReads
  <2>3. got' = got \o Front(up, 1) /\ up' = Back(up, 1) /\ UNCHANGED <<tbuf, queued, outq>>
    BY <1>6 DEF ServerReads, coreVars, Front, Back
  <2> HIDE DEF U
  <2>4. ShiftAt(got, up, 1)
    BY <1>0, <2>1, <2>2 DEF Shifts
  <2> QED BY ONLY OutboundIntegrity, <2>3, <2>4 DEF ShiftAt, OutboundIntegrity
<1>7. CASE \/ (\E o \in SendOp : CallSend(o)) \/ CallRecv \/ DropFuture
           \/ DrainWrite \/ DrainFlush \/ ReadEof \/ TransportFault
           \/ (\E n \in 1..ReadBuf : ReadDone(n))
           \/ ServerSends \/ ServerCloses \/ UNCHANGED vars
  <2>1. UNCHANGED <<outq, queued, got, up, tbuf>>
    BY <1>7 DEF CallSend, CallRecv, DropFuture, DrainWrite, DrainFlush, ReadEof,
       TransportFault, WriteFails, FlushFails, ReadFails, ReadDone, ServerSends,
       ServerCloses, vars, coreVars, netVars, srvVars
  <2> QED BY <1>1, <2>1
<1> QED BY <1>2, <1>3, <1>4, <1>5, <1>6, <1>7
        DEF Next, Application, Task, Server

\* No step loses, repeats or reorders an inbound unit, short of a failed submit.
LEMMA InboundStep == TypeOK /\ InboundIntegrity /\ [Next]_vars => InboundIntegrity'
<1> SUFFICES ASSUME TypeOK, InboundIntegrity, [Next]_vars, ~lost'
             PROVE  (eaten \o inbuf \o down = sent)'
  BY DEF InboundIntegrity
<1> DEFINE U == Unit(ServerPacket)
<1>0. inbuf \in Seq(U) /\ eaten \in Seq(U) /\ down \in Seq(U) /\ sent \in Seq(U)
  BY DEF TypeOK, CoreTypeOK, NetTypeOK, SrvTypeOK
<1>1. ASSUME ~lost, UNCHANGED <<inbuf, eaten, down, sent>>
      PROVE  (eaten \o inbuf \o down = sent)'
  BY <1>1 DEF InboundIntegrity
<1>2. CASE DrainNothing \/ FlushDone
  <2>1. AfterDrain /\ ~lost /\ UNCHANGED <<down, sent>>
    BY <1>2 DEF DrainNothing, FlushDone, netVars, srvVars
  <2>2. CASE ~WouldBlock /\ DecodeFront
    <3>1. Shifts(U)
      BY ShiftFact
    <3>2. Units \in 0..Len(inbuf)
      BY <1>0, <2>2, UnitsAssumption, LenProperties DEF WouldBlock
    <3>3. eaten' = eaten \o Front(inbuf, Units) /\ inbuf' = Back(inbuf, Units)
      BY <2>2 DEF DecodeFront, Front, Back
    <3>4. eaten \o inbuf \o down = sent
      BY <2>1 DEF InboundIntegrity
    <3> HIDE DEF U
    <3>5. ShiftAt(eaten, inbuf, Units)
      BY <1>0, <3>1, <3>2 DEF Shifts
    <3> QED BY ONLY <2>1, <3>3, <3>4, <3>5 DEF ShiftAt
  <2>3. CoreTypeOK /\ TaskTypeOK
    BY DEF TypeOK
  <2> QED BY <1>1, <2>1, <2>2, <2>3, AfterDrainBuffers
<1>3. ASSUME NEW n, ReadDone(n) PROVE (eaten \o inbuf \o down = sent)'
  <2>1. InnerShifts(U)
    BY InnerShiftFact
  <2>2. n \in 0..Len(down)
    BY <1>3 DEF ReadDone
  <2>3. /\ inbuf' = inbuf \o Front(down, n) /\ down' = Back(down, n)
        /\ ~lost /\ UNCHANGED <<eaten, sent>>
    BY <1>3 DEF ReadDone, submit, srvVars, Front, Back
  <2>4. eaten \o inbuf \o down = sent
    BY <2>3 DEF InboundIntegrity
  <2> HIDE DEF U
  <2>5. InnerShiftAt(eaten, inbuf, down, n)
    BY <1>0, <2>1, <2>2 DEF InnerShifts
  <2> QED BY ONLY <2>3, <2>4, <2>5 DEF InnerShiftAt
<1>4. CASE ServerSends
  <2> DEFINE p == eaten \o inbuf
             e == Encode(todo[1])
  <2>1. e \in Seq(U)
    <3>1. 1 \in 1..Len(todo) /\ todo \in Seq(ServerPacket)
      BY <1>4, EmptySeq, LenProperties DEF ServerSends, TypeOK, SrvTypeOK
    <3> QED BY <3>1, EncodeType, LenProperties
  <2>2. p \in Seq(U) /\ Assoc(U)
    <3>1. Closed(U) /\ Assoc(U)
      BY ConcatFacts
    <3> QED BY ONLY <1>0, <3>1 DEF Closed
  <2>3. /\ down' = down \o e /\ sent' = sent \o e
        /\ ~lost /\ UNCHANGED <<eaten, inbuf>>
    BY <1>4 DEF ServerSends, coreVars, histVars
  <2>4. p \o down = sent
    BY <2>3 DEF InboundIntegrity
  <2> HIDE DEF U, e
  <2>5. AssocAt(p, down, e)
    <3> HIDE DEF p
    <3> QED BY ONLY <1>0, <2>1, <2>2 DEF Assoc
  <2> QED BY ONLY <2>3, <2>4, <2>5 DEF AssocAt
<1>5. CASE \/ Application \/ DrainWrite \/ DrainFlush \/ FlushSome \/ ReadEof
           \/ (\E n \in 1..Len(outq) : \E k \in 0..(Len(tbuf) + n) : WriteDone(n, k))
           \/ TransportFault \/ ServerReads \/ ServerCloses \/ UNCHANGED vars
  <2>1. ~lost /\ UNCHANGED <<inbuf, eaten, down, sent>>
    BY <1>5 DEF Application, CallSend, CallRecv, CoreSend, send, DropFuture,
       DrainWrite, DrainFlush, FlushSome, ReadEof, WriteDone, AcceptWrite,
       TransportFault, WriteFails, FlushFails, ReadFails, ServerReads,
       ServerCloses, vars, coreVars, netVars, srvVars, histVars
  <2> QED BY <1>1, <2>1
<1> QED BY <1>2, <1>3, <1>4, <1>5 DEF Next, Task, Server

\* Every unit queued reaches the server or is still underway, in order.
THEOREM OutboundSafe == Spec => []OutboundIntegrity
<1>1. Init => OutboundIntegrity
  BY DEF Init, new, OutboundIntegrity
<1> QED BY <1>1, Typing, OutboundStep, PTL DEF Spec

\* Every unit the server sent is decoded or still underway, in order.
THEOREM InboundSafe == Spec => []InboundIntegrity
<1>1. Init => InboundIntegrity
  BY DEF Init, new, InboundIntegrity
<1> QED BY <1>1, Typing, InboundStep, PTL DEF Spec

-----------------------------------------------------------------------------
(* The pump never awaits with an event in hand, and reads only when flushed *)

\* An event is in hand only while pump_until_ready's last drain_out looks at
\* an empty queue, so that drain_out writes, flushes and awaits nothing.
EventInHand ==
    held # <<>> => pc = "drain" /\ cont = "ready" /\ outq = <<>> /\ wrote = FALSE

\* The flush and the read are reached with an empty queue.
Drained == pc \in {"flush", "read"} => outq = <<>>

\* The transport holds bytes back only inside a drain_out that will flush them
\* or after one that was cut short.
Unflushed ==
    \/ tbuf = <<>>
    \/ cut = TRUE
    \/ wrote = TRUE /\ pc \in {"drain", "write", "flush"}

PumpInv == NoEventLost /\ EventInHand /\ Drained /\ Unflushed

\* The code after drain_out keeps the pump's invariant when it is entered with
\* an empty queue and with nothing held back that is not accounted for.
LEMMA AfterDrainPump ==
    ASSUME TypeOK, NoEventLost, EventInHand, AfterDrain, outq = <<>>,
           pc = "flush" => held = <<>>, UNCHANGED tbuf,
           tbuf = <<>> \/ cut' = TRUE
    PROVE  PumpInv'
<1>1. decoded \in Seq(ServerPacket) /\ events \in Seq(ServerPacket)
  BY DEF TypeOK, CoreTypeOK, TaskTypeOK
<1>2. CASE cont = "pre" /\ send(op) /\ Drain("post") /\ UNCHANGED <<op, held, events>>
  <2>1. held = <<>>
    BY <1>2 DEF EventInHand
  <2> QED BY <1>2, <2>1 DEF send, Drain, PumpInv, NoEventLost, EventInHand,
        Drained, Unflushed
<1>3. CASE ReturnOk /\ UNCHANGED coreVars
  <2>1. events' = decoded /\ held' = <<>> /\ decoded' = decoded
    BY <1>3 DEF ReturnOk, coreVars, NoEventLost
  <2>2. NoEventLost'
    BY <1>1, <2>1, ConcatEmptySeq DEF NoEventLost
  <2> QED BY <1>3, <2>1, <2>2 DEF ReturnOk, PumpInv, EventInHand, Drained, Unflushed
<1>4. ASSUME held = <<>>, UNCHANGED <<decoded, held, events>>, Drain("need") \/ Drain("ready")
      PROVE  PumpInv'
  BY <1>4 DEF Drain, PumpInv, NoEventLost, EventInHand, Drained, Unflushed
<1>5. ASSUME held = <<>>, UNCHANGED decoded, Abandon
      PROVE  PumpInv'
  BY <1>5 DEF Abandon, PumpInv, NoEventLost, EventInHand, Drained, Unflushed
<1>6. CASE cont = "top" /\ op = "handshake"
           /\ \/ handshake("NeedsInput") /\ Drain("need") /\ UNCHANGED <<op, held, events>>
              \/ handshake("Ready") /\ Drain("ready") /\ UNCHANGED <<op, held, events>>
              \/ handshake("Err") /\ Abandon
  <2>1. held = <<>>
    BY <1>6 DEF EventInHand
  <2>2. UNCHANGED decoded
    BY <1>6 DEF handshake, coreVars
  <2> QED BY <1>4, <1>5, <1>6, <2>1, <2>2
<1>7. CASE cont = "top" /\ op = "recv"
           /\ \/ recv_event("NeedsInput") /\ Drain("need") /\ UNCHANGED <<op, held, events>>
              \/ recv_event("Err") /\ Abandon
  <2>1. held = <<>>
    BY <1>7 DEF EventInHand
  <2>2. UNCHANGED decoded
    BY <1>7 DEF recv_event, coreVars
  <2> QED BY <1>4, <1>5, <1>7, <2>1, <2>2
<1>8. CASE cont = "top" /\ op = "recv" /\ recv_event("Ready")
           /\ held' = <<FrontPacket>> /\ Drain("ready") /\ UNCHANGED <<op, events>>
  <2>1. held = <<>>
    BY <1>8 DEF EventInHand
  <2>2. /\ ~WouldBlock /\ decoded' = Append(decoded, FrontPacket)
        /\ UNCHANGED outq
    BY <1>8 DEF recv_event
  <2>3. decoded = events
    BY <1>1, <2>1, ConcatEmptySeq DEF NoEventLost
  <2>4. FrontPacket \in ServerPacket
    BY <2>2, FrontType DEF TypeOK
  <2>5. Append(events, FrontPacket) = events \o <<FrontPacket>>
    BY <1>1, <2>4, AppendIsConcat
  <2>6. NoEventLost'
    BY <1>8, <2>2, <2>3, <2>5 DEF NoEventLost
  <2> QED BY <1>8, <2>2, <2>6 DEF Drain, PumpInv, EventInHand, Drained, Unflushed
<1>9. CASE cont = "need" /\ pc' = "read"
           /\ UNCHANGED <<coreVars, op, cont, wrote, held, events>>
  <2>1. held = <<>>
    BY <1>9 DEF EventInHand
  <2> QED BY <1>9, <2>1 DEF coreVars, PumpInv, NoEventLost, EventInHand, Drained,
        Unflushed
<1>10. CASE cont = "pre" /\ Abandon /\ UNCHANGED coreVars
  <2>1. held = <<>>
    BY <1>10 DEF EventInHand
  <2> QED BY <1>5, <1>10, <2>1 DEF coreVars
<1> QED BY <1>2, <1>3, <1>6, <1>7, <1>8, <1>9, <1>10 DEF AfterDrain

\* Every step of the client, the transport and the server keeps the pump's
\* invariant.  Only the code after drain_out can end one with nothing flushed.
LEMMA PumpStep == TypeOK /\ PumpInv /\ [Next]_vars => PumpInv'
<1> SUFFICES ASSUME TypeOK, PumpInv, [Next]_vars PROVE PumpInv'
  OBVIOUS
<1> USE DEF PumpInv, NoEventLost, EventInHand, Drained, Unflushed
<1>1. ASSUME NEW o \in SendOp, CallSend(o) PROVE PumpInv'
  <2>1. held = <<>>
    BY <1>1 DEF CallSend
  <2> QED BY <1>1, <2>1 DEF CallSend, Drain, coreVars, netVars
<1>2. ASSUME NEW o \in SendOp, CoreSend(o) PROVE PumpInv'
  <2>1. held = <<>>
    BY <1>2 DEF CoreSend
  <2> QED BY <1>2, <2>1 DEF CoreSend, send, taskVars, netVars
<1>3. CASE CallRecv
  <2>1. held = <<>>
    BY <1>3 DEF CallRecv
  <2> QED BY <1>3, <2>1 DEF CallRecv, Drain, coreVars, netVars, histVars
<1>4. ASSUME pc \in Await, Abandon, UNCHANGED <<decoded, outq, tbuf>>,
             cut' = TRUE \/ (cut' = cut /\ pc = "read")
      PROVE  PumpInv'
  <2>1. held = <<>>
    BY <1>4 DEF Await
  <2> QED BY <1>4, <2>1 DEF Abandon, Await
<1>5. CASE DropFuture
  <2>1. cut' = TRUE \/ (cut' = cut /\ pc = "read")
    BY <1>5 DEF DropFuture, Await, TypeOK, HistTypeOK
  <2> QED BY <1>4, <1>5, <2>1 DEF DropFuture, coreVars, netVars
<1>6. CASE WriteFails
  BY <1>4, <1>6 DEF WriteFails, coreVars, netVars, Await
<1>7. CASE FlushFails
  BY <1>4, <1>7 DEF FlushFails, coreVars, netVars, Await
<1>8. CASE ReadFails
  BY <1>4, <1>8 DEF ReadFails, coreVars, netVars, Await
<1>9. CASE ReadEof
  BY <1>4, <1>9 DEF ReadEof, coreVars, netVars, Await
<1>10. CASE DrainWrite
  <2>1. held = <<>>
    BY <1>10 DEF DrainWrite
  <2> QED BY <1>10, <2>1 DEF DrainWrite, coreVars, netVars, histVars
<1>11. CASE DrainFlush
  <2>1. held = <<>>
    BY <1>11 DEF DrainFlush
  <2> QED BY <1>11, <2>1 DEF DrainFlush, coreVars, netVars, histVars
<1>12. ASSUME NEW n, NEW k, WriteDone(n, k) PROVE PumpInv'
  <2>1. held = <<>>
    BY <1>12 DEF WriteDone, AcceptWrite
  <2>2. /\ pc' = "drain" /\ wrote' = TRUE
        /\ UNCHANGED <<decoded, held, events>>
    BY <1>12 DEF WriteDone, AcceptWrite, histVars
  <2> QED BY <2>1, <2>2
<1>13. CASE FlushSome
  <2>1. held = <<>>
    BY <1>13 DEF FlushSome
  <2> QED BY <1>13, <2>1 DEF FlushSome, coreVars, taskVars, histVars
<1>14. CASE DrainNothing
  <2>1. /\ AfterDrain /\ outq = <<>> /\ UNCHANGED <<tbuf, cut>>
        /\ pc = "drain" /\ wrote # TRUE
    BY <1>14 DEF DrainNothing, netVars
  <2>2. tbuf = <<>> \/ cut' = TRUE
    BY <2>1
  <2> HIDE DEF PumpInv, NoEventLost, EventInHand
  <2> QED BY <2>1, <2>2, AfterDrainPump DEF PumpInv
<1>15. CASE FlushDone
  <2>1. AfterDrain /\ pc = "flush" /\ tbuf = <<>> /\ UNCHANGED tbuf
    BY <1>15 DEF FlushDone, netVars
  <2>2. outq = <<>> /\ held = <<>>
    BY <2>1
  <2> HIDE DEF PumpInv, NoEventLost, EventInHand
  <2> QED BY <2>1, <2>2, AfterDrainPump DEF PumpInv
<1>16. ASSUME NEW n, ReadDone(n) PROVE PumpInv'
  <2>1. /\ pc = "read" /\ UNCHANGED <<decoded, outq, tbuf, cut>>
        /\ \/ Drain("top") /\ UNCHANGED <<held, events>>
           \/ Abandon
    BY <1>16 DEF ReadDone
  <2>2. held = <<>>
    BY <2>1
  <2>3. CASE Abandon
    BY <1>4, <2>1, <2>3 DEF Await
  <2>4. CASE Drain("top") /\ UNCHANGED <<held, events>>
    BY <2>1, <2>2, <2>4 DEF Drain
  <2> QED BY <2>1, <2>3, <2>4
<1>17. CASE ServerReads
  BY <1>17 DEF ServerReads, coreVars, taskVars, histVars
<1>18. CASE ServerSends
  BY <1>18 DEF ServerSends, coreVars, taskVars, histVars
<1>19. CASE ServerCloses
  BY <1>19 DEF ServerCloses, coreVars, taskVars, netVars
<1>20. CASE UNCHANGED vars
  BY <1>20 DEF vars, coreVars, taskVars, netVars, histVars
<1> QED BY <1>1, <1>2, <1>3, <1>5, <1>6, <1>7, <1>8, <1>9, <1>10, <1>11, <1>12,
           <1>13, <1>14, <1>15, <1>16, <1>17, <1>18, <1>19, <1>20
        DEF Next, Application, Task, TransportFault, Server

\* The pump's invariant holds in every reachable state.
LEMMA PumpSafe == Spec => []PumpInv
<1>1. Init => PumpInv
  BY DEF Init, new, PumpInv, NoEventLost, EventInHand, Drained, Unflushed
<1> QED BY <1>1, PumpStep, Typing, PTL DEF Spec

\* No event the core decodes is ever lost: recv_event's local survives the last
\* drain_out of pump_until_ready because that drain never awaits.
THEOREM NoEventLostSafe == Spec => []NoEventLost
<1>1. PumpInv => NoEventLost
  BY DEF PumpInv
<1> QED BY <1>1, PumpSafe, PTL

\* The pump waits for input only with an empty queue, and with nothing held
\* back in the transport unless an earlier drain_out was cut short.
THEOREM FlushSafe == Spec => []FlushBeforeRead
<1>1. PumpInv /\ TypeOK => FlushBeforeRead
  BY DEF PumpInv, Drained, Unflushed, FlushBeforeRead, TypeOK, HistTypeOK
<1> QED BY <1>1, PumpSafe, Typing, PTL

-----------------------------------------------------------------------------
(* The packets in a sequence of units *)

\* Dividing a length into packets.
LEMMA PacketCount ==
    ASSUME NEW L \in Nat
    PROVE  /\ L \div Units \in Nat
           /\ \A i \in 1..(L \div Units) : (i - 1) * Units + 1 \in 1..L
           /\ L >= Units => (L - Units) \div Units = (L \div Units) - 1 /\ L \div Units >= 1
           /\ (L + Units) \div Units = (L \div Units) + 1
           /\ L % Units = 0 => (L \div Units) * Units = L
<1> DEFINE q == L \div Units
           r == L % Units
<1>1. q \in Nat /\ r \in 0..(Units - 1) /\ L = Units * q + r /\ Units \in Nat \ {0}
  BY UnitsAssumption
<1> HIDE DEF q, r
<1>2. ASSUME NEW i \in 1..q PROVE (i - 1) * Units + 1 \in 1..L
  <2>1. q - i >= 0 /\ Units * (q - i) >= 0
    BY <1>1
  <2>2. Units * q = Units * (q - i) + Units * i
    BY <1>1
  <2>3. Units * i = (i - 1) * Units + Units /\ (i - 1) * Units >= 0 /\ (i - 1) * Units \in Int
    BY <1>1
  <2> QED BY <1>1, <2>1, <2>2, <2>3
<1>3. (L + Units) \div Units = q + 1
  BY <1>1
<1>4. ASSUME L >= Units PROVE (L - Units) \div Units = q - 1 /\ q >= 1
  BY <1>1, <1>4
<1>5. ASSUME r = 0 PROVE q * Units = L
  BY <1>1, <1>5
<1> QED BY <1>1, <1>2, <1>3, <1>4, <1>5 DEF q, r

\* One packet for every Units units, its kind in the first of them.
LEMMA PacketsType ==
    ASSUME NEW s \in Seq(Unit(ServerPacket))
    PROVE  /\ PacketsOf(s) \in Seq(ServerPacket)
           /\ Len(PacketsOf(s)) = Len(s) \div Units
           /\ \A i \in 1..(Len(s) \div Units) : PacketsOf(s)[i] = s[(i - 1) * Units + 1][1]
<1> DEFINE n == Len(s) \div Units
<1>1. n \in Nat /\ \A i \in 1..n : (i - 1) * Units + 1 \in 1..Len(s)
  BY PacketCount, LenProperties
<1>2. \A j \in 1..Len(s) : s[j] \in Unit(ServerPacket)
  BY LenProperties
<1>3. \A j \in 1..Len(s) : s[j][1] \in ServerPacket
  BY <1>2 DEF Unit
<1>4. PacketsOf(s) = [i \in 1..n |-> s[(i - 1) * Units + 1][1]]
  BY DEF PacketsOf
<1> HIDE DEF n
<1>5. PacketsOf(s) \in [1..n -> ServerPacket]
  BY <1>1, <1>3, <1>4
<1>6. PacketsOf(s) \in Seq(ServerPacket) /\ Len(PacketsOf(s)) = n
  BY <1>1, <1>5, SeqDef, LenProperties
<1> QED BY <1>4, <1>6 DEF n

\* The packet at the front, and the packets behind it.
LEMMA PacketsFront ==
    ASSUME NEW s \in Seq(Unit(ServerPacket)), Len(s) >= Units
    PROVE  PacketsOf(s) = <<s[1][1]>> \o PacketsOf(Back(s, Units))
<1> DEFINE n == Len(s) \div Units
           t == Back(s, Units)
           p == s[1][1]
           a == PacketsOf(s)
           b == PacketsOf(t)
<1>1. n \in Nat /\ n >= 1 /\ (Len(s) - Units) \div Units = n - 1
      /\ Units \in 0..Len(s) /\ Units \in Nat \ {0} /\ Len(s) \in Nat
  <2>1. Len(s) \in Nat /\ Units \in 0..Len(s) /\ Units \in Nat \ {0}
    BY LenProperties, UnitsAssumption
  <2>2. n \in Nat /\ n >= 1 /\ (Len(s) - Units) \div Units = n - 1
    BY <2>1, PacketCount
  <2> QED BY <2>1, <2>2
<1>2. /\ t \in Seq(Unit(ServerPacket)) /\ Len(t) = Len(s) - Units
      /\ \A j \in 1..(Len(s) - Units) : t[j] = s[Units + j]
  BY <1>1, CutFact DEF Cuts, Back
<1>3. /\ a \in Seq(ServerPacket) /\ Len(a) = n
      /\ \A i \in 1..n : a[i] = s[(i - 1) * Units + 1][1]
  BY PacketsType
<1> HIDE DEF n, t, a
<1>4. /\ b \in Seq(ServerPacket) /\ Len(b) = n - 1
      /\ \A i \in 1..(n - 1) : b[i] = t[(i - 1) * Units + 1][1]
  BY <1>1, <1>2, PacketsType
<1>5. \A i \in 1..(n - 1) : (i - 1) * Units + 1 \in 1..(Len(s) - Units)
  BY <1>1, <1>2, PacketCount, Len(s) - Units \in Nat
<1> HIDE DEF b
<1>6. ASSUME NEW i \in 1..(n - 1) PROVE b[i] = a[i + 1]
  <2>1. b[i] = s[Units + ((i - 1) * Units + 1)][1]
    BY <1>2, <1>4, <1>5
  <2>2. a[i + 1] = s[((i + 1) - 1) * Units + 1][1]
    BY <1>1, <1>3
  <2>3. Units + ((i - 1) * Units + 1) = ((i + 1) - 1) * Units + 1
    BY <1>1
  <2> QED BY <2>1, <2>2, <2>3
<1>7. a[1] = p /\ p \in ServerPacket
  <2>1. (1 - 1) * Units + 1 = 1
    BY <1>1
  <2>2. a[1] = s[1][1]
    BY <1>1, <1>3, <2>1
  <2>3. a[1] \in ServerPacket
    BY <1>1, <1>3, LenProperties
  <2> QED BY <2>2, <2>3
<1> HIDE DEF p
<1>8. /\ <<p>> \o b \in Seq(ServerPacket) /\ Len(<<p>> \o b) = n
      /\ (<<p>> \o b)[1] = p
      /\ \A i \in 2..n : (<<p>> \o b)[i] = b[i - 1]
  BY <1>1, <1>4, <1>7, ConcatProperties
<1>9. \A i \in 1..n : a[i] = (<<p>> \o b)[i]
  BY <1>1, <1>6, <1>7, <1>8
<1>10. a = <<p>> \o b
  BY <1>3, <1>8, <1>9, SeqEqual
<1> QED BY <1>10 DEF a, b, t, p

\* A message is Units units long and starts with its kind.
LEMMA EncodeLen ==
    ASSUME NEW M, NEW p \in M
    PROVE  Encode(p) \in Seq(Unit(M)) /\ Len(Encode(p)) = Units /\ Encode(p)[1] = <<p, 1>>
<1> DEFINE e == Encode(p)
<1>1. e \in Seq(Unit(M))
  BY EncodeType
<1>2. DOMAIN e = 1..Units /\ 1 \in 1..Units /\ Units \in Nat
  BY UnitsAssumption DEF Encode
<1>3. Len(e) = Units
  BY <1>1, <1>2, LenProperties
<1>4. e[1] = <<p, 1>>
  BY <1>2 DEF Encode
<1> QED BY <1>1, <1>3, <1>4

\* Another packet behind complete ones.
LEMMA PacketsAppend ==
    ASSUME NEW s \in Seq(Unit(ServerPacket)), Len(s) % Units = 0, NEW p \in ServerPacket
    PROVE  PacketsOf(s \o Encode(p)) = Append(PacketsOf(s), p)
<1> DEFINE n == Len(s) \div Units
           e == Encode(p)
           t == s \o e
           a == PacketsOf(s)
           b == PacketsOf(t)
<1>1. /\ n \in Nat /\ (Len(s) + Units) \div Units = n + 1 /\ n * Units = Len(s)
      /\ Units \in Nat \ {0} /\ Len(s) \in Nat
      /\ \A i \in 1..n : (i - 1) * Units + 1 \in 1..Len(s)
  <2>1. Len(s) \in Nat /\ Units \in Nat \ {0}
    BY LenProperties, UnitsAssumption
  <2>2. n \in Nat /\ (Len(s) + Units) \div Units = n + 1 /\ n * Units = Len(s)
    BY <2>1, PacketCount
  <2>3. \A i \in 1..n : (i - 1) * Units + 1 \in 1..Len(s)
    BY <2>1, PacketCount
  <2> QED BY <2>1, <2>2, <2>3
<1>2. e \in Seq(Unit(ServerPacket)) /\ Len(e) = Units /\ e[1] = <<p, 1>>
  BY EncodeLen
<1> HIDE DEF e
<1>3. /\ t \in Seq(Unit(ServerPacket)) /\ Len(t) = Len(s) + Units
      /\ \A j \in 1..Len(s) : t[j] = s[j]
      /\ t[Len(s) + 1] = e[1]
  <2>1. /\ t \in Seq(Unit(ServerPacket)) /\ Len(t) = Len(s) + Len(e)
        /\ \A j \in 1..(Len(s) + Len(e)) : t[j] = IF j <= Len(s) THEN s[j] ELSE e[j - Len(s)]
    BY <1>2, ConcatProperties
  <2>2. (Len(s) + 1) - Len(s) = 1 /\ ~(Len(s) + 1 <= Len(s)) /\ Len(s) + 1 \in 1..(Len(s) + Len(e))
    BY <1>1, <1>2
  <2>3. t[Len(s) + 1] = e[1]
    BY <2>1, <2>2
  <2> QED BY <1>1, <1>2, <2>1, <2>3
<1>4. /\ a \in Seq(ServerPacket) /\ Len(a) = n
      /\ \A i \in 1..n : a[i] = s[(i - 1) * Units + 1][1]
  BY PacketsType
<1> HIDE DEF n, t, a
<1>5. /\ b \in Seq(ServerPacket) /\ Len(b) = n + 1
      /\ \A i \in 1..(n + 1) : b[i] = t[(i - 1) * Units + 1][1]
  <2>1. Len(t) \div Units = n + 1
    BY <1>1, <1>3
  <2> QED BY <1>3, <2>1, PacketsType
<1> HIDE DEF b
<1>6. ASSUME NEW i \in 1..n PROVE b[i] = a[i]
  <2>1. (i - 1) * Units + 1 \in 1..Len(s) /\ i \in 1..(n + 1)
    BY <1>1
  <2>2. b[i] = t[(i - 1) * Units + 1][1] /\ a[i] = s[(i - 1) * Units + 1][1]
    BY <1>4, <1>5, <2>1
  <2> QED BY <1>3, <2>1, <2>2
<1>7. b[n + 1] = p
  <2>1. ((n + 1) - 1) * Units + 1 = Len(s) + 1
    BY <1>1
  <2>2. b[n + 1] = t[((n + 1) - 1) * Units + 1][1]
    BY <1>1, <1>5
  <2> QED BY <1>2, <1>3, <2>1, <2>2
<1>8. /\ Append(a, p) \in Seq(ServerPacket) /\ Len(Append(a, p)) = n + 1
      /\ \A i \in 1..n : Append(a, p)[i] = a[i]
      /\ Append(a, p)[n + 1] = p
  BY <1>4, AppendProperties
<1>9. \A i \in 1..(n + 1) : Append(a, p)[i] = b[i]
  BY <1>1, <1>6, <1>7, <1>8
<1>10. b = Append(a, p)
  BY <1>5, <1>8, <1>9, SeqEqual
<1> QED BY <1>10 DEF a, b, t, e

-----------------------------------------------------------------------------
(* The abstract state *)

Phase == IF pc = "gone" THEN "gone" ELSE IF op = "handshake" THEN "greeting" ELSE "open"
Outbox == up \o tbuf \o outq
Arriving == PacketsOf(inbuf \o down)
Inbox == held \o Arriving

\* The handshake ends when its future does.
HandshakeOver == pc \in {"idle", "gone"} => op # "handshake"

\* recv_event alone holds an event, one at a time, of a known kind.
HeldIsEvent ==
    \/ held = <<>>
    \/ op = "recv" /\ \E p \in ServerPacket \ {"Unknown"} : held = <<p>>

\* What has arrived or is on the wire ends with a whole packet.
Aligned == ~lost => (Len(inbuf) + Len(down)) % Units = 0

MappingInv == HandshakeOver /\ HeldIsEvent /\ Aligned

-----------------------------------------------------------------------------
(* What each kind of step must do to be a step of Connection *)

\* A message is queued.
LEMMA MapAccept ==
    ASSUME NEW m \in IF Phase = "greeting" THEN {"Hello"} ELSE SendOp, Phase # "gone",
           Outbox' = Outbox \o Encode(m), UNCHANGED <<Phase, got, Inbox, events>>
    PROVE  Abstract!ConnNext
<1>1. Abstract!Accept(m)
  BY DEF Abstract!Accept, Phase, Outbox, Inbox, Arriving
<1>2. m \in SendOp \cup {"Hello"}
  OBVIOUS
<1> QED BY <1>1, <1>2 DEF Abstract!ConnNext

\* The server takes a unit off the wire.
LEMMA MapReceive ==
    ASSUME Outbox # <<>>, got' = Append(got, Head(Outbox)), Outbox' = Tail(Outbox),
           UNCHANGED <<Phase, Inbox, events>>
    PROVE  Abstract!ConnNext
<1>1. Abstract!Receive
  BY DEF Abstract!Receive, Phase, Outbox, Inbox, Arriving
<1> QED BY <1>1 DEF Abstract!ConnNext

\* The server sends a packet.
LEMMA MapReply ==
    ASSUME NEW p \in ServerPacket, Inbox' = Append(Inbox, p),
           UNCHANGED <<Phase, Outbox, got, events>>
    PROVE  Abstract!ConnNext
<1>1. Abstract!Reply(p)
  BY DEF Abstract!Reply, Phase, Outbox, Inbox, Arriving
<1> QED BY <1>1 DEF Abstract!ConnNext

\* The handshake reads ServerHello and queues the addendum.
LEMMA MapGreet ==
    ASSUME Phase = "greeting", Inbox # <<>>, Head(Inbox) = "ServerHello",
           Inbox' = Tail(Inbox), Outbox' = Outbox \o Encode("Addendum"),
           UNCHANGED <<Phase, got, events>>
    PROVE  Abstract!ConnNext
<1>1. Abstract!Greet
  BY DEF Abstract!Greet, Phase, Outbox, Inbox, Arriving
<1> QED BY <1>1 DEF Abstract!ConnNext

\* The handshake returns, with a client or with an error.
LEMMA MapHandshakeEnds ==
    ASSUME Phase = "greeting", UNCHANGED <<Outbox, got, events>>,
           \/ Phase' = "open" /\ UNCHANGED Inbox
           \/ Phase' = "gone" /\ UNCHANGED Inbox
           \/ /\ Phase' = "gone" /\ Inbox # <<>>
              /\ Head(Inbox) = "Exception" /\ Inbox' = Tail(Inbox)
    PROVE  Abstract!ConnNext
<1>1. Abstract!Open \/ Abstract!Reject
  BY DEF Abstract!Open, Abstract!Reject, Phase, Outbox, Inbox, Arriving
<1> QED BY <1>1 DEF Abstract!ConnNext

\* An event is handed over, or a packet of an unknown kind is stepped over.
LEMMA MapTake ==
    ASSUME Phase = "open", Inbox # <<>>, Inbox' = Tail(Inbox),
           UNCHANGED <<Phase, Outbox, got>>,
           \/ Head(Inbox) # "Unknown" /\ events' = Append(events, Head(Inbox))
           \/ Head(Inbox) = "Unknown" /\ UNCHANGED events
    PROVE  Abstract!ConnNext
<1>1. Abstract!Deliver \/ Abstract!StepOver
  BY DEF Abstract!Deliver, Abstract!StepOver, Phase, Outbox, Inbox, Arriving
<1> QED BY <1>1 DEF Abstract!ConnNext

\* The step does not show.
LEMMA MapStutter ==
    ASSUME UNCHANGED <<Phase, Outbox, got, Inbox, events>>
    PROVE  UNCHANGED Abstract!connVars
BY DEF Abstract!connVars, Phase, Outbox, Inbox, Arriving

-----------------------------------------------------------------------------
(* The two channels under the client's operations *)

\* Typing of the packets that have arrived or are on the wire.
LEMMA ArrivingType ==
    ASSUME NEW a \in Seq(Unit(ServerPacket)), NEW b \in Seq(Unit(ServerPacket))
    PROVE  /\ a \o b \in Seq(Unit(ServerPacket))
           /\ Len(a \o b) = Len(a) + Len(b)
           /\ PacketsOf(a \o b) \in Seq(ServerPacket)
<1>1. /\ a \o b \in Seq(Unit(ServerPacket)) /\ Len(a \o b) = Len(a) + Len(b)
  BY ConcatProperties
<1> DEFINE s == a \o b
<1> HIDE DEF s
<1>2. PacketsOf(s) \in Seq(ServerPacket)
  BY <1>1, PacketsType DEF s
<1> QED BY <1>1, <1>2 DEF s

\* Decoding takes the first of them.
LEMMA DecodeArriving ==
    ASSUME TypeOK, TypeOK', ~WouldBlock, DecodeFront, UNCHANGED down
    PROVE  /\ FrontPacket \in ServerPacket
           /\ Arriving = <<FrontPacket>> \o Arriving'
           /\ Len(inbuf') = Len(inbuf) - Units
<1> DEFINE s == inbuf \o down
<1>1. /\ inbuf \in Seq(Unit(ServerPacket)) /\ down \in Seq(Unit(ServerPacket))
      /\ Len(inbuf) \in Nat /\ Len(down) \in Nat /\ Units \in Nat \ {0}
      /\ Len(inbuf) >= Units /\ Units \in 0..Len(inbuf)
  BY LenProperties, UnitsAssumption DEF TypeOK, CoreTypeOK, NetTypeOK, WouldBlock
<1>2. s \in Seq(Unit(ServerPacket)) /\ Len(s) = Len(inbuf) + Len(down) /\ s[1] = inbuf[1]
  BY <1>1, ConcatProperties
<1>3. inbuf' = Back(inbuf, Units) /\ down' = down
  BY DEF DecodeFront, Back
<1>4. Back(s, Units) = inbuf' \o down'
  BY <1>1, <1>3, DropFact DEF Drops, DropAt
<1>5. Len(inbuf') = Len(inbuf) - Units
  BY <1>1, <1>3 DEF Back
<1>6. FrontPacket \in ServerPacket
  BY FrontType DEF TypeOK
<1>7. Len(s) >= Units
  BY <1>1, <1>2
<1>8. Arriving = PacketsOf(s) /\ Arriving' = PacketsOf(inbuf' \o down')
  BY DEF Arriving
<1>9. FrontPacket = s[1][1]
  BY <1>2 DEF FrontPacket
<1> HIDE DEF s
<1>10. PacketsOf(s) = <<s[1][1]>> \o PacketsOf(Back(s, Units))
  BY <1>2, <1>7, PacketsFront
<1> QED BY <1>4, <1>5, <1>6, <1>8, <1>9, <1>10

\* So, with no event in hand, the abstract inbox loses its head.
LEMMA DecodeInbox ==
    ASSUME TypeOK, TypeOK', ~WouldBlock, DecodeFront, UNCHANGED down,
           held = <<>>, held' = <<>>
    PROVE  Inbox # <<>> /\ Head(Inbox) = FrontPacket /\ Inbox' = Tail(Inbox)
<1>1. /\ Arriving \in Seq(ServerPacket) /\ Arriving' \in Seq(ServerPacket)
      /\ FrontPacket \in ServerPacket /\ Arriving = <<FrontPacket>> \o Arriving'
  <2>1. /\ inbuf \in Seq(Unit(ServerPacket)) /\ down \in Seq(Unit(ServerPacket))
        /\ inbuf' \in Seq(Unit(ServerPacket)) /\ down' \in Seq(Unit(ServerPacket))
    BY DEF TypeOK, CoreTypeOK, NetTypeOK
  <2>2. Arriving \in Seq(ServerPacket) /\ Arriving' \in Seq(ServerPacket)
    BY <2>1, ArrivingType DEF Arriving
  <2> QED BY <2>2, DecodeArriving
<1>2. Inbox = Arriving /\ Inbox' = Arriving'
  BY <1>1, ConcatEmptySeq DEF Inbox
<1> QED BY <1>1, <1>2, HeadTail

-----------------------------------------------------------------------------
(* The mapping's invariant *)

\* A step ends the handshake or leaves it running.
LEMMA HandshakeOverStep ==
    ASSUME HandshakeOver, [Next]_vars
    PROVE  HandshakeOver'
<1>1. CASE \/ pc' \notin {"idle", "gone"} \/ op' = "none" \/ UNCHANGED <<op, pc>>
  BY <1>1 DEF HandshakeOver
<1>2. CASE Application
  BY <1>1, <1>2 DEF Application, CallSend, CoreSend, CallRecv, DropFuture, Drain, Abandon,
     taskVars
<1>3. ASSUME AfterDrain PROVE HandshakeOver'
  <2>1. pc' \notin {"idle", "gone"} \/ op' = "none"
    BY <1>3 DEF AfterDrain, Drain, Abandon, ReturnOk
  <2> QED BY <1>1, <2>1
<1>4. CASE Task
  <2>1. CASE DrainNothing \/ FlushDone
    BY <1>3, <2>1 DEF DrainNothing, FlushDone
  <2>2. CASE DrainWrite \/ DrainFlush \/ FlushSome \/ ReadEof
    BY <1>1, <2>2 DEF DrainWrite, DrainFlush, FlushSome, ReadEof, Abandon, taskVars
  <2>3. ASSUME NEW n, NEW k, WriteDone(n, k) PROVE HandshakeOver'
    BY <1>1, <2>3 DEF WriteDone, AcceptWrite
  <2>4. ASSUME NEW n, ReadDone(n) PROVE HandshakeOver'
    BY <1>1, <2>4 DEF ReadDone, Drain, Abandon
  <2> QED BY <1>4, <2>1, <2>2, <2>3, <2>4 DEF Task
<1>5. CASE TransportFault
  BY <1>1, <1>5 DEF TransportFault, WriteFails, FlushFails, ReadFails, Abandon
<1>6. CASE Server \/ UNCHANGED vars
  BY <1>1, <1>6 DEF Server, ServerReads, ServerSends, ServerCloses, vars, taskVars
<1> QED BY <1>2, <1>4, <1>5, <1>6 DEF Next

\* An event is taken in hand by recv_event and leaves with it.
LEMMA HeldStep ==
    ASSUME TypeOK, PumpInv, HeldIsEvent, [Next]_vars
    PROVE  HeldIsEvent'
<1>1. CASE held' = <<>> \/ UNCHANGED <<op, held>>
  BY <1>1 DEF HeldIsEvent
<1>2. CASE Application
  <2>1. pc = "idle" => held = <<>>
    BY DEF PumpInv, EventInHand
  <2> QED BY <1>1, <1>2, <2>1 DEF Application, CallSend, CoreSend, CallRecv, DropFuture,
        Abandon, taskVars
<1>3. ASSUME AfterDrain PROVE HeldIsEvent'
  <2>1. CASE op = "recv" /\ recv_event("Ready") /\ held' = <<FrontPacket>> /\ UNCHANGED op
    <3>1. ~WouldBlock /\ FrontPacket # "Unknown"
      BY <2>1 DEF recv_event
    <3>2. FrontPacket \in ServerPacket \ {"Unknown"}
      BY <3>1, FrontType DEF TypeOK
    <3> QED BY <2>1, <3>2 DEF HeldIsEvent
  <2>2. CASE held' = <<>> \/ UNCHANGED <<op, held>>
    BY <1>1, <2>2
  <2> QED BY <1>3, <2>1, <2>2 DEF AfterDrain, Abandon, ReturnOk
<1>4. CASE Task
  <2>1. CASE DrainNothing \/ FlushDone
    BY <1>3, <2>1 DEF DrainNothing, FlushDone
  <2>2. CASE DrainWrite \/ DrainFlush \/ FlushSome \/ ReadEof
    BY <1>1, <2>2 DEF DrainWrite, DrainFlush, FlushSome, ReadEof, Abandon, taskVars
  <2>3. ASSUME NEW n, NEW k, WriteDone(n, k) PROVE HeldIsEvent'
    BY <1>1, <2>3 DEF WriteDone, AcceptWrite
  <2>4. ASSUME NEW n, ReadDone(n) PROVE HeldIsEvent'
    BY <1>1, <2>4 DEF ReadDone, Abandon
  <2> QED BY <1>4, <2>1, <2>2, <2>3, <2>4 DEF Task
<1>5. CASE TransportFault
  BY <1>1, <1>5 DEF TransportFault, WriteFails, FlushFails, ReadFails, Abandon
<1>6. CASE Server \/ UNCHANGED vars
  BY <1>1, <1>6 DEF Server, ServerReads, ServerSends, ServerCloses, vars, taskVars
<1> QED BY <1>2, <1>4, <1>5, <1>6 DEF Next

\* One packet more or less keeps a length a multiple of Units.
LEMMA WholePackets ==
    ASSUME NEW L \in Int, L % Units = 0
    PROVE  (L + Units) % Units = 0 /\ (L - Units) % Units = 0
<1>1. Units \in Nat \ {0} /\ L \div Units \in Int /\ L = Units * (L \div Units)
  BY UnitsAssumption
<1>2. (Units * (L \div Units) + Units) % Units = 0
  BY <1>1
<1>3. (Units * (L \div Units) - Units) % Units = 0
  BY <1>1
<1> QED BY <1>1, <1>2, <1>3

\* Packets are sent and decoded as a whole.
LEMMA AlignedStep ==
    ASSUME TypeOK, TypeOK', Aligned, [Next]_vars
    PROVE  Aligned'
<1>1. CASE lost' = lost /\ UNCHANGED <<inbuf, down>>
  BY <1>1 DEF Aligned
<1>2. /\ inbuf \in Seq(Unit(ServerPacket)) /\ down \in Seq(Unit(ServerPacket))
      /\ Len(inbuf) \in Nat /\ Len(down) \in Nat /\ Units \in Nat \ {0}
      /\ Len(inbuf') \in Nat /\ Len(down') \in Nat
  BY LenProperties, UnitsAssumption DEF TypeOK, CoreTypeOK, NetTypeOK
<1>3. CASE DrainNothing \/ FlushDone
  <2>1. AfterDrain /\ UNCHANGED <<down, lost>>
    BY <1>3 DEF DrainNothing, FlushDone, netVars
  <2>2. CASE ~WouldBlock /\ DecodeFront
    <3>1. Len(inbuf') = Len(inbuf) - Units
      BY <2>1, <2>2, DecodeArriving
    <3>2. Len(inbuf') + Len(down') = (Len(inbuf) + Len(down)) - Units
      BY <1>2, <2>1, <3>1
    <3>3. ASSUME (Len(inbuf) + Len(down)) % Units = 0
          PROVE  ((Len(inbuf) + Len(down)) - Units) % Units = 0
      <4> DEFINE L == Len(inbuf) + Len(down)
      <4>1. L \in Int /\ L % Units = 0
        BY <1>2, <3>3
      <4> HIDE DEF L
      <4>2. (L + Units) % Units = 0 /\ (L - Units) % Units = 0
        BY <4>1, WholePackets
      <4> QED BY <4>2 DEF L
    <3> QED BY <2>1, <3>2, <3>3 DEF Aligned
  <2>3. CASE UNCHANGED inbuf
    BY <1>1, <2>1, <2>3
  <2>4. CoreTypeOK /\ TaskTypeOK
    BY DEF TypeOK
  <2> QED BY <2>1, <2>2, <2>3, <2>4, AfterDrainBuffers
<1>4. ASSUME NEW n, ReadDone(n) PROVE Aligned'
  <2>1. CASE lost'
    BY <2>1 DEF Aligned
  <2>2. CASE ~lost'
    <3>1. /\ inbuf' = inbuf \o Front(down, n) /\ down' = Back(down, n)
          /\ n \in 0..Len(down) /\ ~lost
      BY <1>4, <2>2 DEF ReadDone, submit, Front, Back
    <3>2. Front(down, n) \in Seq(Unit(ServerPacket))
      BY <1>2, <3>1, CutFact DEF Cuts
    <3>3. Len(Front(down, n)) = n /\ Len(Back(down, n)) = Len(down) - n
      BY <1>2, <3>1 DEF Front, Back
    <3>4. Len(inbuf') = Len(inbuf) + n
      BY <1>2, <3>1, <3>2, <3>3, ConcatProperties
    <3>5. Len(inbuf') + Len(down') = Len(inbuf) + Len(down)
      BY <1>2, <3>1, <3>3, <3>4
    <3> QED BY <3>1, <3>5 DEF Aligned
  <2> QED BY <2>1, <2>2
<1>5. CASE ServerSends
  <2>1. 1 \in 1..Len(todo) /\ todo \in Seq(ServerPacket)
    BY <1>5, EmptySeq, LenProperties DEF ServerSends, TypeOK, SrvTypeOK
  <2>2. todo[1] \in ServerPacket
    BY <2>1, LenProperties
  <2>3. Encode(todo[1]) \in Seq(Unit(ServerPacket)) /\ Len(Encode(todo[1])) = Units
    BY <2>2, EncodeLen
  <2>4. down' = down \o Encode(todo[1]) /\ UNCHANGED <<inbuf, lost>>
    BY <1>5 DEF ServerSends, coreVars, histVars
  <2>5. Len(down') = Len(down) + Units
    BY <1>2, <2>3, <2>4, ConcatProperties
  <2>6. Len(inbuf') + Len(down') = (Len(inbuf) + Len(down)) + Units
    BY <1>2, <2>4, <2>5
  <2>7. ASSUME (Len(inbuf) + Len(down)) % Units = 0
        PROVE  ((Len(inbuf) + Len(down)) + Units) % Units = 0
    <3> DEFINE L == Len(inbuf) + Len(down)
    <3>1. L \in Int /\ L % Units = 0
      BY <1>2, <2>7
    <3> HIDE DEF L
    <3>2. (L + Units) % Units = 0 /\ (L - Units) % Units = 0
      BY <3>1, WholePackets
    <3> QED BY <3>2 DEF L
  <2> QED BY <2>4, <2>6, <2>7 DEF Aligned
<1>6. CASE \/ Application \/ DrainWrite \/ DrainFlush \/ FlushSome \/ ReadEof
           \/ (\E n \in 1..Len(outq) : \E k \in 0..(Len(tbuf) + n) : WriteDone(n, k))
           \/ TransportFault \/ ServerReads \/ ServerCloses \/ UNCHANGED vars
  <2>1. UNCHANGED <<inbuf, down, lost>>
    BY <1>6 DEF Application, CallSend, CallRecv, CoreSend, send, DropFuture,
       DrainWrite, DrainFlush, FlushSome, ReadEof, WriteDone, AcceptWrite,
       TransportFault, WriteFails, FlushFails, ReadFails, ServerReads,
       ServerCloses, vars, coreVars, netVars, histVars
  <2> QED BY <1>1, <2>1
<1> QED BY <1>3, <1>4, <1>5, <1>6 DEF Next, Task, Server

\* The mapping's invariant holds in every reachable state.
LEMMA MappingSafe == Spec => []MappingInv
<1>1. Init => MappingInv
  <2>1. Init => Len(inbuf) = 0 /\ Len(down) = 0
    BY DEF Init, new
  <2>2. 0 % Units = 0 /\ 0 + 0 = 0
    BY UnitsAssumption
  <2> QED BY <2>1, <2>2 DEF Init, new, MappingInv, HandshakeOver, HeldIsEvent, Aligned
<1>2. TypeOK /\ TypeOK' /\ PumpInv /\ MappingInv /\ [Next]_vars => MappingInv'
  BY HandshakeOverStep, HeldStep, AlignedStep DEF MappingInv
<1> QED BY <1>1, <1>2, PumpSafe, Typing, PTL DEF Spec

-----------------------------------------------------------------------------
(* Every step of the client is a step of the connection or does not show *)

Mapped == Abstract!ConnNext \/ UNCHANGED Abstract!connVars

\* Typing of the units on their way out.
LEMMA OutboxType ==
    ASSUME TypeOK
    PROVE  /\ up \in Seq(Unit(ClientMessage)) /\ tbuf \in Seq(Unit(ClientMessage))
           /\ outq \in Seq(Unit(ClientMessage)) /\ got \in Seq(Unit(ClientMessage))
           /\ up \o tbuf \in Seq(Unit(ClientMessage)) /\ Outbox \in Seq(Unit(ClientMessage))
<1>1. /\ up \in Seq(Unit(ClientMessage)) /\ tbuf \in Seq(Unit(ClientMessage))
      /\ outq \in Seq(Unit(ClientMessage)) /\ got \in Seq(Unit(ClientMessage))
  BY DEF TypeOK, CoreTypeOK, NetTypeOK, SrvTypeOK
<1>2. up \o tbuf \in Seq(Unit(ClientMessage))
  BY <1>1, ConcatProperties
<1>3. (up \o tbuf) \o outq \in Seq(Unit(ClientMessage))
  BY <1>1, <1>2, ConcatProperties
<1> QED BY <1>1, <1>2, <1>3 DEF Outbox

\* Queueing a message appends it to the abstract outbox.
LEMMA QueueOutbox ==
    ASSUME TypeOK, NEW m \in ClientMessage, QueueOut(m), UNCHANGED <<up, tbuf>>
    PROVE  Outbox' = Outbox \o Encode(m)
<1> DEFINE U == Unit(ClientMessage)
           p == up \o tbuf
<1>1. p \in Seq(U) /\ outq \in Seq(U) /\ Encode(m) \in Seq(U) /\ Assoc(U)
  BY OutboxType, EncodeType, ConcatFacts
<1>2. Outbox = p \o outq /\ Outbox' = p \o (outq \o Encode(m))
  BY DEF Outbox, QueueOut
<1> HIDE DEF U, p
<1>3. AssocAt(p, outq, Encode(m))
  BY <1>1 DEF Assoc
<1> QED BY <1>2, <1>3 DEF AssocAt

\* Moving units between the queue, the transport and the wire does not show.
LEMMA PumpOutbox ==
    ASSUME TypeOK,
           FlushSome \/ \E n \in 1..Len(outq) : \E k \in 0..(Len(tbuf) + n) : WriteDone(n, k)
    PROVE  UNCHANGED Outbox
<1> DEFINE U == Unit(ClientMessage)
<1>1. up \in Seq(U) /\ tbuf \in Seq(U) /\ outq \in Seq(U) /\ up \o tbuf \in Seq(U)
  BY OutboxType
<1>2. CASE FlushSome
  <2>1. 1 \in 0..Len(tbuf)
    BY <1>1, <1>2, EmptySeq DEF FlushSome
  <2>2. up' = up \o Front(tbuf, 1) /\ tbuf' = Back(tbuf, 1) /\ outq' = outq
    BY <1>2 DEF FlushSome, coreVars, Front, Back
  <2>3. ShiftAt(up, tbuf, 1)
    BY <1>1, <2>1, ShiftFact DEF Shifts
  <2> QED BY <2>2, <2>3 DEF ShiftAt, Outbox
<1>3. ASSUME NEW n, NEW k, WriteDone(n, k) PROVE UNCHANGED Outbox
  <2>1. n \in 0..Len(outq) /\ k \in 0..Len(Joined(tbuf, outq, n))
    BY <1>1, <1>3, LenProperties DEF WriteDone, AcceptWrite, Joined, Front
  <2>2. /\ up' = up \o Front(Joined(tbuf, outq, n), k)
        /\ tbuf' = Back(Joined(tbuf, outq, n), k) /\ outq' = Back(outq, n)
    BY <1>3 DEF WriteDone, AcceptWrite, consume_out, Joined, Front, Back
  <2>3. <<>> \in Seq(U) /\ Pipelines(U)
    BY EmptySeq, PipelineFact
  <2> HIDE DEF U
  <2>4. PipelineAt(<<>>, up, tbuf, outq, n, k)
    BY <1>1, <2>1, <2>3 DEF Pipelines
  <2>5. <<>> \o up = up
    BY <1>1, ConcatEmptySeq
  <2>6. <<>> \o up' = up'
    <3>1. Cuts(U) /\ Closed(U)
      BY CutFact, ConcatFacts
    <3>2. Joined(tbuf, outq, n) \in Seq(U)
      BY <1>1, <2>1, <3>1 DEF Joined, Cuts, Closed
    <3>3. up' \in Seq(U)
      BY <1>1, <2>1, <2>2, <3>1, <3>2 DEF Cuts, Closed
    <3> QED BY <3>3, ConcatEmptySeq
  <2> QED BY ONLY <2>2, <2>4, <2>5, <2>6 DEF PipelineAt, Outbox
<1> QED BY <1>2, <1>3

\* The server's read takes the first unit off the abstract outbox.
LEMMA ServerReadsMapped == ASSUME TypeOK, MappingInv, ServerReads PROVE Mapped
<1> DEFINE U == Unit(ClientMessage)
           u == up[1]
           t == (Back(up, 1) \o tbuf) \o outq
<1>1. /\ up \in Seq(U) /\ tbuf \in Seq(U) /\ outq \in Seq(U) /\ got \in Seq(U)
      /\ Len(up) \in Nat /\ 1 \in 0..Len(up) /\ 1 \in 1..Len(up)
  BY OutboxType, EmptySeq, LenProperties DEF ServerReads
<1>2. u \in U /\ Front(up, 1) = <<u>> /\ Back(up, 1) \in Seq(U)
      /\ Front(up, 1) \o Back(up, 1) = up
  <2>1. Back(up, 1) \in Seq(U) /\ Front(up, 1) \o Back(up, 1) = up
    BY <1>1, CutFact DEF Cuts
  <2>2. u \in U
    BY <1>1, LenProperties
  <2>3. Front(up, 1) = <<u>>
    <3>1. Front(up, 1) \in Seq(U)
      BY <1>1, CutFact DEF Cuts
    <3>2. Len(Front(up, 1)) = 1 /\ Front(up, 1)[1] = u
      BY <1>1 DEF Front
    <3>3. <<u>> \in Seq(U) /\ Len(<<u>>) = 1 /\ <<u>>[1] = u
      BY <2>2
    <3>4. \A i \in 1..1 : Front(up, 1)[i] = <<u>>[i]
      BY <3>2, <3>3
    <3> HIDE DEF U, u
    <3> QED BY <3>1, <3>2, <3>3, <3>4, SeqEqual
  <2> QED BY <2>1, <2>2, <2>3
<1>3. got' = got \o <<u>> /\ up' = Back(up, 1)
      /\ UNCHANGED <<coreVars, taskVars, tbuf, down, events>>
  BY <1>2 DEF ServerReads, Front, Back, histVars
<1>4. UNCHANGED <<Phase, Inbox, events>> /\ outq' = outq /\ tbuf' = tbuf
  BY <1>3 DEF Phase, Inbox, Arriving, coreVars, taskVars
<1>5. Outbox' = t
  BY <1>3, <1>4 DEF Outbox
<1> HIDE DEF U, u
<1>6. Outbox = <<u>> \o t /\ t \in Seq(U)
  <2>1. Closed(U) /\ Assoc(U) /\ <<u>> \in Seq(U)
    BY <1>2, ConcatFacts
  <2>2. Back(up, 1) \o tbuf \in Seq(U) /\ t \in Seq(U)
    BY <1>1, <1>2, <2>1 DEF Closed
  <2>3. (<<u>> \o Back(up, 1)) \o tbuf = <<u>> \o (Back(up, 1) \o tbuf)
    BY <1>1, <1>2, <2>1 DEF Assoc, AssocAt
  <2>4. (<<u>> \o (Back(up, 1) \o tbuf)) \o outq = <<u>> \o t
    BY <1>1, <2>1, <2>2 DEF Assoc, AssocAt
  <2>5. up = <<u>> \o Back(up, 1)
    BY <1>2
  <2> QED BY <2>2, <2>3, <2>4, <2>5 DEF Outbox
<1> HIDE DEF t
<1>7. Outbox # <<>> /\ Head(Outbox) = u /\ Tail(Outbox) = t
  BY <1>2, <1>6, HeadTail
<1>8. got' = Append(got, Head(Outbox))
  BY <1>1, <1>2, <1>3, <1>7, AppendIsConcat
<1> QED BY <1>4, <1>5, <1>7, <1>8, MapReceive DEF Mapped

\* The packet the server sends joins the abstract inbox.
LEMMA ServerSendsMapped ==
    ASSUME TypeOK, MappingInv, ServerSends, ~lost PROVE Mapped
<1> DEFINE U == Unit(ServerPacket)
           p == todo[1]
           s == inbuf \o down
<1>1. p \in ServerPacket
  <2>1. 1 \in 1..Len(todo) /\ todo \in Seq(ServerPacket)
    BY EmptySeq, LenProperties DEF ServerSends, TypeOK, SrvTypeOK
  <2> QED BY <2>1, LenProperties
<1>2. /\ inbuf \in Seq(U) /\ down \in Seq(U) /\ held \in Seq(ServerPacket)
      /\ s \in Seq(U) /\ Len(s) = Len(inbuf) + Len(down)
      /\ PacketsOf(s) \in Seq(ServerPacket)
  BY ArrivingType DEF TypeOK, CoreTypeOK, NetTypeOK, TaskTypeOK
<1>3. Len(s) % Units = 0
  BY <1>2 DEF MappingInv, Aligned
<1>4. inbuf' = inbuf /\ down' = down \o Encode(p) /\ held' = held
      /\ UNCHANGED <<coreVars, taskVars, tbuf, up, got, events>>
  BY DEF ServerSends, coreVars, taskVars, histVars
<1>5. UNCHANGED <<Phase, Outbox, got, events>>
  BY <1>4 DEF Phase, Outbox, coreVars, taskVars
<1>6. inbuf' \o down' = s \o Encode(p)
  <2>1. Encode(p) \in Seq(U) /\ Assoc(U)
    BY <1>1, EncodeType, ConcatFacts
  <2> HIDE DEF U, p
  <2>2. AssocAt(inbuf, down, Encode(p))
    BY <1>2, <2>1 DEF Assoc
  <2> QED BY <1>4, <2>2 DEF AssocAt
<1>7. Arriving = PacketsOf(s) /\ Arriving' = PacketsOf(s \o Encode(p))
  BY <1>6 DEF Arriving
<1> HIDE DEF s, p
<1>8. Arriving' = Append(Arriving, p)
  BY <1>1, <1>2, <1>3, <1>7, PacketsAppend
<1>9. Inbox' = Append(Inbox, p)
  <2>1. Inbox = held \o Arriving /\ Inbox' = held \o Append(Arriving, p)
    BY <1>4, <1>8 DEF Inbox
  <2>2. Arriving \in Seq(ServerPacket) /\ held \in Seq(ServerPacket)
    BY <1>2, <1>7
  <2>3. \A a, b \in Seq(ServerPacket) : a \o Append(b, p) = Append(a \o b, p)
    BY <1>1
  <2> QED BY <2>1, <2>2, <2>3
<1> QED BY <1>1, <1>5, <1>9, MapReply DEF Mapped

\* A future that fails or is dropped takes a handshake with it and shows
\* nowhere else.
LEMMA AbandonMapped ==
    ASSUME Abandon, held = <<>>, pc # "gone",
           UNCHANGED <<Outbox, got, inbuf, down>>
    PROVE  Mapped
<1>1. UNCHANGED <<Inbox, events>>
  BY DEF Abandon, Inbox, Arriving
<1>2. CASE op = "handshake"
  <2>1. Phase = "greeting" /\ Phase' = "gone"
    BY <1>2 DEF Abandon, Phase
  <2> QED BY <1>1, <2>1, MapHandshakeEnds DEF Mapped
<1>3. CASE op # "handshake"
  <2>1. Phase' = Phase
    BY <1>3 DEF Abandon, Phase
  <2> QED BY <1>1, <2>1, MapStutter DEF Mapped
<1> QED BY <1>2, <1>3

\* A method returns: the handshake opens the connection, recv_event delivers
\* the event it holds.
LEMMA ReturnMapped ==
    ASSUME TypeOK, MappingInv, ReturnOk, pc # "gone",
           UNCHANGED <<coreVars, up, tbuf, down, got>>
    PROVE  Mapped
<1>1. UNCHANGED <<Outbox, Arriving, got>>
  BY DEF Outbox, Arriving, coreVars
<1>2. Arriving \in Seq(ServerPacket) /\ events \in Seq(ServerPacket)
  BY ArrivingType DEF TypeOK, CoreTypeOK, NetTypeOK, TaskTypeOK, Arriving
<1>3. Inbox' = Arriving
  BY <1>1, <1>2, ConcatEmptySeq DEF Inbox, ReturnOk
<1>4. CASE held = <<>>
  <2>1. Inbox' = Inbox /\ events' = events
    BY <1>2, <1>3, <1>4, ConcatEmptySeq DEF Inbox, ReturnOk
  <2>2. CASE op = "handshake"
    <3>1. Phase = "greeting" /\ Phase' = "open"
      BY <2>2 DEF ReturnOk, Phase
    <3> QED BY <1>1, <2>1, <3>1, MapHandshakeEnds DEF Mapped
  <2>3. CASE op # "handshake"
    <3>1. Phase' = Phase
      BY <2>3 DEF ReturnOk, Phase
    <3> QED BY <1>1, <2>1, <3>1, MapStutter DEF Mapped
  <2> QED BY <2>2, <2>3
<1>5. CASE op = "recv" /\ \E p \in ServerPacket \ {"Unknown"} : held = <<p>>
  <2>1. PICK p \in ServerPacket \ {"Unknown"} : held = <<p>>
    BY <1>5
  <2>2. Inbox = <<p>> \o Arriving
    BY <2>1 DEF Inbox
  <2>3. Inbox # <<>> /\ Head(Inbox) = p /\ Inbox' = Tail(Inbox)
    BY <1>2, <1>3, <2>2, HeadTail
  <2>4. events' = Append(events, p)
    BY <1>2, <2>1, AppendIsConcat DEF ReturnOk
  <2>5. Phase = "open" /\ Phase' = "open"
    BY <1>5 DEF ReturnOk, Phase
  <2> QED BY <1>1, <2>3, <2>4, <2>5, MapTake DEF Mapped
<1> QED BY <1>4, <1>5 DEF MappingInv, HeldIsEvent

\* The code after drain_out.
LEMMA AfterDrainMapped ==
    ASSUME TypeOK, TypeOK', PumpInv, MappingInv, AfterDrain, pc \in {"drain", "flush"},
           UNCHANGED <<up, tbuf, down, got>>
    PROVE  Mapped
<1>1. CASE cont = "pre" /\ send(op) /\ Drain("post") /\ UNCHANGED <<op, held, events>>
  <2>1. op \in SendOp /\ op \in ClientMessage /\ op # "handshake"
    BY <1>1 DEF TypeOK, TaskTypeOK, SendOp, ClientMessage
  <2>2. Outbox' = Outbox \o Encode(op)
    BY <1>1, <2>1, QueueOutbox DEF send
  <2>3. Phase = "open" /\ Phase' = "open"
    BY <1>1, <2>1 DEF Drain, Phase
  <2>4. UNCHANGED <<Inbox, events, got>>
    BY <1>1 DEF send, Inbox, Arriving
  <2>5. op \in IF Phase = "greeting" THEN {"Hello"} ELSE SendOp
    BY <2>1, <2>3
  <2> QED BY <2>2, <2>3, <2>4, <2>5, MapAccept DEF Mapped
<1>2. CASE cont = "pre" /\ Abandon /\ UNCHANGED coreVars
  <2>1. held = <<>>
    BY <1>2 DEF PumpInv, EventInHand
  <2> QED BY <1>2, <2>1, AbandonMapped DEF Outbox, coreVars
<1>3. CASE ReturnOk /\ UNCHANGED coreVars
  BY <1>3, ReturnMapped
<1>4. CASE cont = "top" /\ op = "handshake"
           /\ \/ handshake("NeedsInput") /\ Drain("need") /\ UNCHANGED <<op, held, events>>
              \/ handshake("Ready") /\ Drain("ready") /\ UNCHANGED <<op, held, events>>
              \/ handshake("Err") /\ Abandon
  <2>1. held = <<>> /\ Phase = "greeting"
    BY <1>4 DEF PumpInv, EventInHand, Phase
  <2>2. CASE handshake("NeedsInput") /\ Drain("need") /\ UNCHANGED <<op, held, events>>
    <3>1. Phase' = Phase /\ UNCHANGED <<Inbox, events, got>>
      BY <1>4, <2>2 DEF Drain, Phase, handshake, coreVars, Inbox, Arriving
    <3>2. CASE QueueOut("Hello")
      <4>1. "Hello" \in ClientMessage
        BY DEF ClientMessage
      <4>2. Outbox' = Outbox \o Encode("Hello")
        BY <3>2, <4>1, QueueOutbox
      <4>3. "Hello" \in IF Phase = "greeting" THEN {"Hello"} ELSE SendOp
        BY <2>1
      <4> QED BY <2>1, <3>1, <4>2, <4>3, MapAccept DEF Mapped
    <3>3. CASE UNCHANGED coreVars
      <4>1. Outbox' = Outbox
        BY <3>3 DEF Outbox, coreVars
      <4> QED BY <3>1, <4>1, MapStutter DEF Mapped
    <3> QED BY <2>2, <3>2, <3>3 DEF handshake
  <2>3. CASE handshake("Ready") /\ Drain("ready") /\ UNCHANGED <<op, held, events>>
    <3>1. ~WouldBlock /\ FrontPacket = "ServerHello" /\ DecodeFront /\ QueueOut("Addendum")
      BY <2>3 DEF handshake
    <3>2. Inbox # <<>> /\ Head(Inbox) = "ServerHello" /\ Inbox' = Tail(Inbox)
      BY <2>1, <2>3, <3>1, DecodeInbox
    <3>3. "Addendum" \in ClientMessage
      BY DEF ClientMessage
    <3>4. Outbox' = Outbox \o Encode("Addendum")
      BY <3>1, <3>3, QueueOutbox
    <3>5. Phase' = Phase /\ UNCHANGED <<got, events>>
      BY <1>4, <2>3 DEF Drain, Phase
    <3> QED BY <2>1, <3>2, <3>4, <3>5, MapGreet DEF Mapped
  <2>4. CASE handshake("Err") /\ Abandon
    <3>1. CASE ~WouldBlock /\ FrontPacket = "Exception" /\ DecodeFront
               /\ UNCHANGED <<outq, queued, hs, decoded>>
      <4>1. held' = <<>> /\ Phase' = "gone" /\ UNCHANGED <<Outbox, got, events>>
        BY <1>4, <2>4, <3>1 DEF Abandon, Phase, Outbox
      <4>2. Inbox # <<>> /\ Head(Inbox) = "Exception" /\ Inbox' = Tail(Inbox)
        BY <2>1, <3>1, <4>1, DecodeInbox
      <4> QED BY <2>1, <4>1, <4>2, MapHandshakeEnds DEF Mapped
    <3>2. CASE UNCHANGED coreVars
      BY <2>1, <2>4, <3>2, AbandonMapped DEF Outbox, coreVars
    <3> QED BY <2>4, <3>1, <3>2 DEF handshake
  <2> QED BY <1>4, <2>2, <2>3, <2>4
<1>5. CASE cont = "top" /\ op = "recv"
           /\ \/ recv_event("NeedsInput") /\ Drain("need") /\ UNCHANGED <<op, held, events>>
              \/ /\ recv_event("Ready") /\ held' = <<FrontPacket>>
                 /\ Drain("ready") /\ UNCHANGED <<op, events>>
              \/ recv_event("Err") /\ Abandon
  <2>1. held = <<>> /\ Phase = "open" /\ Phase' = "open" /\ UNCHANGED <<Outbox, got, events>>
    <3>1. held = <<>> /\ Phase = "open"
      BY <1>5 DEF PumpInv, EventInHand, Phase
    <3>2. Phase' = "open"
      BY <1>5 DEF Phase, Drain, Abandon
    <3>3. UNCHANGED outq
      BY <1>5 DEF recv_event, coreVars
    <3> QED BY <1>5, <3>1, <3>2, <3>3 DEF Outbox, Abandon
  <2>2. CASE recv_event("NeedsInput") /\ UNCHANGED held
    <3>1. UNCHANGED Inbox
      BY <2>2 DEF recv_event, coreVars, Inbox, Arriving
    <3> QED BY <2>1, <3>1, MapStutter DEF Mapped
  <2>3. CASE recv_event("Ready") /\ held' = <<FrontPacket>>
    <3>1. ~WouldBlock /\ DecodeFront
      BY <2>3 DEF recv_event
    <3>2. Arriving = <<FrontPacket>> \o Arriving'
      BY <3>1, DecodeArriving
    <3>3. Arriving \in Seq(ServerPacket)
      BY ArrivingType DEF TypeOK, CoreTypeOK, NetTypeOK, Arriving
    <3>4. Inbox' = Inbox
      BY <2>1, <2>3, <3>2, <3>3, ConcatEmptySeq DEF Inbox
    <3> QED BY <2>1, <3>4, MapStutter DEF Mapped
  <2>4. CASE recv_event("Err") /\ Abandon
    <3>1. held' = <<>>
      BY <2>4 DEF Abandon
    <3>2. CASE ~WouldBlock /\ FrontPacket = "Unknown" /\ DecodeFront
      <4>1. Inbox # <<>> /\ Head(Inbox) = "Unknown" /\ Inbox' = Tail(Inbox)
        BY <2>1, <3>1, <3>2, DecodeInbox
      <4> QED BY <2>1, <4>1, MapTake DEF Mapped
    <3>3. CASE UNCHANGED coreVars
      BY <2>1, <2>4, <3>3, AbandonMapped DEF coreVars
    <3> QED BY <2>4, <3>2, <3>3 DEF recv_event
  <2> QED BY <1>5, <2>2, <2>3, <2>4
<1>6. CASE pc' = "read" /\ UNCHANGED <<coreVars, op, cont, wrote, held, events>>
  <2>1. UNCHANGED <<Phase, Outbox, Inbox, got, events>>
    BY <1>6 DEF Phase, Outbox, Inbox, Arriving, coreVars
  <2> QED BY <2>1, MapStutter DEF Mapped
<1> QED BY <1>1, <1>2, <1>3, <1>4, <1>5, <1>6 DEF AfterDrain

\* Every step that loses nothing is mapped: one case per action.
LEMMA StepMapped ==
    ASSUME TypeOK, TypeOK', PumpInv, MappingInv, Next, ~lost'
    PROVE  Mapped
<1>1. ASSUME UNCHANGED <<Phase, Outbox, got, Inbox, events>> PROVE Mapped
  BY <1>1, MapStutter DEF Mapped
<1>2. ASSUME NEW o \in SendOp, CallSend(o) PROVE Mapped
  <2>1. Phase = "open" /\ Phase' = "open"
    BY <1>2 DEF CallSend, Drain, Phase, SendOp, MappingInv, HandshakeOver
  <2> QED BY <1>1, <1>2, <2>1 DEF CallSend, Outbox, Inbox, Arriving, coreVars, netVars, srvVars
<1>3. CASE CallRecv
  <2>1. Phase = "open" /\ Phase' = "open"
    BY <1>3 DEF CallRecv, Drain, Phase, MappingInv, HandshakeOver
  <2> QED BY <1>1, <1>3, <2>1
        DEF CallRecv, Outbox, Inbox, Arriving, coreVars, netVars, srvVars, histVars
<1>4. ASSUME NEW o \in SendOp, CoreSend(o) PROVE Mapped
  <2>1. Phase = "open" /\ Phase' = "open" /\ o \in ClientMessage
    BY <1>4 DEF CoreSend, taskVars, Phase, MappingInv, HandshakeOver, SendOp, ClientMessage
  <2>2. Outbox' = Outbox \o Encode(o)
    BY <1>4, <2>1, QueueOutbox DEF CoreSend, send, netVars
  <2>3. UNCHANGED <<Inbox, got, events>>
    BY <1>4 DEF CoreSend, send, taskVars, netVars, srvVars, Inbox, Arriving
  <2>4. o \in IF Phase = "greeting" THEN {"Hello"} ELSE SendOp
    BY <2>1
  <2> QED BY <2>1, <2>2, <2>3, <2>4, MapAccept DEF Mapped
<1>5. CASE DropFuture \/ WriteFails \/ FlushFails \/ ReadFails \/ ReadEof
  <2>1. /\ Abandon /\ pc \in Await
        /\ UNCHANGED <<coreVars, netVars, srvVars>>
    BY <1>5 DEF DropFuture, WriteFails, FlushFails, ReadFails, ReadEof, Await
  <2>2. held = <<>> /\ pc # "gone"
    BY <2>1 DEF PumpInv, EventInHand, Await
  <2> QED BY <2>1, <2>2, AbandonMapped DEF Outbox, coreVars, netVars, srvVars
<1>6. CASE DrainWrite \/ DrainFlush
  BY <1>1, <1>6 DEF DrainWrite, DrainFlush, Phase, Outbox, Inbox, Arriving, coreVars, netVars,
     srvVars, histVars
<1>7. CASE DrainNothing \/ FlushDone
  BY <1>7, AfterDrainMapped DEF DrainNothing, FlushDone, netVars, srvVars
<1>8. CASE FlushSome \/ \E n \in 1..Len(outq) : \E k \in 0..(Len(tbuf) + n) : WriteDone(n, k)
  <2>1. UNCHANGED Outbox
    BY <1>8, PumpOutbox
  <2>2. UNCHANGED <<Phase, got, Inbox, events>>
    BY <1>8 DEF FlushSome, WriteDone, AcceptWrite, Phase, Inbox, Arriving, coreVars, taskVars,
       srvVars, histVars
  <2> QED BY <1>1, <2>1, <2>2
<1>9. ASSUME NEW n, ReadDone(n) PROVE Mapped
  <2>1. /\ inbuf' = inbuf \o Front(down, n) /\ down' = Back(down, n) /\ n \in 0..Len(down)
        /\ pc = "read" /\ pc' = "drain"
        /\ UNCHANGED <<op, held, events, outq, tbuf, up, got>>
    BY <1>9 DEF ReadDone, submit, Front, Back, Drain, srvVars
  <2>2. inbuf' \o down' = inbuf \o down
    <3>1. inbuf \in Seq(Unit(ServerPacket)) /\ down \in Seq(Unit(ServerPacket))
      BY DEF TypeOK, CoreTypeOK, NetTypeOK
    <3>2. ShiftAt(inbuf, down, n)
      BY <2>1, <3>1, ShiftFact DEF Shifts
    <3> QED BY <2>1, <3>2 DEF ShiftAt
  <2>3. UNCHANGED <<Phase, Outbox, Inbox>>
    BY <2>1, <2>2 DEF Phase, Outbox, Inbox, Arriving
  <2> QED BY <1>1, <2>1, <2>3
<1>10. CASE ServerReads
  BY <1>10, ServerReadsMapped
<1>11. CASE ServerSends
  <2>1. ~lost
    BY <1>11 DEF ServerSends, histVars
  <2> QED BY <1>11, <2>1, ServerSendsMapped
<1>12. CASE ServerCloses
  BY <1>1, <1>12 DEF ServerCloses, Phase, Outbox, Inbox, Arriving, coreVars, taskVars, netVars
<1> QED BY <1>2, <1>3, <1>4, <1>5, <1>6, <1>7, <1>8, <1>9, <1>10, <1>11, <1>12
        DEF Next, Application, Task, TransportFault, Server

\* The Tokio client implements the connection: whatever futures are dropped,
\* whatever the transport accepts, holds back or reports, and however the bytes
\* are cut, the application and the server see two reliable first-in first-out
\* channels, until a submit runs out of memory.
THEOREM Refinement == Spec => ImplementsConnection
<1>1. Init => Abstract!ConnInit
  <2> SUFFICES ASSUME Init PROVE Abstract!ConnInit
    OBVIOUS
  <2>1. Phase = "greeting"
    BY DEF Init, Phase
  <2>2. Outbox = <<>> /\ got = <<>> /\ events = <<>>
    BY DEF Init, new, Outbox
  <2>3. Inbox = <<>>
    <3>1. inbuf \o down = <<>> /\ Len(<<>>) = 0 /\ 0 \div Units = 0
      BY UnitsAssumption DEF Init, new
    <3>2. <<>> \in Seq(Unit(ServerPacket))
      BY EmptySeq
    <3>3. PacketsOf(<<>>) \in Seq(ServerPacket) /\ Len(PacketsOf(<<>>)) = 0
      BY <3>1, <3>2, PacketsType
    <3>4. PacketsOf(<<>>) = <<>>
      BY <3>3, EmptySeq
    <3> QED BY <3>1, <3>4 DEF Init, Inbox, Arriving
  <2> QED BY <2>1, <2>2, <2>3 DEF Abstract!ConnInit, Phase, Outbox, Inbox, Arriving
<1>2. TypeOK /\ TypeOK' /\ PumpInv /\ MappingInv /\ [Next]_vars
        => [lost' \/ Abstract!ConnNext]_(Abstract!connVars)
  <2> SUFFICES ASSUME TypeOK, TypeOK', PumpInv, MappingInv, [Next]_vars
               PROVE  lost' \/ Abstract!ConnNext \/ UNCHANGED Abstract!connVars
    OBVIOUS
  <2>1. CASE Next
    BY <2>1, StepMapped DEF Mapped
  <2>2. CASE UNCHANGED vars
    <3>1. UNCHANGED <<Phase, Outbox, got, Inbox, events>>
      BY <2>2 DEF vars, coreVars, taskVars, netVars, srvVars, histVars,
         Phase, Outbox, Inbox, Arriving
    <3> QED BY <3>1, MapStutter
  <2> QED BY <2>1, <2>2
<1> QED BY <1>1, <1>2, Typing, PumpSafe, MappingSafe, PTL DEF Spec, ImplementsConnection
=============================================================================
