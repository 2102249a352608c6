----------------------------- MODULE UdpProofs -----------------------------
(* The sessions of the UDP proxy, for any number of clients and sockets.    *)
EXTENDS UdpProxy, TLAPS

\* In straddle a session and a handler cannot be mistaken for each other.
LEMMA SessionsAreNoHandlers == Sessions \cap Handlers = {}
  BY UdpConstants

\* A goroutine that dials holds the lock, for a key without a session.
DialersHoldTheLock ==
    \A h \in Handlers :
        /\ handler[h].pc # "none" => handler[h].key \in Keys
        /\ handler[h].pc = "dial" => mu = h /\ flows[handler[h].key] = None

ReaperOK == reaper.pc # "close" => reaper.dead = {}

\* Whoever passed the check is allowed by the index or was overtaken; until the
\* reaper has looked at the flow table, nothing is said of open sessions.
CheckedOrOvertaken ==
    /\ \A h \in Handlers : handler[h].pc \in {"lock", "dial"} =>
           handler[h].key \in index \/ h \in straddle
    /\ reaper.pc # "reap" => \A s \in Sessions : session[s].open =>
           session[s].key \in index \/ s \in straddle \/ s \in reaper.dead

IInv ==
    /\ TypeOK
    /\ PumpsOwnTheirSessions
    /\ OpenSessionsAreRevocable
    /\ DialersHoldTheLock
    /\ ReaperOK
    /\ CheckedOrOvertaken

(***************************************************************************)
(* Types                                                                   *)
(***************************************************************************)

\* The proxy starts well typed.
LEMMA InitTyped == Init => TypeOK
<1> SUFFICES ASSUME Init PROVE TypeOK
  OBVIOUS
<1>1. NoSession \in SessionRecord /\ NoEndpoint \in EndpointRecord /\ NoHandler \in HandlerRecord
  BY UdpConstants DEF NoSession, NoEndpoint, NoHandler, SessionRecord, EndpointRecord, HandlerRecord
<1> QED BY <1>1 DEF Init, TypeOK

\* One lemma for the steps of endpoints, one for those of handlers, one for
\* pumps, one for the listener.
LEMMA EndpointStepTyped ==
    ASSUME TypeOK, NEW e \in Endpoints, Client(e) \/ EndpointExpires(e)
    PROVE  TypeOK'
<1> USE UdpConstants
<1>0. NoEndpoint \in EndpointRecord /\ endpoint[e] \in EndpointRecord
  BY DEF NoEndpoint, EndpointRecord, TypeOK
<1>1. ASSUME NEW k \in Keys, OnUDP(e, k) PROVE TypeOK'
  <2>1. [endpoint[e] EXCEPT !.key = k] \in EndpointRecord
    BY <1>0 DEF EndpointRecord
  <2> QED BY <2>1, <1>1 DEF OnUDP, TypeOK, policyVars, mapVars
<1>2. ASSUME NEW h \in Handlers, ReadFrom(e, h) PROVE TypeOK'
  <2>1. [endpoint[e] EXCEPT !.age = 0] \in EndpointRecord
    BY <1>0 DEF EndpointRecord
  <2>2. [pc |-> "check", key |-> endpoint[e].key, inbound |-> e, to |-> None] \in HandlerRecord
    BY <1>0 DEF EndpointRecord, HandlerRecord
  <2> QED BY <2>1, <2>2, <1>2 DEF ReadFrom, TypeOK, policyVars, mapVars
<1>3. CASE EndpointExpires(e)
  BY <1>0, <1>3 DEF EndpointExpires, TypeOK, policyVars, mapVars
<1> QED BY <1>1, <1>2, <1>3 DEF Client

\* A handler that uses a session has a key to look under.
LEMMA HandlerStepTyped ==
    ASSUME TypeOK, DialersHoldTheLock, NEW h \in Handlers, HandlePacket(h)
    PROVE  TypeOK'
<1> USE UdpConstants
<1>0. NoHandler \in HandlerRecord /\ handler[h] \in HandlerRecord
  BY DEF NoHandler, HandlerRecord, TypeOK
<1>g. ASSUME NEW pc \in {"lock", "dial"}, Goto(h, pc)
      PROVE  handler' \in [Handlers -> HandlerRecord]
  <2>1. [handler[h] EXCEPT !.pc = pc] \in HandlerRecord
    BY <1>0 DEF HandlerRecord
  <2> QED BY <2>1, <1>g DEF Goto, TypeOK
<1>h. ASSUME NEW s \in Sessions, Hand(h, s)
      PROVE  handler' \in [Handlers -> HandlerRecord]
  <2>1. [handler[h] EXCEPT !.pc = "write", !.to = s] \in HandlerRecord
    BY <1>0 DEF HandlerRecord
  <2> QED BY <2>1, <1>h DEF Hand, TypeOK
<1>r. Return(h) => handler' \in [Handlers -> HandlerRecord]
  BY <1>0 DEF Return, TypeOK
<1>4. CASE CheckService(h)
  BY <1>4, <1>g, <1>r DEF CheckService, TypeOK, policyVars, mapVars
<1>5. CASE UseFlow(h)
  <2>1. flows[handler[h].key] \in Sessions
    BY <1>5 DEF UseFlow, TypeOK, DialersHoldTheLock
  <2> QED BY <1>5, <2>1, <1>h DEF UseFlow, TypeOK, SessionRecord, policyVars, mapVars
<1>6. CASE Dial(h)
  BY <1>6, <1>g DEF Dial, TypeOK, policyVars
<1>7. CASE DialFails(h)
  BY <1>7, <1>r DEF DialFails, TypeOK, policyVars
<1>8. ASSUME NEW s \in Sessions, AddFlow(h, s) PROVE TypeOK'
  <2>1. NewSession(h) \in SessionRecord
    BY <1>0 DEF NewSession, SessionRecord, HandlerRecord
  <2>3. session' \in [Sessions -> SessionRecord]
    BY <1>8, <2>1 DEF AddFlow, TypeOK
  <2>4. handler' \in [Handlers -> HandlerRecord]
    BY <1>8, <1>h DEF AddFlow
  <2>5. /\ flows' \in [Keys -> Sessions \cup {None}]
        /\ table' \subseteq Sessions /\ mu' \in Handlers \cup {None}
        /\ straddle' \subseteq Handlers \cup Sessions
        /\ index' \subseteq Keys
        /\ endpoint' \in [Endpoints -> EndpointRecord]
        /\ reaper' \in [pc : {"idle", "reap", "close"}, dead : SUBSET Sessions]
    BY <1>8 DEF AddFlow, Opened, TypeOK, policyVars
  <2> QED BY <2>3, <2>4, <2>5 DEF TypeOK
<1>9. CASE Write(h)
  BY <1>9, <1>r DEF Write, TypeOK, policyVars, mapVars
<1> QED BY <1>4, <1>5, <1>6, <1>7, <1>8, <1>9 DEF HandlePacket

\* The pump's steps keep the types; removeFlow needs that the pump has a key.
LEMMA PumpStepTyped ==
    ASSUME TypeOK, PumpsOwnTheirSessions, NEW s \in Sessions, PumpReplies(s)
    PROVE  TypeOK'
<1> USE UdpConstants
<1>0. NoSession \in SessionRecord /\ \A t \in Sessions : session[t] \in SessionRecord
  BY DEF NoSession, SessionRecord, TypeOK
<1>p. ASSUME NEW pc \in {"loop", "read", "copy", "remove"}, Pump(s, pc)
      PROVE  session' \in [Sessions -> SessionRecord]
  BY <1>0, <1>p DEF Pump, TypeOK, SessionRecord
<1>1. CASE NextRead(s)
  BY <1>1, <1>p DEF NextRead, TypeOK, policyVars, mapVars, clientVars
<1>2. CASE Reply(s)
  BY <1>2, <1>p DEF Reply, TypeOK, policyVars, mapVars, clientVars
<1>3. CASE ReadFails(s)
  BY <1>3, <1>p DEF ReadFails, TypeOK, policyVars, mapVars, clientVars
<1>4. ASSUME RemoveFlow(s), session[s].key \in Keys PROVE TypeOK'
  <2> DEFINE x == [session[s] EXCEPT !.pump = "cleanup", !.victim = flows[session[s].key]]
  <2>1. x \in SessionRecord
    BY <1>0, <1>4 DEF SessionRecord, TypeOK
  <2>2. session' = [session EXCEPT ![s] = x]
    BY <1>4 DEF RemoveFlow, TypeOK
  <2>3. session' \in [Sessions -> SessionRecord]
    BY <2>1, <2>2 DEF TypeOK
  <2> QED BY <1>4, <2>3 DEF RemoveFlow, TypeOK, policyVars, clientVars
<1>5. CASE Cleanup(s)
  <2>1. \A t \in Sessions : /\ [session[t] EXCEPT !.pump = "none"] \in SessionRecord
                           /\ [session[t] EXCEPT !.open = FALSE, !.cancelled = TRUE] \in SessionRecord
    BY <1>0 DEF SessionRecord
  <2>2. session' \in [Sessions -> SessionRecord]
    BY <1>0, <1>5, <2>1 DEF Cleanup
  <2> QED BY <1>5, <2>2 DEF Cleanup, TypeOK, policyVars, mapVars, clientVars
<1>6. RemoveFlow(s) => session[s].key \in Keys
  BY DEF RemoveFlow, PumpsOwnTheirSessions, Running
<1>7. CASE WriteTo(s)
  BY <1>7, <1>p DEF WriteTo, TypeOK, policyVars, mapVars, clientVars
<1> QED BY <1>1, <1>2, <1>3, <1>4, <1>5, <1>6, <1>7 DEF PumpReplies, PumpRuns

\* So do the change listener's steps and the passing of time.
LEMMA ListenerStepTyped ==
    ASSUME TypeOK,
           \/ Listener \/ Tick
           \/ \E allowed \in SUBSET Keys : Publish(allowed)
    PROVE  TypeOK'
<1> USE UdpConstants
<1>0. \A t \in Sessions : session[t] \in SessionRecord
  BY DEF TypeOK
<1>1. ASSUME NEW allowed \in SUBSET Keys, Publish(allowed) PROVE TypeOK'
  BY <1>1 DEF Publish, TypeOK, mapVars, clientVars
<1>2. CASE Reap
  BY <1>2 DEF Reap, TypeOK, mapVars, clientVars
<1>3. ASSUME NEW s \in Sessions, CloseFlow(s) PROVE TypeOK'
  <2>1. session' \in [Sessions -> SessionRecord]
    <3> DEFINE x == [session[s] EXCEPT !.open = FALSE, !.cancelled = TRUE]
    <3>1. x \in SessionRecord
      BY <1>0 DEF SessionRecord
    <3>2. session' = session \/ session' = [session EXCEPT ![s] = x]
      BY <1>3 DEF CloseFlow, TypeOK
    <3> QED BY <3>1, <3>2 DEF TypeOK
  <2> QED BY <1>3, <2>1 DEF CloseFlow, TypeOK, mapVars, clientVars
<1>4. CASE Reaped
  BY <1>4 DEF Reaped, TypeOK, mapVars, clientVars
<1>5. CASE Tick
  <2>1. \A age \in 0 .. Timeout + 1 : Older(age) \in 0 .. Timeout + 1
    BY DEF Older
  <2>2. \A x \in SessionRecord : [x EXCEPT !.age = Older(@)] \in SessionRecord
    BY <2>1 DEF SessionRecord
  <2>3. \A x \in EndpointRecord : [x EXCEPT !.age = Nearer(@)] \in EndpointRecord
    BY DEF EndpointRecord, Nearer
  <2>4. session' \in [Sessions -> SessionRecord] /\ endpoint' \in [Endpoints -> EndpointRecord]
    BY <1>5, <2>2, <2>3 DEF Tick, TypeOK
  <2> QED BY <1>5, <2>4 DEF Tick, TypeOK, policyVars, mapVars, clientVars
<1> QED BY <1>1, <1>2, <1>3, <1>4, <1>5 DEF Listener

(***************************************************************************)
(* Most steps leave the sessions as they are but for the clocks, the       *)
(* endpoint, and the step of a running pump.                               *)
(***************************************************************************)
SameSessions ==
    /\ flows' = flows
    /\ \A s \in Sessions :
          /\ session'[s].key = session[s].key
          /\ session'[s].victim = session[s].victim
          /\ session'[s].open = session[s].open
          /\ session'[s].pump = session[s].pump
             \/ {session[s].pump, session'[s].pump} \subseteq {"loop", "read", "copy", "remove"}

\* Such a step keeps what is said of sessions alone.
LEMMA SameSessionsKeepOwners ==
    ASSUME TypeOK, PumpsOwnTheirSessions, SameSessions
    PROVE  PumpsOwnTheirSessions'
<1>1. \A s \in Sessions :
          /\ (session'[s].pump \in {"loop", "read", "copy", "remove"}) = Running(s)
          /\ (session'[s].pump = "cleanup") = (session[s].pump = "cleanup")
          /\ (session'[s].pump = "none") = (session[s].pump = "none")
  BY DEF SameSessions, Running
<1>2. \A k \in Keys : flows[k] \in Sessions \cup {None}
  BY DEF TypeOK
<1> QED BY <1>1, <1>2 DEF SameSessions, PumpsOwnTheirSessions, Running

\* Which steps are of that kind, and that all of them leave the flow table
\* alone.
LEMMA EndpointsKeepSessions ==
    ASSUME NEW e \in Endpoints, Client(e) \/ EndpointExpires(e)
    PROVE  SameSessions /\ UNCHANGED <<policyVars, mapVars, table, straddle>>
  BY DEF Client, OnUDP, ReadFrom, EndpointExpires, SameSessions, mapVars

LEMMA HandlersKeepSessions ==
    ASSUME TypeOK, NEW h \in Handlers,
           CheckService(h) \/ UseFlow(h) \/ Dial(h) \/ DialFails(h) \/ Write(h)
    PROVE  SameSessions /\ table' = table /\ reaper' = reaper /\ index' = index
<1>1. CASE UseFlow(h)
  BY <1>1 DEF UseFlow, SameSessions, TypeOK, SessionRecord, policyVars, mapVars
<1>2. CASE CheckService(h) \/ Dial(h) \/ DialFails(h) \/ Write(h)
  BY <1>2 DEF CheckService, Dial, DialFails, Write, SameSessions, policyVars, mapVars
<1> QED BY <1>1, <1>2

\* A pump that has not come to its end changes no session but for its step.
LEMMA PumpsKeepSessions ==
    ASSUME TypeOK, NEW s \in Sessions,
           NextRead(s) \/ Reply(s) \/ WriteTo(s) \/ ReadFails(s)
    PROVE  SameSessions /\ UNCHANGED <<policyVars, mu, table, clientVars, straddle>>
<1>1. ASSUME NEW pc \in {"loop", "read", "copy", "remove"}, Pump(s, pc), flows' = flows, Running(s)
      PROVE  SameSessions
  BY <1>1 DEF Pump, SameSessions, Running, TypeOK, SessionRecord
<1>2. CASE NextRead(s)
  BY <1>1, <1>2 DEF NextRead, Running, mapVars
<1>3. CASE Reply(s)
  BY <1>1, <1>3 DEF Reply, Running, mapVars
<1>4. CASE ReadFails(s)
  BY <1>1, <1>4 DEF ReadFails, Running, mapVars
<1>5. CASE WriteTo(s)
  BY <1>1, <1>5 DEF WriteTo, Running, mapVars
<1> QED BY <1>2, <1>3, <1>4, <1>5

\* Neither does time.
LEMMA TickKeepsSessions ==
    ASSUME TypeOK, Tick
    PROVE  SameSessions /\ UNCHANGED <<policyVars, mu, table, straddle>>
  BY DEF Tick, SameSessions, TypeOK, SessionRecord, mapVars

(***************************************************************************)
(* The other steps                                                         *)
(***************************************************************************)

\* A session is opened for a key that has none, on a socket nobody uses.
LEMMA AddFlowKeepsOwners ==
    ASSUME IInv, NEW h \in Handlers, NEW s \in Sessions, AddFlow(h, s)
    PROVE  PumpsOwnTheirSessions' /\ OpenSessionsAreRevocable'
<1> DEFINE k == handler[h].key
<1>1. k \in Keys /\ flows[k] = None
  BY DEF AddFlow, IInv, DialersHoldTheLock
<1>2. ~Running(s)
  BY DEF AddFlow, Unused, Running
<1>3. /\ flows' = [flows EXCEPT ![k] = s]
      /\ session' = [session EXCEPT ![s] = NewSession(h)]
      /\ table' = table \cup {s} /\ reaper' = reaper
  BY DEF AddFlow, policyVars
<1>4. /\ NewSession(h).key = k /\ NewSession(h).pump = "loop" /\ NewSession(h).open
  BY DEF NewSession
<1>5. /\ session'[s].key = k /\ session'[s].pump = "loop" /\ flows'[k] = s
      /\ \A t \in Sessions \ {s} : session'[t] = session[t]
      /\ \A l \in Keys \ {k} : flows'[l] = flows[l]
  BY <1>1, <1>3, <1>4 DEF IInv, TypeOK
<1> HIDE DEF k
<1>6. PumpsOwnTheirSessions'
  <2>1. \A l \in Keys \ {k} : flows[l] # s
    BY <1>2, UdpConstants DEF IInv, PumpsOwnTheirSessions
  <2>2. \A t \in Sessions \ {s} : Running(t) => session[t].key # k
    BY <1>1, UdpConstants DEF IInv, PumpsOwnTheirSessions
  <2>3. \A l \in Keys : flows[l] \in Sessions \cup {None}
    BY DEF IInv, TypeOK
  <2>4. s # None
    BY UdpConstants
  <2> QED BY <1>1, <1>5, <2>1, <2>2, <2>3, <2>4 DEF IInv, PumpsOwnTheirSessions, Running
<1>7. OpenSessionsAreRevocable'
  BY <1>3, <1>5 DEF IInv, OpenSessionsAreRevocable
<1> QED BY <1>6, <1>7

\* The pump takes its own session out, whatever it looks under.
LEMMA RemoveFlowKeepsOwners ==
    ASSUME IInv, NEW s \in Sessions, RemoveFlow(s)
    PROVE  PumpsOwnTheirSessions' /\ OpenSessionsAreRevocable'
<1> DEFINE k == session[s].key
<1>1. k \in Keys /\ flows[k] = s /\ Running(s) /\ s # None
  BY UdpConstants DEF RemoveFlow, IInv, PumpsOwnTheirSessions, Running
<1>2. /\ session'[s].pump = "cleanup" /\ session'[s].victim = s
      /\ session'[s].key = k /\ session'[s].open = session[s].open
      /\ \A t \in Sessions \ {s} : session'[t] = session[t]
      /\ flows'[k] = None /\ \A l \in Keys \ {k} : flows'[l] = flows[l]
  BY <1>1 DEF RemoveFlow, IInv, TypeOK, SessionRecord
<1>3. table' = table /\ reaper' = reaper
  BY DEF RemoveFlow, policyVars
<1> HIDE DEF k
<1>4. PumpsOwnTheirSessions'
  <2>1. \A l \in Keys \ {k} : flows[l] # s
    BY <1>1 DEF IInv, PumpsOwnTheirSessions, k
  <2>2. \A t \in Sessions \ {s} : Running(t) => session[t].key # k
    BY <1>1 DEF IInv, PumpsOwnTheirSessions
  <2>3. \A l \in Keys : flows[l] \in Sessions \cup {None}
    BY DEF IInv, TypeOK
  <2> QED BY <1>1, <1>2, <2>1, <2>2, <2>3 DEF IInv, PumpsOwnTheirSessions, Running
<1>5. OpenSessionsAreRevocable'
  BY <1>2, <1>3 DEF IInv, OpenSessionsAreRevocable
<1> QED BY <1>4, <1>5

\* ... closes it and leaves the flow table with it.
LEMMA CleanupKeepsOwners ==
    ASSUME IInv, NEW s \in Sessions, Cleanup(s)
    PROVE  PumpsOwnTheirSessions' /\ OpenSessionsAreRevocable'
<1>1. session[s].victim = s /\ ~Running(s)
  BY DEF Cleanup, IInv, PumpsOwnTheirSessions, Running
<1>2. /\ session'[s] = NoSession
      /\ \A t \in Sessions \ {s} : session'[t] = session[t]
      /\ flows' = flows /\ table' = table \ {s} /\ reaper' = reaper
  BY <1>1 DEF Cleanup, policyVars, mapVars
<1>3. NoSession.pump = "none" /\ NoSession.open = FALSE
  BY DEF NoSession
<1>4. PumpsOwnTheirSessions'
  <2>1. \A k \in Keys : flows[k] # s
    BY <1>1, UdpConstants DEF IInv, PumpsOwnTheirSessions
  <2>2. \A k \in Keys : flows[k] \in Sessions \cup {None}
    BY DEF IInv, TypeOK
  <2> QED BY <1>2, <1>3, <2>1, <2>2 DEF IInv, PumpsOwnTheirSessions, Running
<1>5. OpenSessionsAreRevocable'
  BY <1>2, <1>3 DEF IInv, OpenSessionsAreRevocable
<1> QED BY <1>4, <1>5

\* Reap only closes sockets.
LEMMA CloseFlowKeepsOwners ==
    ASSUME IInv, NEW s \in Sessions, CloseFlow(s)
    PROVE  PumpsOwnTheirSessions' /\ OpenSessionsAreRevocable'
<1>1. /\ flows' = flows /\ table' = table /\ reaper'.dead = reaper.dead \ {s}
  BY DEF CloseFlow, mapVars, IInv, TypeOK
<1>2. \A t \in Sessions :
          /\ session'[t].key = session[t].key /\ session'[t].pump = session[t].pump
          /\ session'[t].victim = session[t].victim
          /\ session'[t].open => session[t].open
  BY DEF CloseFlow, IInv, TypeOK, SessionRecord
<1>3. ~session'[s].open
  BY DEF CloseFlow, IInv, TypeOK, SessionRecord, PumpsOwnTheirSessions
<1>4. PumpsOwnTheirSessions'
  <2>2. \A k \in Keys : flows[k] \in Sessions \cup {None}
    BY DEF IInv, TypeOK
  <2> QED BY <1>1, <1>2, <2>2 DEF IInv, PumpsOwnTheirSessions, Running
<1>5. OpenSessionsAreRevocable'
  BY <1>1, <1>2, <1>3 DEF IInv, OpenSessionsAreRevocable
<1> QED BY <1>4, <1>5

(***************************************************************************)
(* The invariant                                                           *)
(***************************************************************************)

\* The proxy starts without sessions.
LEMMA InitInv == Init => IInv
<1> SUFFICES ASSUME Init PROVE IInv
  OBVIOUS
<1>1. TypeOK
  BY InitTyped
<1>2. \A s \in Sessions : session[s].pump = "none" /\ session[s].open = FALSE
  BY DEF Init, NoSession
<1>3. \A h \in Handlers : handler[h].pc = "none"
  BY DEF Init, NoHandler
<1> QED BY <1>1, <1>2, <1>3
        DEF Init, IInv, PumpsOwnTheirSessions, OpenSessionsAreRevocable, DialersHoldTheLock,
            ReaperOK, CheckedOrOvertaken, Running

\* Endpoints and the datagrams read from them: nothing the invariant speaks of
\* but the key of a new handler.
LEMMA EndpointStepInv ==
    ASSUME IInv, NEW e \in Endpoints, Client(e) \/ EndpointExpires(e)
    PROVE  IInv'
<1>0. TypeOK'
  BY EndpointStepTyped DEF IInv
<1>1. SameSessions /\ UNCHANGED <<policyVars, mapVars, table, straddle>>
  BY EndpointsKeepSessions
<1>2. PumpsOwnTheirSessions'
  BY <1>1, SameSessionsKeepOwners DEF IInv
<1>3. OpenSessionsAreRevocable' /\ ReaperOK'
  BY <1>1 DEF IInv, OpenSessionsAreRevocable, ReaperOK, SameSessions, policyVars
<1>4. \A h \in Handlers : \/ handler'[h] = handler[h]
                          \/ handler'[h].pc = "check" /\ handler'[h].key \in Keys
  BY DEF Client, OnUDP, ReadFrom, EndpointExpires, IInv, TypeOK, EndpointRecord
<1>5. DialersHoldTheLock'
  BY <1>1, <1>4 DEF IInv, DialersHoldTheLock, mapVars
<1>6. CheckedOrOvertaken'
  BY <1>1, <1>4 DEF IInv, CheckedOrOvertaken, SameSessions, policyVars
<1> QED BY <1>0, <1>2, <1>3, <1>5, <1>6 DEF IInv

\* A handler that dials holds the lock, so no other one does.
LEMMA HandlersKeepTheLock ==
    ASSUME IInv, NEW h \in Handlers, HandlePacket(h),
           ~ \E s \in Sessions : AddFlow(h, s)
    PROVE  DialersHoldTheLock'
<1>1. CheckService(h) \/ UseFlow(h) \/ Dial(h) \/ DialFails(h) \/ Write(h)
  BY DEF HandlePacket
<1>2. flows' = flows
  BY <1>1, HandlersKeepSessions DEF IInv, SameSessions
<1>3. /\ \A g \in Handlers \ {h} : handler'[g] = handler[g]
      /\ handler'[h].pc # "none" => handler'[h].key \in Keys
  BY <1>1 DEF IInv, DialersHoldTheLock, TypeOK, CheckService, UseFlow, Dial, DialFails, Write,
              Goto, Hand, Return, NoHandler, HandlerRecord
<1>4. CASE Dial(h)
  <2>1. /\ mu = None /\ mu' = h /\ handler'[h].key = handler[h].key
        /\ flows[handler[h].key] = None
    BY <1>4 DEF Dial, Goto, IInv, TypeOK, HandlerRecord
  <2>2. \A g \in Handlers : handler[g].pc # "dial"
    BY <2>1, UdpConstants DEF IInv, DialersHoldTheLock
  <2> QED BY <1>2, <1>3, <2>1, <2>2 DEF IInv, DialersHoldTheLock
<1>5. CASE DialFails(h)
  <2>1. mu = h /\ handler'[h].pc = "none"
    BY <1>5 DEF DialFails, Return, NoHandler, IInv, DialersHoldTheLock, TypeOK
  <2> QED BY <1>2, <1>3, <2>1 DEF IInv, DialersHoldTheLock
<1>6. CASE CheckService(h) \/ UseFlow(h) \/ Write(h)
  <2>1. mu' = mu /\ handler'[h].pc # "dial"
    BY <1>6 DEF IInv, TypeOK, HandlerRecord, CheckService, UseFlow, Write,
                Goto, Hand, Return, NoHandler, mapVars
  <2> QED BY <1>2, <1>3, <2>1 DEF IInv, DialersHoldTheLock
<1> QED BY <1>1, <1>4, <1>5, <1>6

\* HandlePacket: a session it opens is allowed or was overtaken like itself.
LEMMA HandlerStepInv ==
    ASSUME IInv, NEW h \in Handlers, HandlePacket(h)
    PROVE  IInv'
<1>0. TypeOK'
  BY HandlerStepTyped DEF IInv
<1>1. CASE \E s \in Sessions : AddFlow(h, s)
  <2> PICK s \in Sessions : AddFlow(h, s)
    BY <1>1
  <2>1. PumpsOwnTheirSessions' /\ OpenSessionsAreRevocable'
    BY AddFlowKeepsOwners
  <2>2. /\ \A g \in Handlers \ {h} : handler'[g] = handler[g]
        /\ handler'[h].pc = "write" /\ handler'[h].key = handler[h].key
    BY DEF AddFlow, Hand, IInv, TypeOK, HandlerRecord
  <2>3. handler[h].pc = "dial" /\ handler[h].key \in Keys /\ mu = h
    BY DEF AddFlow, IInv, DialersHoldTheLock
  <2>4. DialersHoldTheLock'
    BY <2>2, <2>3 DEF IInv, DialersHoldTheLock
  <2>5. ReaperOK'
    BY DEF AddFlow, IInv, ReaperOK, policyVars
  <2>6. CheckedOrOvertaken'
    <3>1. /\ index' = index /\ reaper' = reaper
          /\ \A t \in Sessions \ {s} : session'[t] = session[t]
          /\ session'[s].key = handler[h].key
      BY DEF AddFlow, NewSession, policyVars, IInv, TypeOK
    <3>2. /\ \A x : x \in straddle /\ x # h => x \in straddle'
          /\ h \in straddle => s \in straddle'
      BY DEF AddFlow, Opened
    <3>3. handler[h].key \in index \/ h \in straddle
      BY <2>3 DEF IInv, CheckedOrOvertaken
    <3>4. \A g \in Handlers : handler'[g].pc \in {"lock", "dial"} =>
              handler'[g].key \in index' \/ g \in straddle'
      BY <2>2, <3>1, <3>2 DEF IInv, CheckedOrOvertaken
    <3>5. ASSUME reaper'.pc # "reap", NEW t \in Sessions, session'[t].open
          PROVE  session'[t].key \in index' \/ t \in straddle' \/ t \in reaper'.dead
      <4>1. CASE t = s
        BY <3>1, <3>2, <3>3, <4>1
      <4>2. CASE t # s
        BY <3>1, <3>2, <3>5, <4>2, SessionsAreNoHandlers DEF IInv, CheckedOrOvertaken
      <4> QED BY <4>1, <4>2
    <3> QED BY <3>4, <3>5 DEF CheckedOrOvertaken
  <2> QED BY <1>0, <2>1, <2>4, <2>5, <2>6 DEF IInv
<1>2. CASE ~ \E s \in Sessions : AddFlow(h, s)
  <2>1. CheckService(h) \/ UseFlow(h) \/ Dial(h) \/ DialFails(h) \/ Write(h)
    BY <1>2 DEF HandlePacket
  <2>2. SameSessions /\ table' = table /\ reaper' = reaper /\ index' = index
    BY <2>1, HandlersKeepSessions DEF IInv
  <2>3. PumpsOwnTheirSessions'
    BY <2>2, SameSessionsKeepOwners DEF IInv
  <2>4. OpenSessionsAreRevocable' /\ ReaperOK'
    BY <2>2 DEF IInv, OpenSessionsAreRevocable, ReaperOK, SameSessions
  <2>5. DialersHoldTheLock'
    BY <1>2, HandlersKeepTheLock
  <2>6. /\ \A g \in Handlers \ {h} : handler'[g] = handler[g]
        /\ handler'[h].pc \in {"lock", "dial"} =>
               /\ handler'[h].key = handler[h].key
               /\ handler[h].key \in index \/ (handler[h].pc = "lock" /\ straddle' = straddle)
        /\ \A x : x # h => (x \in straddle' <=> x \in straddle)
    BY <2>1 DEF IInv, TypeOK, HandlerRecord, CheckService, UseFlow, Dial, DialFails, Write,
                Goto, Hand, Return, NoHandler
  <2>7. CheckedOrOvertaken'
    <3>1. \A g \in Handlers : handler'[g].pc \in {"lock", "dial"} =>
              handler'[g].key \in index' \/ g \in straddle'
      BY <2>2, <2>6 DEF IInv, CheckedOrOvertaken
    <3>2. \A t \in Sessions : t \in straddle' <=> t \in straddle
      BY <2>6, SessionsAreNoHandlers
    <3>3. reaper'.pc # "reap" => \A t \in Sessions : session'[t].open =>
              session'[t].key \in index' \/ t \in straddle' \/ t \in reaper'.dead
      BY <2>2, <3>2 DEF IInv, CheckedOrOvertaken, SameSessions
    <3> QED BY <3>1, <3>3 DEF CheckedOrOvertaken
  <2> QED BY <1>0, <2>3, <2>4, <2>5, <2>7 DEF IInv
<1> QED BY <1>1, <1>2

\* A step of the pumps, the listener or the clock leaves the handlers alone but
\* for the sessions of keys.
LEMMA DialersKept ==
    ASSUME DialersHoldTheLock, mu' = mu, handler' = handler,
           \A k \in Keys : flows[k] = None => flows'[k] = None
    PROVE  DialersHoldTheLock'
  BY DEF DialersHoldTheLock

\* So does the verdict, when neither the index nor the history changes.
LEMMA VerdictsKept ==
    ASSUME CheckedOrOvertaken, index' = index, reaper' = reaper, handler' = handler,
           \A x \in Handlers : x \in straddle => x \in straddle',
           \A s \in Sessions : session'[s].open => /\ session[s].open
                                                   /\ session'[s].key = session[s].key
                                                   /\ s \in straddle => s \in straddle'
    PROVE  CheckedOrOvertaken'
  BY DEF CheckedOrOvertaken

\* The steps of pumpReplies and removeFlow keep the invariant.
LEMMA PumpStepInv ==
    ASSUME IInv, NEW s \in Sessions, PumpReplies(s)
    PROVE  IInv'
<1>0. TypeOK'
  BY PumpStepTyped DEF IInv
<1>1. CASE NextRead(s) \/ Reply(s) \/ WriteTo(s) \/ ReadFails(s)
  <2>1. SameSessions /\ UNCHANGED <<policyVars, mu, table, clientVars, straddle>>
    BY <1>1, PumpsKeepSessions DEF IInv
  <2>2. PumpsOwnTheirSessions'
    BY <2>1, SameSessionsKeepOwners DEF IInv
  <2>3. OpenSessionsAreRevocable'
    BY <2>1 DEF IInv, OpenSessionsAreRevocable, SameSessions, policyVars
  <2>4. DialersHoldTheLock' /\ ReaperOK'
    BY <2>1, DialersKept DEF IInv, ReaperOK, SameSessions, policyVars, clientVars
  <2>5. CheckedOrOvertaken'
    BY <2>1, VerdictsKept DEF IInv, SameSessions, policyVars, clientVars
  <2> QED BY <1>0, <2>2, <2>3, <2>4, <2>5 DEF IInv
<1>2. CASE RemoveFlow(s)
  <2>1. PumpsOwnTheirSessions' /\ OpenSessionsAreRevocable'
    BY <1>2, RemoveFlowKeepsOwners
  <2>2. /\ UNCHANGED <<policyVars, mu, clientVars, straddle>>
        /\ \A k \in Keys : flows[k] = None => flows'[k] = None
    BY <1>2 DEF RemoveFlow, IInv, TypeOK
  <2>3. \A t \in Sessions : session'[t].open = session[t].open /\ session'[t].key = session[t].key
    BY <1>2 DEF RemoveFlow, IInv, TypeOK, SessionRecord
  <2>4. DialersHoldTheLock' /\ ReaperOK'
    BY <2>2, DialersKept DEF IInv, ReaperOK, policyVars, clientVars
  <2>5. CheckedOrOvertaken'
    BY <2>2, <2>3, VerdictsKept DEF IInv, policyVars, clientVars
  <2> QED BY <1>0, <2>1, <2>4, <2>5 DEF IInv
<1>3. CASE Cleanup(s)
  <2>1. PumpsOwnTheirSessions' /\ OpenSessionsAreRevocable'
    BY <1>3, CleanupKeepsOwners
  <2>2. /\ UNCHANGED <<policyVars, mapVars, clientVars>>
        /\ straddle' = straddle \ {s}
    BY <1>3 DEF Cleanup
  <2>3. /\ ~session'[s].open
        /\ \A t \in Sessions \ {s} : session'[t] = session[t]
    BY <1>3 DEF Cleanup, IInv, PumpsOwnTheirSessions, NoSession
  <2>4. DialersHoldTheLock' /\ ReaperOK'
    BY <2>2, DialersKept DEF IInv, ReaperOK, policyVars, mapVars, clientVars
  <2>5. CheckedOrOvertaken'
    BY <2>2, <2>3, VerdictsKept, SessionsAreNoHandlers DEF IInv, policyVars, clientVars
  <2> QED BY <1>0, <2>1, <2>4, <2>5 DEF IInv
<1> QED BY <1>1, <1>2, <1>3 DEF PumpReplies, PumpRuns

\* The change listener's steps keep it, a publication included.
LEMMA ListenerStepInv ==
    ASSUME IInv,
           \/ Listener \/ Tick
           \/ \E allowed \in SUBSET Keys : Publish(allowed)
    PROVE  IInv'
<1>0. TypeOK'
  BY ListenerStepTyped DEF IInv
<1>1. ASSUME NEW allowed \in SUBSET Keys, Publish(allowed) PROVE IInv'
  <2>1. UNCHANGED <<mapVars, clientVars, table, session>> /\ reaper'.pc = "reap"
    BY <1>1 DEF Publish, IInv, TypeOK
  <2>2. reaper.dead = {} /\ reaper'.dead = {}
    BY <1>1 DEF Publish, IInv, ReaperOK, TypeOK
  <2>3. PumpsOwnTheirSessions' /\ OpenSessionsAreRevocable'
    BY <2>1, <2>2 DEF IInv, PumpsOwnTheirSessions, OpenSessionsAreRevocable, Running, mapVars
  <2>4. DialersHoldTheLock' /\ ReaperOK'
    BY <2>1, <2>2 DEF IInv, DialersHoldTheLock, ReaperOK, mapVars, clientVars
  <2>5. CheckedOrOvertaken'
    BY <1>1, <2>1 DEF Publish, CheckedOrOvertaken, clientVars
  <2> QED BY <1>0, <2>3, <2>4, <2>5 DEF IInv
<1>2. CASE Reap
  <2> DEFINE dead == {s \in table : session[s].key \notin index}
  <2>1. UNCHANGED <<index, mapVars, clientVars, session, straddle>>
    BY <1>2 DEF Reap
  <2>2. table' = table \ dead /\ reaper'.pc = "close" /\ reaper'.dead = dead
    BY <1>2 DEF Reap
  <2>3. reaper.dead = {}
    BY <1>2 DEF Reap, IInv, ReaperOK
  <2>4. PumpsOwnTheirSessions' /\ OpenSessionsAreRevocable'
    BY <2>1, <2>2, <2>3 DEF IInv, PumpsOwnTheirSessions, OpenSessionsAreRevocable, Running, mapVars
  <2>5. DialersHoldTheLock' /\ ReaperOK'
    BY <2>1, <2>2 DEF IInv, DialersHoldTheLock, ReaperOK, mapVars, clientVars
  <2>6. CheckedOrOvertaken'
    BY <2>1, <2>2, <2>3 DEF IInv, CheckedOrOvertaken, OpenSessionsAreRevocable, clientVars
  <2> QED BY <1>0, <2>4, <2>5, <2>6 DEF IInv
<1>3. ASSUME NEW s \in Sessions, CloseFlow(s) PROVE IInv'
  <2>1. PumpsOwnTheirSessions' /\ OpenSessionsAreRevocable'
    BY <1>3, CloseFlowKeepsOwners
  <2>2. /\ UNCHANGED <<index, mapVars, clientVars, table, straddle>>
        /\ reaper'.pc = reaper.pc /\ reaper'.dead = reaper.dead \ {s} /\ s \in reaper.dead
    BY <1>3 DEF CloseFlow, IInv, TypeOK
  <2>3. /\ ~session'[s].open
        /\ \A t \in Sessions \ {s} : session'[t] = session[t]
    BY <1>3 DEF CloseFlow, IInv, TypeOK, SessionRecord, PumpsOwnTheirSessions
  <2>4. DialersHoldTheLock' /\ ReaperOK'
    BY <2>2 DEF IInv, DialersHoldTheLock, ReaperOK, mapVars, clientVars
  <2>5. CheckedOrOvertaken'
    BY <2>2, <2>3 DEF IInv, CheckedOrOvertaken, clientVars
  <2> QED BY <1>0, <2>1, <2>4, <2>5 DEF IInv
<1>4. CASE Reaped
  <2>1. /\ UNCHANGED <<index, mapVars, clientVars, table, session, straddle>>
        /\ reaper.pc = "close" /\ reaper'.pc = "idle" /\ reaper.dead = {} /\ reaper'.dead = {}
    BY <1>4 DEF Reaped, IInv, TypeOK
  <2> QED BY <1>0, <2>1
          DEF IInv, PumpsOwnTheirSessions, OpenSessionsAreRevocable, DialersHoldTheLock,
              ReaperOK, CheckedOrOvertaken, Running, mapVars, clientVars
<1>5. CASE Tick
  <2>1. SameSessions /\ UNCHANGED <<policyVars, mu, table, straddle>>
    BY <1>5, TickKeepsSessions DEF IInv
  <2>2. handler' = handler
    BY <1>5 DEF Tick
  <2>3. PumpsOwnTheirSessions'
    BY <2>1, SameSessionsKeepOwners DEF IInv
  <2>4. OpenSessionsAreRevocable'
    BY <2>1 DEF IInv, OpenSessionsAreRevocable, SameSessions, policyVars
  <2>5. DialersHoldTheLock' /\ ReaperOK'
    BY <2>1, <2>2, DialersKept DEF IInv, ReaperOK, SameSessions, policyVars, clientVars
  <2>6. CheckedOrOvertaken'
    BY <2>1, <2>2, VerdictsKept DEF IInv, SameSessions, policyVars, clientVars
  <2> QED BY <1>0, <2>3, <2>4, <2>5, <2>6 DEF IInv
<1> QED BY <1>1, <1>2, <1>3, <1>4, <1>5 DEF Listener

\* Every step keeps it.
LEMMA StepInv == IInv /\ [Next]_vars => IInv'
<1> SUFFICES ASSUME IInv, [Next]_vars PROVE IInv'
  OBVIOUS
<1>0. ASSUME NEW e \in Endpoints, Client(e) \/ EndpointExpires(e) PROVE IInv'
  BY <1>0, EndpointStepInv
<1>1. ASSUME NEW h \in Handlers, HandlePacket(h) PROVE IInv'
  BY <1>1, HandlerStepInv
<1>2. ASSUME NEW s \in Sessions, PumpReplies(s) PROVE IInv'
  BY <1>2, PumpStepInv
<1>3. CASE Listener \/ Tick \/ \E allowed \in SUBSET Keys : Publish(allowed)
  BY <1>3, ListenerStepInv
<1>4. CASE UNCHANGED vars
  BY <1>4 DEF vars, policyVars, mapVars, clientVars, IInv, TypeOK, PumpsOwnTheirSessions, Running,
              OpenSessionsAreRevocable, DialersHoldTheLock, ReaperOK, CheckedOrOvertaken
<1> QED BY <1>0, <1>1, <1>2, <1>3, <1>4 DEF Next

\* Every pump owns the session it will remove, and no session is without its
\* pump: removeFlow, which goes by the key alone, never takes out a stranger.
THEOREM UdpPumpsOwnTheirSessions == Spec => []PumpsOwnTheirSessions
<1>1. IInv => PumpsOwnTheirSessions
  BY DEF IInv
<1> QED BY <1>1, InitInv, StepInv, PTL DEF Spec

\* A revocation finds every open session.
THEOREM UdpOpenSessionsAreRevocable == Spec => []OpenSessionsAreRevocable
<1>1. IInv => OpenSessionsAreRevocable
  BY DEF IInv
<1> QED BY <1>1, InitInv, StepInv, PTL DEF Spec

\* What a revocation leaves open is what it overtook between check and dial.
THEOREM UdpOnlyStraddlersSurvive == Spec => []OnlyStraddlersSurvive
<1>1. IInv => OnlyStraddlersSurvive
  BY DEF IInv, CheckedOrOvertaken, ReaperOK, OnlyStraddlersSurvive
<1> QED BY <1>1, InitInv, StepInv, PTL DEF Spec
=============================================================================
