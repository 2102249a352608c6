------------------------------ MODULE UdpProxy ------------------------------
(***************************************************************************)
(* daemon/proxy/udp.go behind daemon/wg/wildcard.go and                    *)
(* daemon/runtime/listeners.go.  A key is the address pair of a client and *)
(* a VIP, with ports.  Per key there is at most one netstack endpoint,     *)
(* whose goroutine (serveUDPConn) reads the client's datagrams; acceptUDP  *)
(* hands each datagram to a HandlePacket in a goroutine of its own, so     *)
(* those of one key run side by side and may outlive the endpoint.  Per    *)
(* key there is at most one session: a socket to the backend, a goroutine  *)
(* (pumpReplies) that copies what the backend sends to the endpoint of the *)
(* datagram that opened the session, and a row of the flow table.          *)
(* Endpoint and session expire independently, after the same time.         *)
(*                                                                         *)
(* What Policy decides on is reduced to the set of keys the published      *)
(* index allows; one change listener runs at a time (Gateway has the       *)
(* listeners side by side).  A flow is named by its session.               *)
(***************************************************************************)
EXTENDS Naturals

CONSTANTS
    Keys,       \* udpKey: source address and port, VIP and port
    Endpoints,  \* netstack endpoints read from or still referred to at a time
    Handlers,   \* datagrams in a HandlePacket at a time
    Sessions,   \* backend sockets alive at a time
    None,       \* no endpoint, no session, the lock is free
    Timeout     \* IdleTimeout and the idle time of serveUDPConn, in ticks

ASSUME UdpConstants ==
    /\ Timeout \in Nat
    /\ None \notin Endpoints \cup Handlers \cup Sessions \cup Keys
    /\ Sessions \cap Handlers = {}

VARIABLES
    index,     \* keys the published index allows
    reaper,    \* the change listener: its step, the flows it has yet to close
    table,     \* sessions in the flow table
    mu,        \* the handler that dials under UDPHandler.mu
    flows,     \* UDPHandler.flows: the session of each key
    session,   \* per session: key, inbound, open, cancelled, pump, victim, age
    endpoint,  \* per endpoint: its key, how long it has been read from in vain
    handler,   \* per datagram: step of its goroutine, key, inbound, session
    straddle   \* history: what was allowed by an index since replaced

policyVars == <<index, reaper>>
mapVars == <<mu, flows>>
clientVars == <<endpoint, handler>>
vars == <<policyVars, mapVars, clientVars, table, session, straddle>>

NoSession == [key |-> None, inbound |-> None, open |-> FALSE, cancelled |-> FALSE,
              pump |-> "none", victim |-> None, age |-> 0]
NoEndpoint == [key |-> None, age |-> 0]
NoHandler == [pc |-> "none", key |-> None, inbound |-> None, to |-> None]

SessionRecord ==
    [key : Keys \cup {None}, inbound : Endpoints \cup {None},
     open : BOOLEAN, cancelled : BOOLEAN,
     pump : {"none", "loop", "read", "copy", "remove", "cleanup"},
     victim : Sessions \cup {None}, age : 0 .. Timeout + 1]
EndpointRecord == [key : Keys \cup {None}, age : 0 .. Timeout]
HandlerRecord ==
    [pc : {"none", "check", "lock", "dial", "write"}, key : Keys \cup {None},
     inbound : Endpoints \cup {None}, to : Sessions \cup {None}]

TypeOK ==
    /\ index \subseteq Keys
    /\ reaper \in [pc : {"idle", "reap", "close"}, dead : SUBSET Sessions]
    /\ table \subseteq Sessions
    /\ mu \in Handlers \cup {None}
    /\ flows \in [Keys -> Sessions \cup {None}]
    /\ session \in [Sessions -> SessionRecord]
    /\ endpoint \in [Endpoints -> EndpointRecord]
    /\ handler \in [Handlers -> HandlerRecord]
    /\ straddle \subseteq Handlers \cup Sessions

Init ==
    /\ index \in SUBSET Keys
    /\ reaper = [pc |-> "idle", dead |-> {}]
    /\ table = {}
    /\ mu = None
    /\ flows = [k \in Keys |-> None]
    /\ session = [s \in Sessions |-> NoSession]
    /\ endpoint = [e \in Endpoints |-> NoEndpoint]
    /\ handler = [h \in Handlers |-> NoHandler]
    /\ straddle = {}

-----------------------------------------------------------------------------
(* The client's side: onUDP, serveUDPConn                                    *)

Free(e) ==
    /\ endpoint[e].key = None
    /\ \A h \in Handlers : handler[h].inbound # e
    /\ \A s \in Sessions : session[s].inbound # e

\* onUDP: a first datagram, or the first one since the endpoint expired.  It
\* waits in the new endpoint.
OnUDP(e, k) ==
    /\ Free(e)
    /\ \A f \in Endpoints : endpoint[f].key # k
    /\ k \in index
    /\ endpoint' = [endpoint EXCEPT ![e].key = k]
    /\ UNCHANGED <<policyVars, mapVars, handler, table, session, straddle>>

\* A datagram is read and acceptUDP starts a goroutine for it; serveUDPConn
\* goes straight back to reading, with its deadline set anew.
ReadFrom(e, h) ==
    /\ endpoint[e].key # None /\ handler[h].pc = "none"
    /\ handler' = [handler EXCEPT ![h] =
                      [pc |-> "check", key |-> endpoint[e].key, inbound |-> e, to |-> None]]
    /\ endpoint' = [endpoint EXCEPT ![e].age = 0]
    /\ UNCHANGED <<policyVars, mapVars, table, session, straddle>>

\* The read deadline passes: serveUDPConn returns and closes the endpoint,
\* whatever its datagrams are doing.  Handlers and sessions of it keep the
\* closed endpoint.
EndpointExpires(e) ==
    /\ endpoint[e].key # None /\ endpoint[e].age = Timeout
    /\ endpoint' = [endpoint EXCEPT ![e] = NoEndpoint]
    /\ UNCHANGED <<policyVars, mapVars, handler, table, session, straddle>>

-----------------------------------------------------------------------------
(* HandlePacket, one goroutine per datagram                                 *)

Goto(h, pc) == handler' = [handler EXCEPT ![h].pc = pc]
Hand(h, s) == handler' = [handler EXCEPT ![h].pc = "write", ![h].to = s]
Return(h) == handler' = [handler EXCEPT ![h] = NoHandler]

\* Every datagram is checked, against the index of that moment.
CheckService(h) ==
    /\ handler[h].pc = "check"
    /\ IF handler[h].key \in index THEN Goto(h, "lock") ELSE Return(h)
    /\ UNCHANGED <<policyVars, mapVars, endpoint, table, session, straddle>>

\* Under the lock: a session of the key is used as it is.
UseFlow(h) ==
    /\ handler[h].pc = "lock" /\ mu = None
    /\ LET s == flows[handler[h].key]
       IN  /\ s # None
           /\ session' = [session EXCEPT ![s].age = 0]
           /\ Hand(h, s)
    /\ straddle' = straddle \ {h}
    /\ UNCHANGED <<policyVars, mapVars, endpoint, table>>

\* Mutant of Dial: the lock is not held while the backend is dialled.
DialUnlocked(h) ==
    /\ handler[h].pc = "lock" /\ mu = None
    /\ flows[handler[h].key] = None
    /\ Goto(h, "dial")
    /\ UNCHANGED <<policyVars, mapVars, endpoint, table, session, straddle>>

\* Otherwise the backend is resolved and dialled with the lock held.
Dial(h) ==
    /\ handler[h].pc = "lock" /\ mu = None
    /\ flows[handler[h].key] = None
    /\ mu' = h
    /\ Goto(h, "dial")
    /\ UNCHANGED <<policyVars, flows, endpoint, table, session, straddle>>

DialFails(h) ==
    /\ handler[h].pc = "dial"
    /\ mu' = None
    /\ Return(h)
    /\ straddle' = straddle \ {h}
    /\ UNCHANGED <<policyVars, flows, endpoint, table, session>>

Unused(s) ==
    /\ session[s].pump = "none" /\ ~session[s].open
    /\ s \notin table \cup reaper.dead
    /\ \A h \in Handlers : handler[h].to # s

\* inbound is the datagram's endpoint, which may have been closed by now.
NewSession(h) ==
    [key |-> handler[h].key, inbound |-> handler[h].inbound, open |-> TRUE,
     cancelled |-> FALSE, pump |-> "loop", victim |-> None, age |-> 0]

Opened(h, s) == IF h \in straddle THEN (straddle \ {h}) \cup {s} ELSE straddle

\* Mutant of AddFlow: the flow is not put into the flow table.
AddUntracked(h, s) ==
    /\ handler[h].pc = "dial" /\ Unused(s)
    /\ session' = [session EXCEPT ![s] = NewSession(h)]
    /\ flows' = [flows EXCEPT ![handler[h].key] = s]
    /\ mu' = None
    /\ Hand(h, s)
    /\ straddle' = Opened(h, s)
    /\ UNCHANGED <<policyVars, endpoint, table>>

\* Flows.Add, the entry under the key, and the goroutine of the pump, all
\* before the lock is released.
AddFlow(h, s) ==
    /\ handler[h].pc = "dial" /\ Unused(s)
    /\ session' = [session EXCEPT ![s] = NewSession(h)]
    /\ flows' = [flows EXCEPT ![handler[h].key] = s]
    /\ table' = table \cup {s}
    /\ mu' = None
    /\ Hand(h, s)
    /\ straddle' = Opened(h, s)
    /\ UNCHANGED <<policyVars, endpoint>>

\* flow.out.Write, after the lock: a closed socket refuses and nobody is told.
Write(h) ==
    /\ handler[h].pc = "write"
    /\ Return(h)
    /\ UNCHANGED <<policyVars, mapVars, endpoint, table, session, straddle>>

-----------------------------------------------------------------------------
(* The backend's side: pumpReplies, removeFlow                              *)

Pump(s, pc) == session' = [session EXCEPT ![s].pump = pc]

\* The context, then the session of the key, then a read with a deadline.
NextRead(s) ==
    /\ session[s].pump = "loop"
    /\ \/ session[s].cancelled /\ Pump(s, "remove")
       \/ /\ ~session[s].cancelled /\ mu = None
          /\ Pump(s, IF flows[session[s].key] = None THEN "remove" ELSE "read")
    /\ UNCHANGED <<policyVars, mapVars, table, clientVars, straddle>>

\* A datagram of the backend ...
Reply(s) ==
    /\ session[s].pump = "read" /\ session[s].open
    /\ Pump(s, "copy")
    /\ UNCHANGED <<policyVars, mapVars, table, clientVars, straddle>>

\* ... goes to the session's endpoint; when that one has been closed the error
\* is ignored.
WriteTo(s) ==
    /\ session[s].pump = "copy"
    /\ Pump(s, "loop")
    /\ UNCHANGED <<policyVars, mapVars, table, clientVars, straddle>>

\* Mutant of ReadFails: lastSeen is never looked at.
ReadOn(s) ==
    /\ session[s].pump = "read"
    /\ Pump(s, IF session[s].cancelled THEN "remove" ELSE "loop")
    /\ UNCHANGED <<policyVars, mapVars, table, clientVars, straddle>>

\* The read fails: a closed socket, the deadline, an ICMP error.  Time is
\* counted in ticks, so at exactly Timeout either answer is possible.
ReadFails(s) ==
    /\ session[s].pump = "read"
    /\ \/ session[s].cancelled /\ Pump(s, "remove")
       \/ /\ ~session[s].cancelled /\ mu = None
          /\ \/ session[s].age >= Timeout /\ Pump(s, "remove")
             \/ session[s].age <= Timeout /\ Pump(s, "loop")
    /\ UNCHANGED <<policyVars, mapVars, table, clientVars, straddle>>

\* removeFlow, under the lock: whatever session the key has is taken out.
RemoveFlow(s) ==
    /\ session[s].pump = "remove" /\ mu = None
    /\ session' = [session EXCEPT ![s].pump = "cleanup", ![s].victim = flows[session[s].key]]
    /\ flows' = [flows EXCEPT ![session[s].key] = None]
    /\ UNCHANGED <<policyVars, mu, table, clientVars, straddle>>

\* ... then, after the lock, cancelled, closed and removed from the flow table.
Cleanup(s) ==
    /\ session[s].pump = "cleanup"
    /\ LET v == session[s].victim
       IN  /\ session' = [t \in Sessions |->
                  IF t = s THEN (IF v = s THEN NoSession ELSE [session[s] EXCEPT !.pump = "none"])
                  ELSE IF t = v THEN [session[t] EXCEPT !.open = FALSE, !.cancelled = TRUE]
                  ELSE session[t]]
           /\ table' = table \ {v}
    /\ straddle' = straddle \ {s}
    /\ UNCHANGED <<policyVars, mapVars, clientVars>>

-----------------------------------------------------------------------------
(* The change listener: holder.Store, then FlowTable.Reap                   *)

Publish(allowed) ==
    /\ reaper.pc = "idle"
    /\ index' = allowed
    /\ reaper' = [reaper EXCEPT !.pc = "reap"]
    /\ straddle' = straddle \cup {h \in Handlers : handler[h].pc \in {"lock", "dial"}}
    /\ UNCHANGED <<mapVars, clientVars, table, session>>

Reap ==
    /\ reaper.pc = "reap"
    /\ LET dead == {s \in table : session[s].key \notin index}
       IN  /\ table' = table \ dead
           /\ reaper' = [pc |-> "close", dead |-> dead]
    /\ UNCHANGED <<index, mapVars, clientVars, session, straddle>>

\* Mutants of CloseFlow: the context is cancelled and the socket stays open; the
\* socket is closed and the context not cancelled.
CancelOnly(s) ==
    /\ s \in reaper.dead
    /\ session' = [session EXCEPT ![s].cancelled = TRUE]
    /\ reaper' = [reaper EXCEPT !.dead = @ \ {s}]
    /\ UNCHANGED <<index, mapVars, table, clientVars, straddle>>
CloseOnly(s) ==
    /\ s \in reaper.dead
    /\ session' = [session EXCEPT ![s].open = FALSE]
    /\ reaper' = [reaper EXCEPT !.dead = @ \ {s}]
    /\ UNCHANGED <<index, mapVars, table, clientVars, straddle>>

\* Flow.Close: the pump is cancelled and its socket closed; the entry of the
\* session is left to the pump.
CloseFlow(s) ==
    /\ s \in reaper.dead
    /\ session' = IF session[s].pump = "none" THEN session
                  ELSE [session EXCEPT ![s].open = FALSE, ![s].cancelled = TRUE]
    /\ reaper' = [reaper EXCEPT !.dead = @ \ {s}]
    /\ UNCHANGED <<index, mapVars, table, clientVars, straddle>>

Reaped ==
    /\ reaper.pc = "close" /\ reaper.dead = {}
    /\ reaper' = [reaper EXCEPT !.pc = "idle"]
    /\ UNCHANGED <<index, mapVars, table, session, clientVars, straddle>>

-----------------------------------------------------------------------------
\* Time passes for whoever waits; past Timeout it makes no difference, and a
\* deadline has passed when Timeout is reached.
Older(age) == IF age > Timeout THEN age ELSE age + 1
Nearer(age) == IF age < Timeout THEN age + 1 ELSE age
Tick ==
    /\ endpoint' = [e \in Endpoints |->
           IF endpoint[e].key # None THEN [endpoint[e] EXCEPT !.age = Nearer(@)]
                                     ELSE endpoint[e]]
    /\ session' = [s \in Sessions |->
           IF session[s].pump \in {"loop", "read", "copy"} THEN [session[s] EXCEPT !.age = Older(@)]
                                                   ELSE session[s]]
    /\ UNCHANGED <<policyVars, mapVars, handler, table, straddle>>

Client(e) ==
    \/ \E k \in Keys : OnUDP(e, k)
    \/ \E h \in Handlers : ReadFrom(e, h)
HandlePacket(h) ==
    \/ CheckService(h) \/ UseFlow(h) \/ Dial(h) \/ DialFails(h) \/ Write(h)
    \/ \E s \in Sessions : AddFlow(h, s)
PumpRuns(s) ==
    NextRead(s) \/ WriteTo(s) \/ ReadFails(s) \/ RemoveFlow(s) \/ Cleanup(s)
PumpReplies(s) == PumpRuns(s) \/ Reply(s)
Listener ==
    \/ Reap \/ Reaped
    \/ \E s \in Sessions : CloseFlow(s)

Next ==
    \/ \E e \in Endpoints : Client(e) \/ EndpointExpires(e)
    \/ \E h \in Handlers : HandlePacket(h)
    \/ \E s \in Sessions : PumpReplies(s)
    \/ \E allowed \in SUBSET Keys : Publish(allowed)
    \/ Listener
    \/ Tick

\* Goroutines run, dials and reads with a deadline end, time passes.  A pump that
\* waits for the mutex gets it in the end although others take it again and
\* again (sync.Mutex does not starve a waiter): strong fairness.  No client,
\* backend or administrator has to do anything.
Fairness ==
    /\ WF_vars(Tick) /\ WF_vars(Listener)
    /\ \A h \in Handlers : WF_vars(HandlePacket(h))
    /\ \A s \in Sessions : SF_vars(PumpRuns(s))

Spec == Init /\ [][Next]_vars /\ Fairness

-----------------------------------------------------------------------------
(* What the proxy promises                                                  *)

\* removeFlow takes out whatever session it finds under the key, and Reap
\* leaves closed sessions there: still every pump finds its own session, every
\* session in the map has its pump, and no socket is open without one.
Running(s) == session[s].pump \in {"loop", "read", "copy", "remove"}
PumpsOwnTheirSessions ==
    /\ \A s \in Sessions :
          /\ Running(s) => session[s].key \in Keys /\ flows[session[s].key] = s
          /\ session[s].pump = "cleanup" => session[s].victim = s
          /\ session[s].open => session[s].pump # "none"
    /\ \A k \in Keys : flows[k] # None =>
          Running(flows[k]) /\ session[flows[k]].key = k

\* A session with an open socket can be revoked: it is in the flow table, or
\* the reaper is about to close it.
OpenSessionsAreRevocable ==
    \A s \in Sessions : session[s].open => s \in table \cup reaper.dead

\* When no listener runs, an open session that the index forbids is one whose
\* datagram was checked before a publication and which was opened after it.
OnlyStraddlersSurvive ==
    reaper.pc = "idle" =>
        \A s \in Sessions : session[s].open => session[s].key \in index \/ s \in straddle

\* What a client sends on goes to a session that answers to the endpoint the
\* client is heard on: "19132/udp" serves a client both ways.
RepliesReachTheClient ==
    \A h \in Handlers :
        LET e == handler[h].inbound
            s == handler[h].to
        IN  handler[h].pc = "write" /\ endpoint[e].key # None /\ session[s].open
                => session[s].inbound = e

\* A session the reaper takes out of the flow table ends, though its pump may
\* be blocked in a read of a backend that never sends.
RevokedSessionsEnd ==
    \A s \in Sessions : s \in reaper.dead ~> session[s].pump = "none"

\* A key that neither side uses gives its socket and its goroutine back.
Traffic(k) ==
    \/ \E h \in Handlers : handler[h].key = k
    \/ \E s \in Sessions : session[s].key = k /\ session[s].pump = "copy"
IdleSessionsExpire ==
    \A k \in Keys : []<>(flows[k] = None) \/ []<>Traffic(k)
=============================================================================
