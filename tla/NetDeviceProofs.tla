--------------------------- MODULE NetDeviceProofs ---------------------------
(* Safety of NetDevice, for any number of clients and goroutines and any     *)
(* capacity of the netstack's queue.                                         *)
EXTENDS NetDevice, FiniteSetTheorems, TLAPS

Waiting == {p \in Procs : ProcAt(p, "notify")}

Packets == (Peers \X Peers) \cup {Outgoing}
ProcRecord ==
    [pc : {"idle", "inject", "send", "notify"}, packet : Packets]

TypeOK ==
    /\ proc \in [Procs -> ProcRecord]
    /\ queue \in Seq({Outgoing})
    /\ closing \in 0..3

-----------------------------------------------------------------------------

LEMMA InitTyped == Init => TypeOK
BY DEF Init, TypeOK, Idle, ProcRecord, Packets

\* What a step does to a goroutine keeps it one.
LEMMA GoesTyped ==
    ASSUME TypeOK, NEW p \in Procs, NEW pc \in {"idle", "inject", "send", "notify"},
           NEW packet \in Packets, Goes(p, pc, packet)
    PROVE  /\ proc' \in [Procs -> ProcRecord]
           /\ proc'[p] = [pc |-> pc, packet |-> packet]
           /\ \A q \in Procs \ {p} : proc'[q] = proc[q]
BY DEF Goes, TypeOK, ProcRecord, Packets

LEMMA StepTyped == TypeOK /\ [Next]_deviceVars => TypeOK'
<1> SUFFICES ASSUME TypeOK, [Next]_deviceVars PROVE TypeOK'
  OBVIOUS
<1> USE DEF Procs, Packets
<1>1. ASSUME NEW src \in Peers, Write(src) PROVE TypeOK'
  BY <1>1, GoesTyped DEF Write, Inject, TypeOK
<1>2. ASSUME NEW p \in Procs, QueuePacket(p) PROVE TypeOK'
  <2>1. Goes(p, "notify", Outgoing) /\ queue' = Append(queue, Outgoing) /\ closing' = closing
    BY <1>2 DEF QueuePacket, Notified
  <2>2. queue' \in Seq({Outgoing})
    BY <2>1 DEF TypeOK
  <2>3. proc' \in [Procs -> ProcRecord]
    BY <2>1, GoesTyped
  <2> QED BY <2>1, <2>2, <2>3 DEF TypeOK
<1>3. ASSUME NEW p \in Procs, WriteNotify(p) PROVE TypeOK'
  <2>1. CASE queue = <<>>
    BY <1>3, <2>1, GoesTyped DEF WriteNotify, TypeOK
  <2>2. CASE queue # <<>>
    <3>1. Head(queue) = Outgoing /\ Tail(queue) \in Seq({Outgoing})
      BY <2>2 DEF TypeOK
    <3>2. Goes(p, "inject", Outgoing) /\ queue' = Tail(queue) /\ closing' = closing
      BY <1>3, <2>2, <3>1 DEF WriteNotify
    <3> QED BY <3>1, <3>2, GoesTyped DEF TypeOK
  <2> QED BY <2>1, <2>2
<1>4. ASSUME NEW p \in Procs, LookAtDone(p) PROVE TypeOK'
  <2>1. CASE IsDone
    BY <1>4, <2>1, GoesTyped DEF LookAtDone, TypeOK
  <2>2. CASE ~IsDone
    BY <1>4, <2>2 DEF LookAtDone, TypeOK, ProcRecord
  <2> QED BY <2>1, <2>2
<1>5. ASSUME NEW p \in Procs, Send(p) PROVE TypeOK'
  BY <1>5, GoesTyped DEF Send, TypeOK
<1>6. ASSUME NEW p \in Procs, GiveUp(p) PROVE TypeOK'
  BY <1>6, GoesTyped DEF GiveUp, TypeOK
<1>7. CASE Publish
  BY <1>7 DEF Publish, TypeOK, ProcRecord
<1>8. CASE SetRelay \/ ReadAgain \/ ReadFails \/ BeginClose \/ CloseOn
  <2>1. proc' = proc /\ closing' \in 0..3 /\ (queue' = queue \/ queue' = <<>>)
    BY <1>8 DEF SetRelay, ReadAgain, ReadFails, BeginClose, CloseOn, TypeOK
  <2>2. <<>> \in Seq({Outgoing})
    OBVIOUS
  <2> QED BY <2>1, <2>2 DEF TypeOK
<1>9. CASE UNCHANGED deviceVars
  BY <1>9 DEF deviceVars, TypeOK
<1> QED BY <1>1, <1>2, <1>3, <1>4, <1>5, <1>6, <1>7, <1>8, <1>9 DEF Next, Advance

-----------------------------------------------------------------------------
(* One straggler per revocation *)

Holds(p, packet) == proc[p].pc \in {"inject", "send"} /\ proc[p].packet = packet

\* A packet between clients is held by the goroutine of its source, so there is
\* one of a pair at a time; while it is held after a revocation, none has passed.
Stragglers ==
    /\ \A p \in Procs, pair \in Pairs : Holds(p, pair) => p = pair[1]
    /\ late \in [Pairs -> Nat]
    /\ \A pair \in Pairs : pair \in allowed => late[pair] = 0
    /\ \A pair \in Pairs : late[pair] <= 1
    /\ \A p \in Procs, pair \in Pairs : Holds(p, pair) => late[pair] = 0

\* A goroutine that is given a packet of the netstack, or none, leaves the count
\* as it is.
LEMMA GoesOutgoing ==
    ASSUME TypeOK, Stragglers, NEW p \in Procs, NEW pc \in {"idle", "inject", "send", "notify"},
           Goes(p, pc, Outgoing), allowed' = allowed, late' = late
    PROVE  Stragglers'
<1>1. Outgoing \in Packets
  BY DEF Packets
<1>2. /\ proc'[p] = [pc |-> pc, packet |-> Outgoing]
      /\ \A q \in Procs \ {p} : proc'[q] = proc[q]
  BY <1>1, GoesTyped
<1>3. \A pair \in Pairs : pair # Outgoing
  BY DEF Pairs, Outgoing
<1>4. \A q \in Procs, pair \in Pairs : Holds(q, pair)' => Holds(q, pair)
  BY <1>2, <1>3 DEF Holds
<1> QED BY <1>4 DEF Stragglers

\* So does one that takes up an allowed packet of its own.
LEMMA WriteStragglers ==
    ASSUME TypeOK, Stragglers, NEW src \in Peers, Write(src)
    PROVE  Stragglers'
<1>1. PICK dst \in Peers : <<src, dst>> \in allowed /\ Goes(src, "inject", <<src, dst>>)
  BY DEF Write, Relayed, Inject
<1>2. /\ proc'[src] = [pc |-> "inject", packet |-> <<src, dst>>]
      /\ \A q \in Procs \ {src} : proc'[q] = proc[q]
  BY <1>1, GoesTyped DEF Procs, Packets
<1>3. allowed' = allowed /\ late' = late
  BY DEF Write
<1>4. \A q \in Procs, pair \in Pairs : Holds(q, pair)' =>
          Holds(q, pair) \/ (pair \in allowed /\ q = pair[1])
  BY <1>1, <1>2 DEF Holds
<1> QED BY <1>3, <1>4 DEF Stragglers

\* The hand-over itself: of a pair that is forbidden by now it is the first.
LEMMA SendStragglers ==
    ASSUME TypeOK, Stragglers, NEW p \in Procs, Send(p)
    PROVE  Stragglers'
<1> DEFINE packet == proc[p].packet
<1>0. Goes(p, "idle", Outgoing) /\ allowed' = allowed /\ Holds(p, packet)
  BY DEF Send, ProcAt, Holds
<1>1. CASE packet \in Pairs \ allowed
  <2>1. late[packet] = 0 /\ p = packet[1]
    BY <1>0, <1>1 DEF Stragglers
  <2>2. late' = [late EXCEPT ![packet] = @ + 1]
    BY <1>1 DEF Send
  <2>3. /\ late' \in [Pairs -> Nat] /\ late'[packet] = 1
        /\ \A pair \in Pairs \ {packet} : late'[pair] = late[pair]
    BY <1>1, <2>1, <2>2 DEF Stragglers
  <2>4. proc'[p].pc = "idle" /\ \A q \in Procs \ {p} : proc'[q] = proc[q]
    <3>1. Outgoing \in Packets
      BY DEF Packets
    <3>2. proc'[p] = [pc |-> "idle", packet |-> Outgoing]
          /\ \A q \in Procs \ {p} : proc'[q] = proc[q]
      BY <1>0, <3>1, GoesTyped
    <3> QED BY <3>2
  <2> HIDE DEF packet
  <2>5. \A q \in Procs, pair \in Pairs : Holds(q, pair)' => q # p /\ Holds(q, pair)
    BY <2>4 DEF Holds
  <2>6. \A q \in Procs, pair \in Pairs : Holds(q, pair)' => pair # packet
    BY <2>1, <2>5 DEF Stragglers
  <2> QED BY <1>0, <1>1, <2>3, <2>5, <2>6 DEF Stragglers
<1>2. CASE packet \notin Pairs \ allowed
  <2>1. late' = late
    BY <1>2 DEF Send
  <2> QED BY <1>0, <2>1, GoesOutgoing
<1> QED BY <1>1, <1>2

LEMMA StepStragglers == TypeOK /\ Stragglers /\ [Next]_deviceVars => Stragglers'
<1> SUFFICES ASSUME TypeOK, Stragglers, [Next]_deviceVars PROVE Stragglers'
  OBVIOUS
<1> USE DEF Procs
<1>1. ASSUME NEW src \in Peers, Write(src) PROVE Stragglers'
  BY <1>1, WriteStragglers
<1>2. ASSUME NEW p \in Procs, QueuePacket(p) PROVE Stragglers'
  BY <1>2, GoesOutgoing DEF QueuePacket, Notified
<1>3. ASSUME NEW p \in Procs, WriteNotify(p) PROVE Stragglers'
  <2>1. queue # <<>> => Head(queue) = Outgoing
    BY DEF TypeOK
  <2> QED BY <1>3, <2>1, GoesOutgoing DEF WriteNotify
<1>4. ASSUME NEW p \in Procs, LookAtDone(p) PROVE Stragglers'
  <2>1. CASE IsDone
    BY <1>4, <2>1, GoesOutgoing DEF LookAtDone
  <2>2. CASE ~IsDone
    <3>1. \A q \in Procs, pair \in Pairs : Holds(q, pair)' => Holds(q, pair)
      BY <1>4, <2>2 DEF LookAtDone, ProcAt, Holds, TypeOK, ProcRecord
    <3> QED BY <1>4, <3>1 DEF LookAtDone, Stragglers
  <2> QED BY <2>1, <2>2
<1>5. ASSUME NEW p \in Procs, Send(p) PROVE Stragglers'
  BY <1>5, SendStragglers
<1>6. ASSUME NEW p \in Procs, GiveUp(p) PROVE Stragglers'
  BY <1>6, GoesOutgoing DEF GiveUp
<1>7. CASE Publish
  <2>1. \A pair \in Pairs : late'[pair] = IF pair \in allowed' THEN 0 ELSE late[pair]
    BY <1>7 DEF Publish
  <2>2. late' \in [Pairs -> Nat]
    BY <1>7 DEF Publish, Stragglers
  <2>3. \A q \in Procs, pair \in Pairs : Holds(q, pair)' = Holds(q, pair)
    BY <1>7 DEF Publish, Holds
  <2> QED BY <2>1, <2>2, <2>3 DEF Stragglers
<1>8. CASE SetRelay \/ ReadAgain \/ ReadFails \/ BeginClose \/ CloseOn
  BY <1>8 DEF SetRelay, ReadAgain, ReadFails, BeginClose, CloseOn, Stragglers, Holds
<1>9. CASE UNCHANGED deviceVars
  BY <1>9 DEF deviceVars, Stragglers, Holds
<1> QED BY <1>1, <1>2, <1>3, <1>4, <1>5, <1>6, <1>7, <1>8, <1>9 DEF Next, Advance

\* A packet is handed over by the goroutine that wrote it, one at a time, and
\* checked before: for any clients and publications, a revocation is followed by
\* at most one more packet of the pair.
THEOREM DeviceOneStragglerPerRevocation == NetDeviceSpec => []OneStragglerPerRevocation
<1>1. Init => Stragglers
  BY DEF Init, Idle, Stragglers, Holds
<1>2. Stragglers => OneStragglerPerRevocation
  BY DEF Stragglers, OneStragglerPerRevocation
<1> QED BY <1>1, <1>2, InitTyped, StepTyped, StepStragglers, PTL DEF NetDeviceSpec

-----------------------------------------------------------------------------
(* No packet is stranded *)

\* The goroutines that are about to take a packet are finite in number, which the
\* comparison with the length of the queue needs.
Attended == IsFiniteSet(Waiting) /\ NoPacketStranded

\* Who is about to take a packet after a goroutine has gone to another place.
LEMMA GoesWaiting ==
    ASSUME TypeOK, NEW p \in Procs, NEW pc \in {"idle", "inject", "send", "notify"},
           NEW packet \in Packets, Goes(p, pc, packet)
    PROVE  /\ pc = "notify" => Waiting' = Waiting \cup {p}
           /\ pc # "notify" => Waiting' = Waiting \ {p}
<1>0. /\ proc'[p] = [pc |-> pc, packet |-> packet]
      /\ \A q \in Procs \ {p} : proc'[q] = proc[q]
  BY GoesTyped
<1>1. proc'[p].pc = pc /\ \A q \in Procs \ {p} : proc'[q] = proc[q]
  BY <1>0
<1>2. Waiting' = {q \in Procs : proc'[q].pc = "notify"}
  BY DEF Waiting, ProcAt
<1>3. Waiting = {q \in Procs : proc[q].pc = "notify"}
  BY DEF Waiting, ProcAt
<1> QED BY <1>1, <1>2, <1>3

LEMMA StepAttended == TypeOK /\ Attended /\ [Next]_deviceVars => Attended'
<1> SUFFICES ASSUME TypeOK, Attended, [Next]_deviceVars PROVE Attended'
  OBVIOUS
<1> USE DEF Procs, Packets
<1>0. Len(queue) \in Nat /\ Cardinality(Waiting) \in Nat /\ Len(queue) <= Cardinality(Waiting)
  BY FS_CardinalityType DEF TypeOK, Attended, NoPacketStranded, Waiting
\* Steps of goroutines that neither were nor become about to take a packet.
<1>a. ASSUME Waiting' = Waiting, queue' = queue PROVE Attended'
  BY <1>a, <1>0 DEF Attended, NoPacketStranded, Waiting
<1>b. ASSUME NEW p \in Procs, NEW pc \in {"idle", "inject", "send"},
             NEW packet \in Packets, Goes(p, pc, packet),
             ~ProcAt(p, "notify")
      PROVE  Waiting' = Waiting
  BY <1>b, GoesWaiting DEF Waiting
<1>1. ASSUME NEW src \in Peers, Write(src) PROVE Attended'
  BY <1>1, <1>a, <1>b DEF Write, Inject, ProcAt
<1>2. ASSUME NEW p \in Procs, QueuePacket(p) PROVE Attended'
  <2>1. Waiting' = Waiting \cup {p} /\ p \notin Waiting
    BY <1>2, GoesWaiting DEF QueuePacket, Notified, Waiting, ProcAt
  <2>2. IsFiniteSet(Waiting') /\ Cardinality(Waiting') = Cardinality(Waiting) + 1
    BY <2>1, FS_AddElement DEF Attended
  <2>3. Len(queue') = Len(queue) + 1
    BY <1>2 DEF QueuePacket, TypeOK
  <2> QED BY <1>0, <2>2, <2>3 DEF Attended, NoPacketStranded, Waiting
<1>3. ASSUME NEW p \in Procs, WriteNotify(p) PROVE Attended'
  <2>1. Waiting' = Waiting \ {p} /\ p \in Waiting
    <3>1. CASE queue = <<>>
      BY <1>3, <3>1, GoesWaiting DEF WriteNotify, Waiting, ProcAt
    <3>2. CASE queue # <<>>
      <4>1. Head(queue) = Outgoing
        BY <3>2 DEF TypeOK
      <4> QED BY <1>3, <3>2, <4>1, GoesWaiting DEF WriteNotify, Waiting, ProcAt
    <3> QED BY <3>1, <3>2
  <2>2. IsFiniteSet(Waiting') /\ Cardinality(Waiting') = Cardinality(Waiting) - 1
    BY <2>1, FS_RemoveElement DEF Attended
  <2>3. Len(queue') = IF queue = <<>> THEN 0 ELSE Len(queue) - 1
    BY <1>3 DEF WriteNotify, TypeOK
  <2>4. Cardinality(Waiting') \in Nat
    BY <2>2, FS_CardinalityType
  <2> QED BY <1>0, <2>2, <2>3, <2>4 DEF Attended, NoPacketStranded, Waiting
<1>4. ASSUME NEW p \in Procs, LookAtDone(p) PROVE Attended'
  <2>1. CASE IsDone
    BY <1>4, <2>1, <1>a, <1>b DEF LookAtDone, ProcAt
  <2>2. CASE ~IsDone
    <3>1. Waiting' = Waiting
      BY <1>4, <2>2 DEF LookAtDone, ProcAt, Waiting, TypeOK, ProcRecord
    <3> QED BY <1>4, <3>1, <1>a DEF LookAtDone
  <2> QED BY <2>1, <2>2
<1>5. ASSUME NEW p \in Procs, Send(p) PROVE Attended'
  BY <1>5, <1>a, <1>b DEF Send, ProcAt
<1>6. ASSUME NEW p \in Procs, GiveUp(p) PROVE Attended'
  BY <1>6, <1>a, <1>b DEF GiveUp, ProcAt
<1>7. CASE Publish
  <2>1. Waiting' = Waiting
    BY <1>7 DEF Publish, Waiting, ProcAt, TypeOK, ProcRecord
  <2> QED BY <1>7, <2>1, <1>a DEF Publish
<1>8. CASE SetRelay \/ ReadAgain \/ ReadFails \/ BeginClose \/ UNCHANGED deviceVars
  <2>1. Waiting' = Waiting /\ queue' = queue
    BY <1>8 DEF SetRelay, ReadAgain, ReadFails, BeginClose, deviceVars, Waiting, ProcAt
  <2> QED BY <2>1, <1>a
<1>9. CASE CloseOn
  <2>1. Waiting' = Waiting
    BY <1>9 DEF CloseOn, Waiting, ProcAt
  <2>2. queue' = <<>> \/ queue' = queue
    BY <1>9 DEF CloseOn
  <2>3. CASE queue' = <<>>
    <3>1. Len(queue') = 0
      BY <2>3
    <3>2. IsFiniteSet(Waiting') /\ Len(queue') <= Cardinality(Waiting') => Attended'
      BY DEF Attended, NoPacketStranded, Waiting
    <3>3. IsFiniteSet(Waiting') /\ Cardinality(Waiting') \in Nat
      BY <1>0, <2>1 DEF Attended
    <3> QED BY <3>1, <3>2, <3>3
  <2>4. CASE queue' = queue
    BY <2>1, <2>4, <1>a
  <2> QED BY <2>2, <2>3, <2>4
<1> QED BY <1>1, <1>2, <1>3, <1>4, <1>5, <1>6, <1>7, <1>8, <1>9 DEF Next, Advance

\* WriteNotify takes whichever packet comes first: for any number of goroutines
\* and any capacity, there are as many about to take a packet as packets wait.
THEOREM DeviceNoPacketStranded == NetDeviceSpec => []NoPacketStranded
<1>1. Init => Attended
  <2> SUFFICES ASSUME Init PROVE Attended
    OBVIOUS
  <2>1. Waiting = {} /\ Len(queue) = 0
    BY DEF Init, Waiting, ProcAt, Idle
  <2> QED BY <2>1, FS_EmptySet DEF Attended, NoPacketStranded, Waiting
<1>2. Attended => NoPacketStranded
  BY DEF Attended
<1> QED BY <1>1, <1>2, InitTyped, StepTyped, StepAttended, PTL DEF NetDeviceSpec
=============================================================================
