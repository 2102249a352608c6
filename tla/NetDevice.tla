----------------------------- MODULE NetDevice -----------------------------
(***************************************************************************)
(* wg: the TUN device between WireGuard and the netstack, and the relay    *)
(* between clients.  WireGuard has one goroutine per peer that writes      *)
(* decrypted packets and one that reads what is to be encrypted; netstack  *)
(* goroutines queue packets and are called back; whoever has a packet for  *)
(* the reader hands it over on an unbuffered channel, or gives up when the *)
(* device is done.  Close may come at any moment.                          *)
(*                                                                         *)
(* The netstack and WireGuard are external: modelled as they use this code.*)
(* The policy is the set of pairs CheckPeer allows; a packet is its two    *)
(* addresses.  A netstack packet has no address pair that matters.         *)
(***************************************************************************)
EXTENDS Naturals, Sequences, FiniteSets

CONSTANTS
    Peers,       \* client addresses of users
    Stacks,      \* netstack goroutines
    QueueSlots   \* capacity of the netstack's outbound queue

ASSUME Slots == QueueSlots \in Nat \ {0}

Procs == Peers \cup Stacks      \* a peer's goroutine goes by the peer's address
Pairs == {pair \in Peers \X Peers : pair[1] # pair[2]}
Outgoing == <<"netstack", "netstack">>

VARIABLES
    proc,       \* per goroutine: [pc, packet]
    reader,     \* the goroutine of WireGuard that reads: "read", "busy", "gone"
    queue,      \* the netstack's outbound queue
    relay,      \* the relay hook is set
    closing,    \* how far Close is: 0 open, 1 closed set, 2 NIC and queue closed, 3 done closed
    allowed,    \* pairs the published index allows
    late        \* history, per pair: packets that reached the reader since it was forbidden

deviceVars == <<proc, reader, queue, relay, closing, allowed, late>>

-----------------------------------------------------------------------------
Idle == [pc |-> "idle", packet |-> Outgoing]
ProcAt(p, pc) == proc[p].pc = pc
Goes(p, pc, packet) == proc' = [proc EXCEPT ![p] = [pc |-> pc, packet |-> packet]]
IsDone == closing = 3

Init ==
    /\ proc = [p \in Procs |-> Idle]
    /\ reader = "read" /\ queue = <<>>
    /\ relay = FALSE /\ closing = 0
    /\ allowed \in SUBSET Pairs
    /\ late = [pair \in Pairs |-> 0]

-----------------------------------------------------------------------------
(* relay.go *)

\* Handle injects what one known client sends to another and CheckPeer allows.
Relayed(src, dst) == src # dst /\ <<src, dst>> \in allowed

\* Mutant of Inject: the packet is left to whichever goroutine is free.
InjectAside(src, dst) == \E p \in Procs : ProcAt(p, "idle") /\ Goes(p, "inject", <<src, dst>>)
\* The goroutine that wrote the packet hands it over itself.
Inject(src, dst) == Goes(src, "inject", <<src, dst>>)

\* netDevice.Write, by the goroutine of a peer, whose packets have its address
\* as their source.  Of the client subnet the hook takes everything and drops what
\* it does not relay; all else, and everything while there is no hook, goes to the
\* netstack, which is no step of this device (but see QueuePacket).
Write(src) ==
    /\ ProcAt(src, "idle")
    /\ relay
    /\ \E dst \in Peers : Relayed(src, dst) /\ Inject(src, dst)
    /\ UNCHANGED <<reader, queue, relay, closing, allowed, late>>

SetRelay ==
    /\ ~relay /\ relay' = TRUE
    /\ UNCHANGED <<proc, reader, queue, closing, allowed, late>>

\* The change listener publishes an index.  Nothing is done about what has been
\* checked and not yet read by WireGuard.
Publish ==
    /\ \E pairs \in SUBSET Pairs :
          /\ pairs # allowed
          /\ allowed' = pairs
          /\ late' = [pair \in Pairs |-> IF pair \in pairs THEN 0 ELSE late[pair]]
    /\ UNCHANGED <<proc, reader, queue, relay, closing>>

-----------------------------------------------------------------------------
(* netstack.go *)

\* Mutant of Notified: only the packet that ends an empty queue calls back.
NotifiedOnce(s) == IF queue = <<>> THEN Goes(s, "notify", Outgoing) ELSE UNCHANGED proc
Notified(s) == Goes(s, "notify", Outgoing)

\* The netstack queues a packet and calls back; a full or closed queue refuses.
\* The netstack may do so while it handles a peer's packet, on its goroutine.
QueuePacket(p) ==
    /\ ProcAt(p, "idle")
    /\ closing < 2 /\ Len(queue) < QueueSlots
    /\ queue' = Append(queue, Outgoing)
    /\ Notified(p)
    /\ UNCHANGED <<reader, relay, closing, allowed, late>>

\* WriteNotify: one packet is taken, by whichever goroutine comes first.
WriteNotify(p) ==
    /\ ProcAt(p, "notify")
    /\ IF queue = <<>> THEN Goes(p, "idle", Outgoing) /\ UNCHANGED queue
       ELSE Goes(p, "inject", Head(queue)) /\ queue' = Tail(queue)
    /\ UNCHANGED <<reader, relay, closing, allowed, late>>

\* enqueue: first a look at done, then a send that done interrupts.
LookAtDone(p) ==
    /\ ProcAt(p, "inject")
    /\ IF IsDone THEN Goes(p, "idle", Outgoing) ELSE proc' = [proc EXCEPT ![p].pc = "send"]
    /\ UNCHANGED <<reader, queue, relay, closing, allowed, late>>

Send(p) ==
    /\ ProcAt(p, "send") /\ reader = "read"
    /\ reader' = "busy"
    /\ Goes(p, "idle", Outgoing)
    /\ late' = LET packet == proc[p].packet
               IN  IF packet \in Pairs \ allowed THEN [late EXCEPT ![packet] = @ + 1] ELSE late
    /\ UNCHANGED <<queue, relay, closing, allowed>>

\* Mutant of Interrupted: the send waits for the reader alone.
NeverInterrupted == FALSE
Interrupted == IsDone
GiveUp(p) ==
    /\ ProcAt(p, "send") /\ Interrupted
    /\ Goes(p, "idle", Outgoing)
    /\ UNCHANGED <<reader, queue, relay, closing, allowed, late>>

\* netDevice.Read, called in a loop until it fails.
ReadAgain ==
    /\ reader = "busy" /\ reader' = "read"
    /\ UNCHANGED <<proc, queue, relay, closing, allowed, late>>
ReadFails ==
    /\ reader = "read" /\ IsDone /\ reader' = "gone"
    /\ UNCHANGED <<proc, queue, relay, closing, allowed, late>>

\* Close: a second call returns at once; the first takes the NIC and the stack
\* down and closes the endpoint, which discards its queue, and then done.
BeginClose ==
    /\ closing = 0 /\ closing' = 1
    /\ UNCHANGED <<proc, reader, queue, relay, allowed, late>>
CloseOn ==
    /\ closing \in {1, 2} /\ closing' = closing + 1
    /\ queue' = IF closing = 1 THEN <<>> ELSE queue
    /\ UNCHANGED <<proc, reader, relay, allowed, late>>

Advance(p) == WriteNotify(p) \/ LookAtDone(p) \/ GiveUp(p)
Next ==
    \/ \E src \in Peers : Write(src)
    \/ \E p \in Procs : QueuePacket(p) \/ Advance(p) \/ Send(p)
    \/ SetRelay \/ Publish \/ ReadAgain \/ ReadFails \/ BeginClose \/ CloseOn

\* Goroutines that can go on do; blocked senders are served in their order, so
\* none is passed over for ever.  Nobody has to write, publish or close.
Fairness ==
    /\ WF_deviceVars(ReadAgain) /\ WF_deviceVars(ReadFails) /\ WF_deviceVars(CloseOn)
    /\ \A p \in Procs : WF_deviceVars(Advance(p)) /\ SF_deviceVars(Send(p))
NetDeviceSpec == Init /\ [][Next]_deviceVars /\ Fairness

-----------------------------------------------------------------------------

\* A revocation between two clients does not reach into a hand-over under way: of
\* the pair, the one packet that its peer's goroutine held still passes, whatever
\* else is published meanwhile, and no second one until the pair is allowed again.
OneStragglerPerRevocation == \A pair \in Pairs \ allowed : late[pair] <= 1

\* Every packet in the netstack's queue has a goroutine that is about to take it:
\* none is stranded, although a callback takes whichever packet comes first.
NoPacketStranded == Len(queue) <= Cardinality({p \in Procs : ProcAt(p, "notify")})

\* Every Write and every WriteNotify returns, while the reader reads and when the
\* device is closed at any point of theirs: no goroutine of WireGuard or of the
\* netstack is left waiting for a reader that is gone.
WritesReturn == \A p \in Procs : ~ProcAt(p, "idle") ~> ProcAt(p, "idle")
=============================================================================
