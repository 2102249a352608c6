------------------------------ MODULE Resolver ------------------------------
(***************************************************************************)
(* proxy.BackendResolver: where a connection to a service is dialled.      *)
(* Whoever resolves looks into the cache, else asks DNS, else the container*)
(* runtime, and stores the answer; mu covers the map and the pointer to    *)
(* the client and is held across none of the questions.  Meanwhile a       *)
(* reload may put another client in place.                                 *)
(*                                                                         *)
(* Of an answer only its source is kept.  Left out: literal addresses and  *)
(* the loopback, which are neither asked for nor cached, and texts.        *)
(***************************************************************************)
EXTENDS Naturals

CONSTANTS
    Origins,     \* origins that are cached, each under its key
    Kind,        \* their kinds: hostname, container, or container in a named network
    Calls,       \* goroutines resolving: proxy handlers and origin checks
    Sockets,     \* addresses of container runtimes
    NoSocket,    \* no runtime configured: the client is nil
    Dns,         \* an answer that came from DNS
    Nothing      \* no entry

ASSUME Kinds == Kind \in [Origins -> {"hostname", "container", "attached"}]

VARIABLES
    docker,      \* the client in use, by its socket
    cache,       \* by origin: an answer, or Nothing
    call         \* per goroutine: where it is, and the answer it carries

resolverVars == <<docker, cache, call>>

-----------------------------------------------------------------------------
Resting == [pc |-> "idle"]
EmptyCache == [o \in Origins |-> Nothing]
NoCalls == [c \in Calls |-> Resting]

CallAt(c, pc) == call[c].pc = pc
\* late is history: the client was replaced after it was read.
Step(c, pc, from) ==
    call' = [call EXCEPT ![c] = [pc |-> pc, origin |-> @.origin, from |-> from, late |-> FALSE]]
Rests(c) == call' = [call EXCEPT ![c] = Resting]

ResolverInit(client) == docker = client /\ cache = EmptyCache /\ call = NoCalls

\* Resolve, cached: an entry that has expired is none (Expire).
Resolve(c) ==
    /\ CallAt(c, "idle")
    /\ \E o \in Origins :
          call' = [call EXCEPT ![c] =
                      [pc |-> IF cache[o] # Nothing THEN "dial"
                              ELSE IF Kind[o] = "attached" THEN "client" ELSE "lookup",
                       origin |-> o, from |-> Nothing, late |-> FALSE]]
    /\ UNCHANGED <<docker, cache>>

\* lookupHost, bounded by lookupTimeout: what does not resolve is left to the
\* runtime for a container, and is an error for a hostname; so is an address
\* that is refused.
LookupHost(c) ==
    /\ CallAt(c, "lookup")
    /\ \/ Step(c, "store", Dns)
       \/ Kind[call[c].origin] = "hostname" /\ Rests(c)
       \/ Kind[call[c].origin] = "container" /\ Step(c, "client", Nothing)
    /\ UNCHANGED <<docker, cache>>

\* The client is read under mu and used after it.
TakeClient(c) ==
    /\ CallAt(c, "client")
    /\ IF docker = NoSocket THEN Rests(c) ELSE Step(c, "inspect", docker)
    /\ UNCHANGED <<docker, cache>>

\* ContainerEndpoints and selectEndpoint, with a probe per endpoint: an address,
\* or none that is usable.
Inspect(c) ==
    /\ CallAt(c, "inspect")
    /\ Rests(c) \/ call' = [call EXCEPT ![c].pc = "store"]
    /\ UNCHANGED <<docker, cache>>

StoreAnswer(c) ==
    /\ CallAt(c, "store")
    /\ cache' = [cache EXCEPT ![call[c].origin] = [from |-> call[c].from, late |-> call[c].late]]
    /\ call' = [call EXCEPT ![c].pc = "dial"]
    /\ UNCHANGED docker

\* The caller dials; checkServiceOrigin only reports the answer.
Answered(c) ==
    /\ CallAt(c, "dial")
    /\ Rests(c)
    /\ UNCHANGED <<docker, cache>>

\* A TCP dial, or the UDP socket, that fails invalidates the origin, whoever
\* filled it; a dial cut off with the client's connection does so too.
Invalidate(o) == cache' = [cache EXCEPT ![o] = Nothing]
DialFails(c) ==
    /\ CallAt(c, "dial")
    /\ Invalidate(call[c].origin)
    /\ Rests(c)
    /\ UNCHANGED docker

\* The time-to-live of an entry ends.
Expire(o) ==
    /\ cache[o] # Nothing
    /\ Invalidate(o)
    /\ UNCHANGED <<docker, call>>

\* Mutant of SetDocker: the answers of the old client stay.
SetDockerOnly(client) ==
    /\ docker' = client
    /\ UNCHANGED <<cache, call>>
SetDocker(client) ==
    /\ docker' = client
    /\ cache' = EmptyCache
    /\ call' = [c \in Calls |-> IF call[c].pc \in {"inspect", "store"} /\ call[c].from # Dns
                                THEN [call[c] EXCEPT !.late = TRUE] ELSE call[c]]

Resolution(c) ==
    \/ Resolve(c) \/ LookupHost(c) \/ TakeClient(c) \/ Inspect(c) \/ StoreAnswer(c)
    \/ Answered(c) \/ DialFails(c)

-----------------------------------------------------------------------------

\* What is cached came from DNS or from the client in use; the only exception
\* is a resolution that had taken the old client when SetDocker replaced it and
\* stores its answer after the cache was emptied (until addrTTL ends).
AnswersComeFromTheClient ==
    \A o \in Origins :
        cache[o] # Nothing => cache[o].from \in {docker, Dns} \/ cache[o].late
=============================================================================
