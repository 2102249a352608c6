------------------------------- MODULE Daemon -------------------------------
(***************************************************************************)
(* The life of the process: migrations, the server's keypair, serving,     *)
(* reloads of the configuration, and the end at any point.  Four things    *)
(* outlive it: the schema and the settings in the database, the            *)
(* configuration file, and what clients were told of the server's key.     *)
(* One goroutine handles signals, one runs the loop of Run, and others     *)
(* resolve backends with the client that a reload replaces.                *)
(*                                                                         *)
(* Of the configuration only docker.socket is kept, the one setting whose  *)
(* change has a consequence.  A change to it is found by comparing with    *)
(* the configuration of the last reload.                                   *)
(***************************************************************************)
EXTENDS Resolver, Sequences, FiniteSets

CONSTANTS
    BadSocket,     \* a docker.socket that docker.New refuses
    Unreadable,    \* stands for a file that cannot be read or decoded
    SignalSlots,   \* capacity of the channel of os/signal
    MaxFiles,      \* bound: migrations of the newest program
    MaxKeys,       \* bound: keypairs told apart
    MaxEdits       \* bound: edits of the configuration file

ASSUME DaemonBounds ==
    SignalSlots \in Nat \ {0} /\ MaxFiles \in Nat /\ MaxKeys \in Nat /\ MaxEdits \in Nat

VARIABLES
    files,     \* number of migrations embedded in the installed program
    schema,    \* the migrations the database went through, in order
    recorded,  \* rows of schema_migrations
    settings,  \* [private, public] keys in the table settings; 0 for no row
    file,      \* the configuration file: [version, socket]
    main,      \* the goroutine of Run: [pc, next, key, fresh]
    conf,      \* the docker.socket in force
    sigs,      \* signals delivered to the process, not yet handled
    reload,    \* reloadCh holds a request
    cancelled, \* the context of Run is done
    apiDocker, \* the client of the API
    served,    \* history: keys under which the daemon has served
    asked,     \* history: version of the file when the last SIGHUP was sent
    read       \* history: version of the file that was read last

diskVars == <<files, schema, recorded, settings>>
signalVars == <<sigs, reload, cancelled, asked>>
confVars == <<conf, apiDocker>>
historyVars == <<served, read>>
daemonVars == <<diskVars, file, main, confVars, signalVars, historyVars, resolverVars>>

-----------------------------------------------------------------------------
Values == Sockets \cup {NoSocket, BadSocket}
Down == [pc |-> "down", next |-> 1, key |-> 0, fresh |-> NoSocket]
MainAt(pc) == main.pc = pc
Running == ~MainAt("down")
Goes(pc) == main' = [main EXCEPT !.pc = pc]

\* docker.New: no client, or the one for the socket.
ClientFor(socket) == IF socket = BadSocket THEN NoSocket ELSE socket

Init ==
    /\ files = 1 /\ schema = <<>> /\ recorded = {}
    /\ settings = [private |-> 0, public |-> 0]
    /\ \E socket \in Values : file = [version |-> 0, socket |-> socket]
    /\ main = Down /\ conf = NoSocket /\ apiDocker = NoSocket
    /\ sigs = <<>> /\ reload = FALSE /\ cancelled = FALSE
    /\ served = {} /\ asked = 0 /\ read = 0
    /\ ResolverInit(NoSocket)

\* The process ends: an error at start-up, a crash, or Run returns.
Exits ==
    /\ main' = Down
    /\ sigs' = <<>> /\ reload' = FALSE /\ cancelled' = FALSE /\ asked' = 0
    /\ conf' = NoSocket /\ apiDocker' = NoSocket
    /\ docker' = NoSocket /\ cache' = EmptyCache /\ call' = NoCalls

-----------------------------------------------------------------------------
(* runDaemon and Run up to the loop                                         *)

Start ==
    /\ MainAt("down") /\ file.socket # Unreadable
    /\ main' = [Down EXCEPT !.pc = "migrate"]
    /\ conf' = file.socket /\ read' = file.version
    /\ UNCHANGED <<diskVars, file, apiDocker, signalVars, served, resolverVars>>

\* Mutant of Migrate: the body commits before its row does, with a crash between.
MigrateThenRecord(i) ==
    /\ schema' = Append(schema, i)
    /\ \/ recorded' = recorded /\ main' = Down
       \/ recorded' = recorded \cup {i} /\ main' = [main EXCEPT !.next = @ + 1]
\* One transaction runs the body and records it.
Migrate(i) ==
    /\ schema' = Append(schema, i)
    /\ recorded' = recorded \cup {i}
    /\ main' = [main EXCEPT !.next = @ + 1]
SkipMigration ==
    /\ main' = [main EXCEPT !.next = @ + 1]
    /\ UNCHANGED <<schema, recorded>>
Migrated ==
    /\ main' = [Down EXCEPT !.pc = "private"]
    /\ UNCHANGED <<schema, recorded>>

RunMigrations ==
    /\ MainAt("migrate")
    /\ \/ main.next > files /\ Migrated
       \/ main.next <= files /\ main.next \in recorded /\ SkipMigration
       \/ main.next <= files /\ main.next \notin recorded /\ Migrate(main.next)
    /\ UNCHANGED <<files, settings, file, confVars, signalVars, historyVars, resolverVars>>

\* ensureServerKeypair: the private key, then the public one; either missing
\* means a new pair.
GetKey(pc, value, found) ==
    /\ MainAt(pc)
    /\ IF value = 0 THEN Goes("generate")
       ELSE main' = [main EXCEPT !.pc = found, !.key = settings.private]
    /\ UNCHANGED <<diskVars, file, confVars, signalVars, historyVars, resolverVars>>
\* Mutant of ReadFails: any error is taken for a missing row.
ReadFailsGenerate ==
    /\ Goes("generate")
    /\ UNCHANGED <<confVars, signalVars, resolverVars>>
ReadFails == Exits
GetKeyFails ==
    /\ main.pc \in {"private", "public"}
    /\ ReadFails
    /\ UNCHANGED <<diskVars, file, historyVars>>

\* A new pair is one nobody knows; keys are numbered in that order.
KnownKeys == served \cup {settings.private, settings.public}
Generate ==
    /\ MainAt("generate")
    /\ \E key \in 1..MaxKeys :
          /\ key \notin KnownKeys /\ 1..(key - 1) \subseteq KnownKeys
          /\ main' = [main EXCEPT !.pc = "set_private", !.key = key]
    /\ UNCHANGED <<diskVars, file, confVars, signalVars, historyVars, resolverVars>>

SetKey(pc, field, then) ==
    /\ MainAt(pc)
    /\ settings' = [settings EXCEPT ![field] = main.key]
    /\ Goes(then)
    /\ UNCHANGED <<files, schema, recorded, file, confVars, signalVars, historyVars, resolverVars>>

\* docker.New, the proxies and the socket of the API: from here on others run.
Serve ==
    /\ MainAt("ready")
    /\ docker' = ClientFor(conf) /\ apiDocker' = ClientFor(conf)
    /\ served' = served \cup {main.key}
    /\ Goes("serve")
    /\ UNCHANGED <<diskVars, file, conf, signalVars, read, cache, call>>

EnsureServerKeypair ==
    \/ GetKey("private", settings.private, "public")
    \/ GetKey("public", settings.public, "open")
    \/ GetKeyFails \/ Generate
    \/ SetKey("set_private", "private", "set_public")
    \/ SetKey("set_public", "public", "open")

\* wg.Open: the device takes the private key and derives the public one, which is
\* then stored again.
OpenDevice == SetKey("open", "public", "ready")

Boot == RunMigrations \/ EnsureServerKeypair \/ OpenDevice \/ Serve

\* getUserConfig: the server's key in the configuration of a client; 0 for none.
ConfiguredKey == settings.public

-----------------------------------------------------------------------------
(* Signals                                                                  *)

\* Mutant of Coalesce: an unbuffered channel.
OnlyIfWaiting == reload' = MainAt("serve")
\* A send that does not block on a channel of length one.
Coalesce == reload' = TRUE

Deliver(sig) ==
    /\ Running
    /\ sigs' = IF Len(sigs) < SignalSlots THEN Append(sigs, sig) ELSE sigs
    /\ asked' = IF sig = "hup" THEN file.version ELSE asked
    /\ UNCHANGED <<diskVars, file, main, confVars, reload, cancelled, historyVars, resolverVars>>

HandleSignals ==
    /\ Running /\ sigs # <<>> /\ ~cancelled
    /\ sigs' = Tail(sigs)
    /\ \/ Head(sigs) = "hup" /\ Coalesce /\ UNCHANGED cancelled
       \/ Head(sigs) = "term" /\ cancelled' = TRUE /\ UNCHANGED reload
    /\ UNCHANGED <<diskVars, file, main, confVars, asked, historyVars, resolverVars>>

-----------------------------------------------------------------------------
(* The loop of Run                                                          *)

Stop == MainAt("serve") /\ cancelled /\ Exits /\ UNCHANGED <<diskVars, file, historyVars>>

TakeReload ==
    /\ MainAt("serve") /\ reload
    /\ reload' = FALSE
    /\ Goes("load")
    /\ UNCHANGED <<diskVars, file, confVars, sigs, cancelled, asked, historyVars, resolverVars>>

\* config.Load: a file that cannot be read or decoded changes nothing.
Load ==
    /\ MainAt("load")
    /\ read' = file.version
    /\ main' = [main EXCEPT
          !.pc = IF file.socket = Unreadable THEN "serve"
                ELSE IF file.socket # conf THEN "swap" ELSE "apply",
          !.fresh = IF file.socket = Unreadable THEN @ ELSE file.socket]
    /\ UNCHANGED <<diskVars, file, confVars, signalVars, served, resolverVars>>

\* docker.New; a socket it refuses leaves the client.
SwapResolver ==
    /\ MainAt("swap")
    /\ IF main.fresh = BadSocket THEN Goes("apply") /\ UNCHANGED resolverVars
       ELSE Goes("swap_api") /\ SetDocker(main.fresh)
    /\ UNCHANGED <<diskVars, file, confVars, signalVars, historyVars>>
SwapAPI ==
    /\ MainAt("swap_api")
    /\ apiDocker' = main.fresh
    /\ Goes("apply")
    /\ UNCHANGED <<diskVars, file, conf, signalVars, historyVars, resolverVars>>

\* Mutant of HotReload: the socket is not copied.
HotReloadRest == UNCHANGED conf
HotReload == conf' = main.fresh

ApplyHotReload ==
    /\ MainAt("apply")
    /\ HotReload
    /\ main' = [main EXCEPT !.pc = "serve", !.fresh = NoSocket]
    /\ UNCHANGED <<diskVars, file, apiDocker, signalVars, historyVars, resolverVars>>

RunLoop == Stop \/ TakeReload \/ Load \/ SwapResolver \/ SwapAPI \/ ApplyHotReload

-----------------------------------------------------------------------------
(* What happens around the process                                          *)

Crash == Running /\ Exits /\ UNCHANGED <<diskVars, file, historyVars>>
Upgrade ==
    /\ MainAt("down") /\ files < MaxFiles
    /\ files' = files + 1
    /\ UNCHANGED <<schema, recorded, settings, file, main, confVars, signalVars, historyVars,
                   resolverVars>>
Edit ==
    /\ file.version < MaxEdits
    /\ \E socket \in Values \cup {Unreadable} :
          file' = [version |-> file.version + 1, socket |-> socket]
    /\ UNCHANGED <<diskVars, main, confVars, signalVars, historyVars, resolverVars>>

\* The proxies run from the time the daemon serves.
Serving == main.pc \in {"serve", "load", "swap", "swap_api", "apply"}
Proxies ==
    /\ Serving
    /\ (\E c \in Calls : Resolution(c)) \/ (\E o \in Origins : Expire(o))
    /\ UNCHANGED <<diskVars, file, main, confVars, signalVars, historyVars>>

Next ==
    \/ Start \/ Boot \/ RunLoop \/ HandleSignals \/ Proxies
    \/ Crash \/ Upgrade \/ Edit
    \/ \E sig \in {"hup", "term"} : Deliver(sig)

\* A process that runs goes on; nobody has to start it, signal it or edit a file.
Fairness == WF_daemonVars(Boot \/ RunLoop) /\ WF_daemonVars(HandleSignals)
DaemonSpec == Init /\ [][Next]_daemonVars /\ Fairness

-----------------------------------------------------------------------------

\* Each migration is applied once and in order, through crashes between the
\* steps of runMigrations and upgrades that bring new files; when the daemon
\* serves, none is missing.
MigrationsRunOnce ==
    /\ schema = [i \in 1..Len(schema) |-> i]
    /\ Serving => Len(schema) = files

\* Once the daemon has served under a key it never serves under another, and
\* the public key it hands out in client configurations is the one it answers
\* to: a pair half written by a crash has not been served, and a read that fails
\* is not taken for a missing key.
ServerKeyIsStable ==
    /\ Cardinality(served) <= 1
    /\ Serving => ConfiguredKey = main.key /\ settings.private = main.key

\* Between two reloads the resolver and the API use the same client, and it is
\* the one the configuration names, or an earlier one if that name is refused.
ClientFollowsConfiguration ==
    MainAt("serve") => docker = apiDocker /\ (conf # BadSocket => docker = conf)

\* A SIGHUP is never lost: the file as it was when the signal was sent, or a later
\* one, is read in the end, though signals are coalesced and may come during
\* start-up or during another reload; unless the process ends.
ReloadsTakeEffect == (asked > read) ~> (asked <= read \/ cancelled \/ ~Running)
=============================================================================
