----------------------------- MODULE DaemonProofs -----------------------------
(* Safety of the life of the process, for any number of migrations, keypairs, *)
(* edits, signals, sockets, origins and resolutions under way.                *)
EXTENDS Daemon, FiniteSetTheorems, SequenceTheorems, TLAPS

Clients == Sockets \cup {NoSocket}
Pcs == {"down", "migrate", "private", "public", "generate", "set_private", "set_public",
        "open", "ready", "serve", "load", "swap", "swap_api", "apply"}
MainRecord == [pc : Pcs, next : Nat, key : Nat, fresh : Values]

TypeOK ==
    /\ files \in Nat /\ schema \in Seq(Nat) /\ recorded \subseteq Nat
    /\ settings \in [private : Nat, public : Nat]
    /\ file \in [version : Nat, socket : Values \cup {Unreadable}]
    /\ main \in MainRecord
    /\ conf \in Values
    /\ served \subseteq Nat

\* The steps that leave the process where it is, and its disk and its clients.
lifeVars == <<diskVars, main, confVars, docker, served>>

-----------------------------------------------------------------------------
(* Types *)

LEMMA InitTyped == Init => TypeOK
BY DEF Init, TypeOK, MainRecord, Down, Values, Pcs

\* Signals, resolutions and edits of the file go on beside the goroutine of Run.
LEMMA BesideRun ==
    ASSUME HandleSignals \/ Proxies \/ Edit \/ (\E sig \in {"hup", "term"} : Deliver(sig))
           \/ UNCHANGED daemonVars
    PROVE  UNCHANGED lifeVars
<1>1. CASE HandleSignals
  BY <1>1 DEF HandleSignals, lifeVars, resolverVars, historyVars
<1>2. CASE Proxies
  <2>1. docker' = docker
    BY <1>2 DEF Proxies, Resolution, Resolve, LookupHost, TakeClient, Inspect, StoreAnswer,
                Answered, DialFails, Expire
  <2> QED BY <1>2, <2>1 DEF Proxies, lifeVars, historyVars
<1>3. CASE Edit
  BY <1>3 DEF Edit, lifeVars, resolverVars, historyVars
<1>4. ASSUME NEW sig \in {"hup", "term"}, Deliver(sig) PROVE UNCHANGED lifeVars
  BY <1>4 DEF Deliver, lifeVars, resolverVars, historyVars
<1>5. CASE UNCHANGED daemonVars
  BY <1>5 DEF daemonVars, lifeVars, resolverVars, historyVars
<1> QED BY <1>1, <1>2, <1>3, <1>4, <1>5

\* The process ends: at an error of a setting, by Stop or by a crash.
LEMMA Ending ==
    ASSUME GetKeyFails \/ Stop \/ Crash
    PROVE  main' = Down /\ conf' = NoSocket /\ UNCHANGED <<diskVars, file, served>>
BY DEF GetKeyFails, ReadFails, Stop, Crash, Exits, historyVars

LEMMA StepTyped == TypeOK /\ [Next]_daemonVars => TypeOK'
<1> SUFFICES ASSUME TypeOK, [Next]_daemonVars PROVE TypeOK'
  OBVIOUS
<1> USE DEF MainRecord, Pcs
<1>1. CASE Start
  BY <1>1 DEF Start, TypeOK, Down, Values, diskVars
<1>2. CASE RunMigrations
  <2>1. main' \in MainRecord
    <3>1. CASE Migrated
      BY <3>1 DEF Migrated, Down, Values
    <3>2. CASE main' = [main EXCEPT !.next = @ + 1]
      BY <3>2 DEF TypeOK
    <3> QED BY <1>2, <3>1, <3>2 DEF RunMigrations, SkipMigration, Migrate
  <2>2. schema' \in Seq(Nat) /\ recorded' \subseteq Nat
    <3>1. main.next \in Nat
      BY DEF TypeOK
    <3>2. UNCHANGED <<schema, recorded>> \/ Migrate(main.next)
      BY <1>2 DEF RunMigrations, Migrated, SkipMigration
    <3>3. CASE UNCHANGED <<schema, recorded>>
      BY <3>3 DEF TypeOK
    <3>4. CASE Migrate(main.next)
      BY <3>1, <3>4 DEF Migrate, TypeOK
    <3> QED BY <3>2, <3>3, <3>4
  <2> QED BY <1>2, <2>1, <2>2 DEF RunMigrations, TypeOK, confVars, historyVars
<1>3. ASSUME NEW pc \in {"private", "public"}, NEW value, NEW found \in {"public", "open"},
             GetKey(pc, value, found)
      PROVE  TypeOK'
  <2>1. settings.private \in Nat
    BY DEF TypeOK
  <2>2. CASE main' = [main EXCEPT !.pc = "generate"]
    BY <1>3, <2>2 DEF GetKey, TypeOK, diskVars, confVars, historyVars
  <2>3. CASE main' = [main EXCEPT !.pc = found, !.key = settings.private]
    <3>1. main' \in MainRecord
      BY <2>1, <2>3 DEF TypeOK
    <3> QED BY <1>3, <3>1 DEF GetKey, TypeOK, diskVars, confVars, historyVars
  <2> QED BY <1>3, <2>2, <2>3 DEF GetKey, Goes
<1>4. CASE GetKeyFails \/ Stop \/ Crash
  <2>1. main' = Down /\ conf' = NoSocket /\ UNCHANGED <<diskVars, file, served>>
    BY <1>4, Ending
  <2>2. Down \in MainRecord /\ NoSocket \in Values
    BY DEF Down, Values
  <2>3. main' \in MainRecord /\ conf' \in Values
    BY <2>1, <2>2
  <2>4. files' \in Nat /\ schema' \in Seq(Nat) /\ recorded' \subseteq Nat
        /\ settings' \in [private : Nat, public : Nat]
    BY <2>1 DEF TypeOK, diskVars
  <2>5. file' \in [version : Nat, socket : Values \cup {Unreadable}] /\ served' \subseteq Nat
    BY <2>1 DEF TypeOK
  <2> QED BY <2>3, <2>4, <2>5 DEF TypeOK, Values
<1>5. CASE Generate
  <2>1. PICK key \in 1..MaxKeys : main' = [main EXCEPT !.pc = "set_private", !.key = key]
    BY <1>5 DEF Generate
  <2>2. main' \in MainRecord
    <3>1. key \in Nat
      BY DaemonBounds
    <3> QED BY <2>1, <3>1 DEF TypeOK
  <2> QED BY <1>5, <2>2 DEF Generate, TypeOK, diskVars, confVars, historyVars
<1>6. ASSUME NEW pc \in Pcs, NEW field \in {"private", "public"}, NEW then \in Pcs,
             SetKey(pc, field, then)
      PROVE  TypeOK'
  <2>1. main' \in MainRecord
    BY <1>6 DEF SetKey, Goes, TypeOK
  <2>2. settings' \in [private : Nat, public : Nat]
    BY <1>6 DEF SetKey, TypeOK
  <2> QED BY <1>6, <2>1, <2>2 DEF SetKey, TypeOK, confVars, historyVars
<1>7. CASE Serve
  <2>1. main' \in MainRecord
    BY <1>7 DEF Serve, Goes, TypeOK
  <2>2. served' \subseteq Nat
    BY <1>7 DEF Serve, TypeOK
  <2> QED BY <1>7, <2>1, <2>2 DEF Serve, TypeOK, diskVars
<1>8. CASE TakeReload
  <2>1. main' \in MainRecord
    BY <1>8 DEF TakeReload, Goes, TypeOK
  <2> QED BY <1>8, <2>1 DEF TakeReload, TypeOK, diskVars, confVars, historyVars
<1>9. CASE Load
  <2>1. main' \in MainRecord
    BY <1>9 DEF Load, TypeOK
  <2> QED BY <1>9, <2>1 DEF Load, TypeOK, diskVars, confVars
<1>10. CASE SwapResolver \/ SwapAPI
  <2>1. \E pc \in Pcs : Goes(pc)
    BY <1>10 DEF SwapResolver, SwapAPI
  <2>2. main' \in MainRecord
    BY <2>1 DEF Goes, TypeOK
  <2> QED BY <1>10, <2>2 DEF SwapResolver, SwapAPI, TypeOK, diskVars, confVars, historyVars
<1>11. CASE ApplyHotReload
  <2>1. main' \in MainRecord
    BY <1>11 DEF ApplyHotReload, TypeOK, Values
  <2>2. conf' \in Values
    BY <1>11 DEF ApplyHotReload, HotReload, TypeOK
  <2> QED BY <1>11, <2>1, <2>2 DEF ApplyHotReload, TypeOK, diskVars, historyVars
<1>12. CASE Upgrade
  BY <1>12 DEF Upgrade, TypeOK, confVars, historyVars
<1>13. CASE HandleSignals \/ Proxies \/ (\E sig \in {"hup", "term"} : Deliver(sig))
            \/ UNCHANGED daemonVars
  <2>1. file' = file
    BY <1>13 DEF HandleSignals, Proxies, Deliver, daemonVars
  <2> QED BY <1>13, <2>1, BesideRun DEF lifeVars, diskVars, confVars, TypeOK
<1>14. CASE Edit
  BY <1>14 DEF Edit, TypeOK, diskVars, confVars, historyVars
<1> QED
  BY <1>1, <1>2, <1>3, <1>4, <1>5, <1>6, <1>7, <1>8, <1>9, <1>10, <1>11, <1>12, <1>13, <1>14
  DEF Next, Boot, EnsureServerKeypair, OpenDevice, RunLoop

-----------------------------------------------------------------------------
(* Migrations                                                               *)

\* The database went through a prefix of the migrations, the rows say so, the
\* loop has not passed one by, and past the loop none of the program's is missing.
MigrationsOK ==
    /\ schema = [i \in 1..Len(schema) |-> i]
    /\ recorded = 1..Len(schema)
    /\ Len(schema) <= files
    /\ MainAt("migrate") => main.next \in 1..(Len(schema) + 1)
    /\ main.pc \notin {"down", "migrate"} => Len(schema) = files

\* All but three kinds of step keep what the migrations did, and none of these
\* enters the loop over the migrations.
Elsewhere ==
    /\ UNCHANGED <<files, schema, recorded>>
    /\ \/ main' = main
       \/ main' = Down
       \/ main.pc \notin {"down", "migrate"} /\ main'.pc \notin {"down", "migrate"}

LEMMA MigrationFrame ==
    TypeOK /\ [Next]_daemonVars => Start \/ RunMigrations \/ Upgrade \/ Elsewhere
<1> SUFFICES ASSUME TypeOK, [Next]_daemonVars, ~Start, ~RunMigrations, ~Upgrade
             PROVE  Elsewhere
  OBVIOUS
<1>1. ASSUME NEW pc \in Pcs \ {"down", "migrate"}, NEW then \in Pcs \ {"down", "migrate"},
             MainAt(pc), Goes(then)
      PROVE  main.pc \notin {"down", "migrate"} /\ main'.pc \notin {"down", "migrate"}
  BY <1>1 DEF MainAt, Goes, TypeOK, MainRecord
<1>2. ASSUME NEW pc \in {"private", "public"}, NEW value, NEW found \in {"public", "open"},
             GetKey(pc, value, found)
      PROVE  Elsewhere
  BY <1>2 DEF GetKey, Goes, MainAt, Elsewhere, TypeOK, MainRecord, diskVars
<1>3. CASE GetKeyFails \/ Stop \/ Crash
  BY <1>3, Ending DEF Elsewhere, diskVars
<1>4. CASE Generate
  BY <1>4 DEF Generate, MainAt, Elsewhere, TypeOK, MainRecord, diskVars
<1>5. ASSUME NEW pc \in Pcs \ {"down", "migrate"}, NEW field \in {"private", "public"},
             NEW then \in Pcs \ {"down", "migrate"}, SetKey(pc, field, then)
      PROVE  Elsewhere
  BY <1>5, <1>1 DEF SetKey, Elsewhere
<1>6. CASE Serve \/ TakeReload \/ SwapResolver \/ SwapAPI
  <2>1. \E pc \in Pcs \ {"down", "migrate"}, then \in Pcs \ {"down", "migrate"} :
           MainAt(pc) /\ Goes(then)
    BY <1>6 DEF Serve, TakeReload, SwapResolver, SwapAPI, Pcs
  <2>2. UNCHANGED diskVars
    BY <1>6 DEF Serve, TakeReload, SwapResolver, SwapAPI
  <2> QED BY <2>1, <2>2, <1>1 DEF Elsewhere, diskVars
<1>7. CASE Load \/ ApplyHotReload
  BY <1>7 DEF Load, ApplyHotReload, MainAt, Elsewhere, TypeOK, MainRecord, diskVars
<1>8. CASE HandleSignals \/ Proxies \/ (\E sig \in {"hup", "term"} : Deliver(sig))
           \/ UNCHANGED daemonVars \/ Edit
  BY <1>8, BesideRun DEF lifeVars, diskVars, Elsewhere
<1> QED
  BY <1>2, <1>3, <1>4, <1>5, <1>6, <1>7, <1>8
  DEF Next, Boot, EnsureServerKeypair, OpenDevice, RunLoop, Pcs

\* A sequence that goes through the numbers, with the next one put at its end.
LEMMA NextNumber ==
    ASSUME NEW s \in Seq(Nat), s = [i \in 1..Len(s) |-> i]
    PROVE  LET t == Append(s, Len(s) + 1)
           IN  Len(t) = Len(s) + 1 /\ t = [i \in 1..Len(t) |-> i]
<1> DEFINE t == Append(s, Len(s) + 1)
<1>1. Len(s) \in Nat /\ (\A i \in 1..Len(s) : s[i] = i)
  OBVIOUS
<1>2. t \in Seq(Nat) /\ Len(t) = Len(s) + 1
  BY <1>1
<1>3. \A i \in 1..Len(t) : t[i] = i
  BY <1>1, <1>2
<1> HIDE DEF t
<1>4. t \in [1..Len(t) -> Nat]
  BY <1>2, LenProperties
<1>5. t = [i \in 1..Len(t) |-> i]
  BY <1>3, <1>4
<1> QED BY <1>2, <1>5 DEF t

LEMMA StepMigrates == TypeOK /\ MigrationsOK /\ [Next]_daemonVars => MigrationsOK'
<1> SUFFICES ASSUME TypeOK, MigrationsOK, [Next]_daemonVars PROVE MigrationsOK'
  OBVIOUS
<1> DEFINE n == Len(schema)
           Order == schema = [i \in 1..Len(schema) |-> i]
           Rest(m) == /\ recorded' = 1..m
                      /\ m <= files'
                      /\ main'.pc = "migrate" => main'.next \in 1..(m + 1)
                      /\ main'.pc \notin {"down", "migrate"} => m = files'
<1>1. schema \in Seq(Nat) /\ n \in Nat /\ files \in Nat /\ main.next \in Nat
  BY DEF TypeOK, MainRecord
<1>2. /\ recorded = 1..n
      /\ n <= files
      /\ main.pc = "migrate" => main.next \in 1..(n + 1)
      /\ main.pc \notin {"down", "migrate"} => n = files
  BY DEF MigrationsOK, MainAt
<1>3. Order
  BY DEF MigrationsOK
<1>4. ASSUME Order', Rest(Len(schema')) PROVE MigrationsOK'
  BY <1>4 DEF MigrationsOK, MainAt
<1>5. ASSUME UNCHANGED schema, Rest(n) PROVE MigrationsOK'
  <2>1. Len(schema') = n /\ Order'
    BY <1>3, <1>5
  <2> HIDE DEF n, Order
  <2> QED BY <1>4, <1>5, <2>1
<1>6. ASSUME schema' = Append(schema, n + 1), Rest(n + 1) PROVE MigrationsOK'
  <2>1. Len(schema') = n + 1 /\ Order'
    BY <1>1, <1>3, <1>6, NextNumber
  <2> HIDE DEF n, Order
  <2> QED BY <1>4, <1>6, <2>1
<1> HIDE DEF n, Order
<1>7. CASE Start
  <2>1. main'.pc = "migrate" /\ main'.next = 1
    BY <1>7 DEF Start, Down
  <2>2. UNCHANGED <<files, schema, recorded>>
    BY <1>7 DEF Start, diskVars
  <2> QED BY <1>1, <1>2, <1>5, <2>1, <2>2
<1>8. CASE RunMigrations
  <2>1. main.pc = "migrate" /\ main.next \in 1..(n + 1) /\ files' = files
    BY <1>2, <1>8 DEF RunMigrations, MainAt
  <2>2. CASE main.next > files /\ Migrated
    <3>1. n = files
      BY <1>1, <1>2, <2>1, <2>2
    <3>2. main'.pc = "private" /\ UNCHANGED <<schema, recorded>>
      BY <2>2 DEF Migrated, Down
    <3> QED BY <1>1, <1>2, <1>5, <2>1, <3>1, <3>2
  <2>3. CASE main.next \in recorded /\ SkipMigration
    <3>1. main'.pc = "migrate" /\ main'.next = main.next + 1
      BY <2>1, <2>3 DEF SkipMigration, TypeOK, MainRecord
    <3>2. main.next \in 1..n /\ UNCHANGED <<schema, recorded>>
      BY <1>2, <2>3 DEF SkipMigration
    <3> QED BY <1>1, <1>2, <1>5, <2>1, <3>1, <3>2
  <2>4. CASE main.next <= files /\ main.next \notin recorded /\ Migrate(main.next)
    <3>1. main.next = n + 1
      BY <1>1, <1>2, <2>1, <2>4
    <3>2. main'.pc = "migrate" /\ main'.next = main.next + 1
      BY <2>1, <2>4 DEF Migrate, TypeOK, MainRecord
    <3>3. schema' = Append(schema, n + 1) /\ recorded' = recorded \cup {n + 1}
      BY <2>4, <3>1 DEF Migrate
    <3>4. recorded' = 1..(n + 1)
      BY <1>1, <1>2, <3>3
    <3> QED BY <1>1, <1>6, <2>1, <2>4, <3>1, <3>2, <3>3, <3>4
  <2> QED BY <1>8, <2>2, <2>3, <2>4 DEF RunMigrations
<1>9. CASE Upgrade
  BY <1>1, <1>2, <1>5, <1>9 DEF Upgrade, MainAt
<1>10. CASE Elsewhere
  <2>1. \/ main' = main \/ main'.pc = "down"
        \/ main.pc \notin {"down", "migrate"} /\ main'.pc \notin {"down", "migrate"}
    BY <1>10 DEF Elsewhere, Down
  <2>2. UNCHANGED <<files, schema, recorded>>
    BY <1>10 DEF Elsewhere
  <2> QED BY <1>1, <1>2, <1>5, <2>1, <2>2
<1> QED BY <1>7, <1>8, <1>9, <1>10, MigrationFrame

\* runMigrations (migrations.go) commits the body of a migration with its row, so
\* that, whatever crashes and upgrades come between, each migration has been
\* applied once and in order, and none is missing when the daemon serves.
THEOREM DaemonMigrationsRunOnce == DaemonSpec => []MigrationsRunOnce
<1>1. Init => TypeOK /\ MigrationsOK
  <2>1. Init => MigrationsOK
    BY DEF Init, MigrationsOK, MainAt, Down
  <2> QED BY <2>1, InitTyped
<1>2. TypeOK /\ MigrationsOK /\ [Next]_daemonVars => (TypeOK /\ MigrationsOK)'
  BY StepTyped, StepMigrates
<1>3. TypeOK /\ MigrationsOK => MigrationsRunOnce
  BY DEF MigrationsOK, MigrationsRunOnce, Serving
<1> QED BY <1>1, <1>2, <1>3, PTL DEF DaemonSpec

-----------------------------------------------------------------------------
(* The server's keypair                                                     *)

Opened == {"open", "ready", "serve", "load", "swap", "swap_api", "apply"}

\* A public key is stored only after its private one, so that a pair half
\* written has no public key; a pair is replaced only then, and none has been
\* served by then.
KeysOK ==
    /\ settings.public # 0 => settings.public = settings.private
    /\ served # {} => served = {settings.private} /\ settings.public # 0
    /\ main.pc \in {"generate", "set_private", "set_public"} => settings.public = 0
    /\ main.pc \in {"set_private", "set_public"} => main.key # 0
    /\ main.pc = "set_public" => main.key = settings.private
    /\ main.pc = "public" => main.key = settings.private /\ settings.private # 0
    /\ main.pc \in Opened => /\ main.key = settings.private /\ settings.private # 0
                             /\ settings.public = settings.private

\* The steps that neither touch the pair nor rely on it.
KeysRest ==
    /\ UNCHANGED <<settings, served>>
    /\ \/ main' = main
       \/ main'.pc \in {"down", "migrate", "private"}
       \/ main'.key = main.key /\ main.pc \in Opened /\ main'.pc \in Opened

LEMMA KeysFrame ==
    ASSUME TypeOK, [Next]_daemonVars
    PROVE  EnsureServerKeypair \/ OpenDevice \/ Serve \/ KeysRest
<1>1. CASE Start
  BY <1>1 DEF Start, KeysRest, diskVars
<1>2. CASE RunMigrations
  <2>1. main' = [main EXCEPT !.next = @ + 1] => main'.pc = main.pc
    BY DEF TypeOK, MainRecord
  <2>2. main'.pc \in {"migrate", "private"}
    <3>1. Migrated => main'.pc = "private"
      BY DEF Migrated, Down
    <3>2. main.pc = "migrate" /\ (Migrated \/ main' = [main EXCEPT !.next = @ + 1])
      BY <1>2 DEF RunMigrations, SkipMigration, Migrate, MainAt
    <3> QED BY <2>1, <3>1, <3>2
  <2> QED BY <1>2, <2>2 DEF RunMigrations, KeysRest, historyVars
<1>3. CASE Stop \/ Crash
  BY <1>3, Ending DEF KeysRest, Down, diskVars
<1>4. ASSUME NEW pc \in Opened, NEW then \in Opened, MainAt(pc), Goes(then)
      PROVE  main'.key = main.key /\ main.pc \in Opened /\ main'.pc \in Opened
  BY <1>4 DEF MainAt, Goes, TypeOK, MainRecord
<1>5. CASE TakeReload \/ SwapResolver \/ SwapAPI
  <2>1. \E pc \in Opened, then \in Opened : MainAt(pc) /\ Goes(then)
    BY <1>5 DEF TakeReload, SwapResolver, SwapAPI, Opened
  <2>2. UNCHANGED <<diskVars, historyVars>>
    BY <1>5 DEF TakeReload, SwapResolver, SwapAPI
  <2> QED BY <1>4, <2>1, <2>2 DEF KeysRest, diskVars, historyVars
<1>6. CASE Load \/ ApplyHotReload
  <2>1. main'.key = main.key /\ main.pc \in Opened /\ main'.pc \in Opened
    BY <1>6 DEF Load, ApplyHotReload, MainAt, Opened, TypeOK, MainRecord
  <2>2. UNCHANGED <<diskVars, served>>
    BY <1>6 DEF Load, ApplyHotReload, historyVars
  <2> QED BY <2>1, <2>2 DEF KeysRest, diskVars
<1>7. CASE Upgrade
  BY <1>7 DEF Upgrade, KeysRest, historyVars
<1>8. CASE HandleSignals \/ Proxies \/ (\E sig \in {"hup", "term"} : Deliver(sig))
           \/ UNCHANGED daemonVars \/ Edit
  BY <1>8, BesideRun DEF lifeVars, diskVars, KeysRest
<1> QED BY <1>1, <1>2, <1>3, <1>5, <1>6, <1>7, <1>8 DEF Next, Boot, RunLoop

LEMMA StepKeys == TypeOK /\ KeysOK /\ [Next]_daemonVars => KeysOK'
<1> SUFFICES ASSUME TypeOK, KeysOK, [Next]_daemonVars PROVE KeysOK'
  OBVIOUS
<1>0. settings \in [private : Nat, public : Nat] /\ main \in MainRecord
  BY DEF TypeOK
<1>1. CASE GetKey("private", settings.private, "public")
  <2>1. main.pc = "private" /\ UNCHANGED <<settings, served>>
    BY <1>1 DEF GetKey, MainAt, diskVars, historyVars
  <2>2. CASE settings.private = 0
    <3>1. main'.pc = "generate"
      BY <1>0, <1>1, <2>2 DEF GetKey, Goes, MainRecord
    <3> QED BY <2>1, <2>2, <3>1 DEF KeysOK, Opened
  <2>3. CASE settings.private # 0
    <3>1. main'.pc = "public" /\ main'.key = settings.private
      BY <1>0, <1>1, <2>3 DEF GetKey, MainRecord
    <3> QED BY <2>1, <2>3, <3>1 DEF KeysOK, Opened
  <2> QED BY <2>2, <2>3
<1>2. CASE GetKey("public", settings.public, "open")
  <2>1. main.pc = "public" /\ UNCHANGED <<settings, served>>
    BY <1>2 DEF GetKey, MainAt, diskVars, historyVars
  <2>2. CASE settings.public = 0
    <3>1. main'.pc = "generate"
      BY <1>0, <1>2, <2>2 DEF GetKey, Goes, MainRecord
    <3> QED BY <2>1, <2>2, <3>1 DEF KeysOK, Opened
  <2>3. CASE settings.public # 0
    <3>1. main'.pc = "open" /\ main'.key = settings.private
      BY <1>0, <1>2, <2>3 DEF GetKey, MainRecord
    <3> QED BY <2>1, <2>3, <3>1 DEF KeysOK, Opened
  <2> QED BY <2>2, <2>3
<1>3. CASE GetKeyFails
  BY <1>3, Ending DEF KeysOK, Opened, Down, diskVars
<1>4. CASE Generate
  <2>1. PICK key \in 1..MaxKeys : main' = [main EXCEPT !.pc = "set_private", !.key = key]
    BY <1>4 DEF Generate
  <2>2. key # 0
    BY DaemonBounds
  <2>3. main'.pc = "set_private" /\ main'.key = key
    BY <1>0, <2>1 DEF MainRecord
  <2>4. main.pc = "generate" /\ UNCHANGED <<settings, served>>
    BY <1>4 DEF Generate, MainAt, diskVars, historyVars
  <2> QED BY <2>2, <2>3, <2>4 DEF KeysOK, Opened
<1>5. CASE SetKey("set_private", "private", "set_public")
  <2>1. main.pc = "set_private" /\ main'.pc = "set_public" /\ main'.key = main.key
    BY <1>0, <1>5 DEF SetKey, Goes, MainAt, MainRecord
  <2>2. settings'.private = main.key /\ settings'.public = settings.public /\ served' = served
    BY <1>0, <1>5 DEF SetKey, historyVars
  <2> QED BY <2>1, <2>2 DEF KeysOK, Opened
<1>6. CASE SetKey("set_public", "public", "open")
  <2>1. main.pc = "set_public" /\ main'.pc = "open" /\ main'.key = main.key
    BY <1>0, <1>6 DEF SetKey, Goes, MainAt, MainRecord
  <2>2. settings'.private = settings.private /\ settings'.public = main.key /\ served' = served
    BY <1>0, <1>6 DEF SetKey, historyVars
  <2> QED BY <2>1, <2>2 DEF KeysOK, Opened
<1>7. CASE OpenDevice
  <2>1. main.pc = "open" /\ main'.pc = "ready" /\ main'.key = main.key
    BY <1>0, <1>7 DEF OpenDevice, SetKey, Goes, MainAt, MainRecord
  <2>2. settings'.private = settings.private /\ settings'.public = main.key /\ served' = served
    BY <1>0, <1>7 DEF OpenDevice, SetKey, historyVars
  <2> QED BY <2>1, <2>2 DEF KeysOK, Opened
<1>8. CASE Serve
  <2>1. main.pc = "ready" /\ main'.pc = "serve" /\ main'.key = main.key
    BY <1>0, <1>8 DEF Serve, Goes, MainAt, MainRecord
  <2>2. settings' = settings /\ served' = served \cup {main.key}
    BY <1>8 DEF Serve, diskVars
  <2> QED BY <2>1, <2>2 DEF KeysOK, Opened
<1>9. CASE KeysRest
  BY <1>9 DEF KeysRest, KeysOK, Opened
<1> QED
  BY <1>1, <1>2, <1>3, <1>4, <1>5, <1>6, <1>7, <1>8, <1>9, KeysFrame DEF EnsureServerKeypair

\* ensureServerKeypair (daemon.go) generates a pair only when a key is missing,
\* and a pair that has been served is complete: clients configured with the
\* public key keep reaching the server after any crash, restart or failed read.
THEOREM DaemonServerKeyIsStable == DaemonSpec => []ServerKeyIsStable
<1>1. Init => TypeOK /\ KeysOK
  <2>1. Init => KeysOK
    BY DEF Init, KeysOK, Opened, Down
  <2> QED BY <2>1, InitTyped
<1>2. TypeOK /\ KeysOK /\ [Next]_daemonVars => (TypeOK /\ KeysOK)'
  BY StepTyped, StepKeys
<1>3. TypeOK /\ KeysOK => ServerKeyIsStable
  <2> SUFFICES ASSUME TypeOK, KeysOK PROVE ServerKeyIsStable
    OBVIOUS
  <2>1. Cardinality(served) <= 1
    <3>1. served = {} \/ served = {settings.private}
      BY DEF KeysOK
    <3>2. Cardinality({}) = 0 /\ Cardinality({settings.private}) = 1
      BY FS_EmptySet, FS_Singleton
    <3> QED BY <3>1, <3>2
  <2>2. Serving => ConfiguredKey = main.key /\ settings.private = main.key
    BY DEF KeysOK, Opened, Serving, ConfiguredKey
  <2> QED BY <2>1, <2>2 DEF ServerKeyIsStable
<1> QED BY <1>1, <1>2, <1>3, PTL DEF DaemonSpec

-----------------------------------------------------------------------------
(* The client of the docker daemon                                          *)

\* Half way through a reload the resolver may have the new client and the API
\* still the old one; the configuration names the new one only afterwards.
ClientOK ==
    /\ main.pc \in {"serve", "load", "swap"} =>
          docker = apiDocker /\ (conf # BadSocket => docker = conf)
    /\ main.pc = "swap_api" => docker = main.fresh /\ main.fresh # BadSocket
    /\ main.pc = "apply" =>
          docker = apiDocker /\ (main.fresh # BadSocket => docker = main.fresh)

\* The steps that leave the clients and the configuration, or end before serving.
ClientRest ==
    \/ main'.pc \notin {"serve", "load", "swap", "swap_api", "apply"}
    \/ UNCHANGED <<main, docker, confVars>>

LEMMA ClientFrame ==
    ASSUME TypeOK, [Next]_daemonVars
    PROVE  \/ Serve \/ TakeReload \/ Load \/ SwapResolver \/ SwapAPI \/ ApplyHotReload
           \/ ClientRest
<1>1. CASE Start \/ Upgrade \/ RunMigrations
  <2>1. main'.pc \in {"down", "migrate", "private"}
    <3>1. main' = [main EXCEPT !.next = @ + 1] => main'.pc = main.pc
      BY DEF TypeOK, MainRecord
    <3>2. [Down EXCEPT !.pc = "private"].pc = "private" /\ [Down EXCEPT !.pc = "migrate"].pc = "migrate"
      BY DEF Down
    <3>3. CASE Start \/ Upgrade
      BY <3>2, <3>3 DEF Start, Upgrade, MainAt
    <3>4. CASE RunMigrations
      <4>1. Migrated => main'.pc = "private"
        BY <3>2 DEF Migrated
      <4>2. main.pc = "migrate" /\ (Migrated \/ main' = [main EXCEPT !.next = @ + 1])
        BY <3>4 DEF RunMigrations, SkipMigration, Migrate, MainAt
      <4> QED BY <3>1, <4>1, <4>2
    <3> QED BY <1>1, <3>3, <3>4
  <2> QED BY <2>1 DEF ClientRest
<1>2. CASE EnsureServerKeypair \/ OpenDevice
  <2>1. ASSUME NEW pc \in {"generate", "set_private", "set_public", "open", "ready"}, Goes(pc)
        PROVE  ClientRest
    BY <2>1 DEF Goes, TypeOK, MainRecord, ClientRest
  <2>2. ASSUME NEW pc, NEW value, NEW found \in {"public", "open"}, GetKey(pc, value, found)
        PROVE  ClientRest
    <3>1. main' = [main EXCEPT !.pc = found, !.key = settings.private] => main'.pc = found
      BY DEF TypeOK, MainRecord
    <3> QED BY <2>1, <2>2, <3>1 DEF GetKey, ClientRest
  <2>3. CASE GetKeyFails
    BY <2>3, Ending DEF ClientRest, Down
  <2>4. CASE Generate
    <3>1. PICK key \in 1..MaxKeys : main' = [main EXCEPT !.pc = "set_private", !.key = key]
      BY <2>4 DEF Generate
    <3>2. main'.pc = "set_private"
      BY <3>1 DEF TypeOK, MainRecord
    <3> QED BY <3>2 DEF ClientRest
  <2>5. ASSUME NEW pc, NEW field, NEW then \in {"set_public", "open", "ready"},
               SetKey(pc, field, then)
        PROVE  ClientRest
    BY <2>1, <2>5 DEF SetKey
  <2> QED BY <1>2, <2>2, <2>3, <2>4, <2>5 DEF EnsureServerKeypair, OpenDevice
<1>3. CASE Stop \/ Crash
  BY <1>3, Ending DEF ClientRest, Down
<1>4. CASE HandleSignals \/ Proxies \/ (\E sig \in {"hup", "term"} : Deliver(sig))
           \/ UNCHANGED daemonVars \/ Edit
  BY <1>4, BesideRun DEF lifeVars, ClientRest
<1> QED BY <1>1, <1>2, <1>3, <1>4 DEF Next, Boot, RunLoop

LEMMA StepClient == TypeOK /\ ClientOK /\ [Next]_daemonVars => ClientOK'
<1> SUFFICES ASSUME TypeOK, ClientOK, [Next]_daemonVars PROVE ClientOK'
  OBVIOUS
<1>0. main \in MainRecord
  BY DEF TypeOK
<1>1. CASE Serve
  <2>1. main'.pc = "serve"
    BY <1>0, <1>1 DEF Serve, Goes, MainRecord
  <2>2. docker' = ClientFor(conf) /\ apiDocker' = ClientFor(conf) /\ conf' = conf
    BY <1>1 DEF Serve
  <2> QED BY <2>1, <2>2 DEF ClientFor, ClientOK
<1>2. CASE TakeReload
  <2>1. main.pc = "serve" /\ main'.pc = "load"
    BY <1>0, <1>2 DEF TakeReload, MainAt, Goes, MainRecord
  <2>2. UNCHANGED <<docker, apiDocker, conf>>
    BY <1>2 DEF TakeReload, confVars, resolverVars
  <2> QED BY <2>1, <2>2 DEF ClientOK
<1>3. CASE Load
  <2>1. main.pc = "load" /\ UNCHANGED <<docker, apiDocker, conf>>
    BY <1>3 DEF Load, MainAt, confVars, resolverVars
  <2>2. \/ main'.pc \in {"serve", "swap"}
        \/ main'.pc = "apply" /\ main'.fresh = conf
    BY <1>0, <1>3 DEF Load, MainRecord
  <2> QED BY <2>1, <2>2 DEF ClientOK
<1>4. CASE SwapResolver
  <2>1. main.pc = "swap" /\ UNCHANGED <<apiDocker, conf>>
    BY <1>4 DEF SwapResolver, MainAt, confVars
  <2>2. CASE main.fresh = BadSocket
    <3>1. main'.pc = "apply" /\ main'.fresh = BadSocket /\ docker' = docker
      BY <1>0, <1>4, <2>2 DEF SwapResolver, Goes, MainRecord, resolverVars
    <3> QED BY <2>1, <3>1 DEF ClientOK
  <2>3. CASE main.fresh # BadSocket
    <3>1. main'.pc = "swap_api" /\ main'.fresh = main.fresh /\ docker' = main.fresh
      BY <1>0, <1>4, <2>3 DEF SwapResolver, SetDocker, Goes, MainRecord
    <3> QED BY <2>1, <2>3, <3>1 DEF ClientOK
  <2> QED BY <2>2, <2>3
<1>5. CASE SwapAPI
  <2>1. main.pc = "swap_api" /\ main'.pc = "apply" /\ main'.fresh = main.fresh
    BY <1>0, <1>5 DEF SwapAPI, MainAt, Goes, MainRecord
  <2>2. docker' = docker /\ apiDocker' = main.fresh
    BY <1>5 DEF SwapAPI, resolverVars
  <2> QED BY <2>1, <2>2 DEF ClientOK
<1>6. CASE ApplyHotReload
  <2>1. main.pc = "apply" /\ main'.pc = "serve"
    BY <1>0, <1>6 DEF ApplyHotReload, MainAt, MainRecord
  <2>2. conf' = main.fresh /\ UNCHANGED <<docker, apiDocker>>
    BY <1>6 DEF ApplyHotReload, HotReload, resolverVars
  <2> QED BY <2>1, <2>2 DEF ClientOK
<1>7. CASE ClientRest
  BY <1>7 DEF ClientRest, ClientOK, confVars
<1> QED BY <1>1, <1>2, <1>3, <1>4, <1>5, <1>6, <1>7, ClientFrame

\* Run (daemon.go) replaces the client of the resolver and of the API before it
\* records the new docker.socket, and keeps both when docker.New refuses it:
\* after every reload the two agree with each other and with the configuration.
THEOREM DaemonClientFollowsConfiguration == DaemonSpec => []ClientFollowsConfiguration
<1>1. Init => TypeOK /\ ClientOK
  <2>1. Init => ClientOK
    BY DEF Init, ClientOK, Down
  <2> QED BY <2>1, InitTyped
<1>2. TypeOK /\ ClientOK /\ [Next]_daemonVars => (TypeOK /\ ClientOK)'
  BY StepTyped, StepClient
<1>3. TypeOK /\ ClientOK => ClientFollowsConfiguration
  BY DEF ClientOK, ClientFollowsConfiguration, MainAt
<1> QED BY <1>1, <1>2, <1>3, PTL DEF DaemonSpec

-----------------------------------------------------------------------------
(* Answers of the resolver                                                  *)

Froms == Values \cup {Dns, Nothing}
CallRecords ==
    [pc : {"lookup", "client", "inspect", "store", "dial"},
     origin : Origins, from : Froms, late : BOOLEAN] \cup {Resting}
Entries == [from : Froms, late : BOOLEAN] \cup {Nothing}

ResolverTyped ==
    docker \in Values /\ cache \in [Origins -> Entries] /\ call \in [Calls -> CallRecords]

\* What a goroutine is about to store came from the client in use or from DNS,
\* or it is marked; when the daemon does not serve there is nothing at all.
Honest(answer) == answer.from \in {docker, Dns} \/ answer.late
AnswersOK ==
    /\ ResolverTyped
    /\ \A c \in Calls : call[c].pc \in {"inspect", "store"} => Honest(call[c])
    /\ \A o \in Origins : cache[o] # Nothing => Honest(cache[o])
    /\ ~Serving => cache = EmptyCache /\ call = NoCalls

LEMMA NothingHeld ==
    ASSUME docker' \in Values, cache' = EmptyCache, call' = NoCalls
    PROVE  AnswersOK'
<1>1. ResolverTyped'
  BY DEF ResolverTyped, EmptyCache, NoCalls, Entries, CallRecords
<1>2. \A c \in Calls : call'[c].pc = "idle"
  BY DEF NoCalls, Resting
<1>3. \A o \in Origins : cache'[o] = Nothing
  BY DEF EmptyCache
<1> QED BY <1>1, <1>2, <1>3 DEF AnswersOK

\* One goroutine goes on and the client stays the same.
LEMMA GoesOn ==
    ASSUME AnswersOK, NEW c \in Calls, NEW r \in CallRecords,
           call' = [call EXCEPT ![c] = r], UNCHANGED <<docker, cache>>,
           r.pc \in {"inspect", "store"} => Honest(r), Serving, Serving'
    PROVE  AnswersOK'
<1>1. ResolverTyped'
  BY DEF AnswersOK, ResolverTyped
<1>2. ASSUME NEW d \in Calls, call'[d].pc \in {"inspect", "store"}
      PROVE  call'[d].from \in {docker', Dns} \/ call'[d].late
  <2>1. call'[d] = IF d = c THEN r ELSE call[d]
    BY DEF AnswersOK, ResolverTyped
  <2> QED BY <1>2, <2>1 DEF AnswersOK, Honest
<1>3. \A o \in Origins : cache'[o] # Nothing => (cache'[o].from \in {docker', Dns} \/ cache'[o].late)
  BY DEF AnswersOK, Honest
<1> QED BY <1>1, <1>2, <1>3 DEF AnswersOK, Honest

LEMMA StepResolves ==
    ASSUME AnswersOK, NEW c \in Calls, Resolution(c), Serving, Serving'
    PROVE  AnswersOK'
<1>0. ResolverTyped /\ call[c] \in CallRecords
  BY DEF AnswersOK, ResolverTyped
<1> Resting \in CallRecords /\ Resting.pc = "idle"
  BY DEF CallRecords, Resting
<1>1. ASSUME Rests(c), UNCHANGED <<docker, cache>> PROVE AnswersOK'
  BY <1>1, GoesOn DEF Rests
<1>2. ASSUME NEW pc \in {"store", "client", "inspect"}, NEW from \in Froms, Step(c, pc, from),
             call[c].pc # "idle", UNCHANGED <<docker, cache>>,
             pc \in {"inspect", "store"} => from \in {docker, Dns}
      PROVE  AnswersOK'
  <2> DEFINE r == [pc |-> pc, origin |-> call[c].origin, from |-> from, late |-> FALSE]
  <2>1. call' = [call EXCEPT ![c] = r]
    BY <1>2 DEF Step
  <2>2. r \in CallRecords
    BY <1>0, <1>2 DEF CallRecords, Resting
  <2>3. r.pc \in {"inspect", "store"} => Honest(r)
    BY <1>2 DEF Honest
  <2> HIDE DEF r
  <2> QED BY <1>2, <2>1, <2>2, <2>3, GoesOn
<1>3. CASE Resolve(c)
  <2>1. PICK o \in Origins, pc \in {"dial", "client", "lookup"} :
           call' = [call EXCEPT ![c] = [pc |-> pc, origin |-> o, from |-> Nothing, late |-> FALSE]]
    BY <1>3 DEF Resolve
  <2> DEFINE r == [pc |-> pc, origin |-> o, from |-> Nothing, late |-> FALSE]
  <2>2. r \in CallRecords /\ r.pc \notin {"inspect", "store"}
    BY DEF CallRecords, Froms
  <2>3. call' = [call EXCEPT ![c] = r] /\ UNCHANGED <<docker, cache>>
    BY <1>3, <2>1 DEF Resolve
  <2> HIDE DEF r
  <2> QED BY <2>2, <2>3, GoesOn
<1>4. CASE LookupHost(c)
  BY <1>1, <1>2, <1>4 DEF LookupHost, CallAt, Froms
<1>5. CASE TakeClient(c)
  <2>1. docker \in Froms
    BY <1>0 DEF ResolverTyped, Froms
  <2> QED BY <1>1, <1>2, <1>5, <2>1 DEF TakeClient, CallAt
<1>6. CASE Inspect(c)
  <2>1. CASE call' = [call EXCEPT ![c].pc = "store"]
    <3> DEFINE r == [call[c] EXCEPT !.pc = "store"]
    <3>1. call[c].pc = "inspect" /\ Honest(call[c]) /\ UNCHANGED <<docker, cache>>
      BY <1>6 DEF Inspect, CallAt, AnswersOK
    <3>2. r \in CallRecords /\ r.from = call[c].from /\ r.late = call[c].late
      BY <1>0, <3>1 DEF CallRecords, Resting
    <3>3. call' = [call EXCEPT ![c] = r]
      BY <2>1
    <3>4. Honest(r)
      BY <3>1, <3>2 DEF Honest
    <3> HIDE DEF r
    <3> QED BY <3>1, <3>2, <3>3, <3>4, GoesOn
  <2> QED BY <1>1, <1>6, <2>1 DEF Inspect
<1>7. CASE StoreAnswer(c)
  <2> DEFINE from == call[c].from  late == call[c].late  origin == call[c].origin
             entry == [from |-> from, late |-> late]
  <2>1. call[c].pc = "store" /\ docker' = docker /\ Honest(call[c])
    BY <1>7 DEF StoreAnswer, CallAt, AnswersOK
  <2>2. from \in Froms /\ late \in BOOLEAN /\ origin \in Origins
    BY <1>0, <2>1 DEF CallRecords, Resting
  <2>3. entry \in Entries /\ Honest(entry)
    BY <2>1, <2>2 DEF Entries, Honest
  <2>4. cache' = [cache EXCEPT ![origin] = entry]
    BY <1>7 DEF StoreAnswer
  <2>5. call' = [call EXCEPT ![c] = [call[c] EXCEPT !.pc = "dial"]]
    BY <1>7 DEF StoreAnswer
  <2>6. [call[c] EXCEPT !.pc = "dial"] \in CallRecords /\ [call[c] EXCEPT !.pc = "dial"].pc = "dial"
    BY <1>0, <2>1 DEF CallRecords, Resting
  <2> HIDE DEF entry, from, late, origin
  <2>7. ResolverTyped'
    BY <1>0, <2>1, <2>2, <2>3, <2>4, <2>5, <2>6 DEF ResolverTyped
  <2>8. \A d \in Calls : call'[d].pc \in {"inspect", "store"} => call'[d] = call[d]
    BY <1>0, <2>5, <2>6 DEF ResolverTyped
  <2>9. \A o \in Origins : cache'[o] = entry \/ cache'[o] = cache[o]
    BY <1>0, <2>2, <2>4 DEF ResolverTyped
  <2> QED BY <2>1, <2>3, <2>7, <2>8, <2>9 DEF AnswersOK, Honest
<1>8. CASE Answered(c)
  BY <1>1, <1>8 DEF Answered
<1>9. CASE DialFails(c)
  <2>1. cache' = [cache EXCEPT ![call[c].origin] = Nothing] /\ docker' = docker
        /\ call' = [call EXCEPT ![c] = Resting]
    BY <1>9 DEF DialFails, Invalidate, Rests
  <2>2. ResolverTyped'
    BY <1>0, <2>1 DEF ResolverTyped, Entries
  <2>3. \A d \in Calls : call'[d] = Resting \/ call'[d] = call[d]
    BY <1>0, <2>1 DEF ResolverTyped
  <2>4. \A o \in Origins : cache'[o] = Nothing \/ cache'[o] = cache[o]
    BY <1>0, <2>1 DEF ResolverTyped
  <2> QED BY <2>1, <2>2, <2>3, <2>4 DEF AnswersOK, Honest
<1> QED BY <1>3, <1>4, <1>5, <1>6, <1>7, <1>8, <1>9 DEF Resolution

LEMMA ResolverFrame ==
    ASSUME TypeOK, [Next]_daemonVars
    PROVE  \/ Serve \/ SwapResolver \/ Proxies \/ GetKeyFails \/ Stop \/ Crash
           \/ UNCHANGED resolverVars /\ (Serving => Serving')
<1>1. CASE Start \/ Upgrade \/ RunMigrations \/ Generate
  <2>1. ~Serving /\ UNCHANGED resolverVars
    BY <1>1 DEF Start, Upgrade, RunMigrations, Generate, MainAt, Serving
  <2> QED BY <2>1
<1>2. ASSUME NEW pc \in {"private", "public"}, NEW value, NEW found, GetKey(pc, value, found)
      PROVE  UNCHANGED resolverVars /\ ~Serving
  BY <1>2 DEF GetKey, MainAt, Serving
<1>3. ASSUME NEW pc \in {"set_private", "set_public", "open"}, NEW field, NEW then,
             SetKey(pc, field, then)
      PROVE  UNCHANGED resolverVars /\ ~Serving
  BY <1>3 DEF SetKey, MainAt, Serving
<1>4. CASE TakeReload \/ SwapAPI \/ Load \/ ApplyHotReload
  <2>1. UNCHANGED resolverVars
    BY <1>4 DEF TakeReload, SwapAPI, Load, ApplyHotReload
  <2>2. Serving'
    BY <1>4 DEF TakeReload, SwapAPI, Load, ApplyHotReload, Goes, Serving, TypeOK, MainRecord
  <2> QED BY <2>1, <2>2
<1>5. CASE HandleSignals \/ (\E sig \in {"hup", "term"} : Deliver(sig))
           \/ UNCHANGED daemonVars \/ Edit
  <2>1. main' = main
    BY <1>5, BesideRun DEF lifeVars
  <2>2. UNCHANGED resolverVars
    BY <1>5 DEF HandleSignals, Deliver, Edit, daemonVars
  <2> QED BY <2>1, <2>2 DEF Serving
<1> QED
  BY <1>1, <1>2, <1>3, <1>4, <1>5
  DEF Next, Boot, RunLoop, EnsureServerKeypair, OpenDevice

LEMMA StepAnswers == TypeOK /\ AnswersOK /\ [Next]_daemonVars => AnswersOK'
<1> SUFFICES ASSUME TypeOK, AnswersOK, [Next]_daemonVars PROVE AnswersOK'
  OBVIOUS
<1>0. main \in MainRecord /\ conf \in Values /\ ResolverTyped
  BY DEF TypeOK, AnswersOK
<1>1. CASE Serve
  <2>1. cache = EmptyCache /\ call = NoCalls
    BY <1>1 DEF Serve, MainAt, Serving, AnswersOK
  <2>2. docker' \in Values
    BY <1>0, <1>1 DEF Serve, ClientFor, Values
  <2> QED BY <1>1, <2>1, <2>2, NothingHeld DEF Serve, EmptyCache, NoCalls
<1>2. CASE SwapResolver
  <2>1. Serving /\ Serving'
    BY <1>0, <1>2 DEF SwapResolver, MainAt, Goes, Serving, MainRecord
  <2>2. CASE UNCHANGED resolverVars
    BY <2>1, <2>2 DEF resolverVars, AnswersOK, ResolverTyped, Honest
  <2>3. CASE SetDocker(main.fresh)
    <3>1. docker' \in Values /\ cache' = EmptyCache
      BY <1>0, <2>3 DEF SetDocker, MainRecord
    <3>2. \A c \in Calls :
             \/ /\ call[c].pc \in {"inspect", "store"} /\ call[c].from # Dns
                /\ call'[c] = [call[c] EXCEPT !.late = TRUE]
             \/ /\ ~(call[c].pc \in {"inspect", "store"} /\ call[c].from # Dns)
                /\ call'[c] = call[c]
      BY <2>3 DEF SetDocker
    <3>3. \A c \in Calls : call[c] \in CallRecords
      BY <1>0 DEF ResolverTyped
    <3>4. \A c \in Calls : call'[c] \in CallRecords
      <4> SUFFICES ASSUME NEW c \in Calls PROVE call'[c] \in CallRecords
        OBVIOUS
      <4>1. call[c].pc \in {"inspect", "store"} => [call[c] EXCEPT !.late = TRUE] \in CallRecords
        BY <3>3 DEF CallRecords, Resting
      <4> QED BY <3>2, <3>3, <4>1
    <3>5. call' \in [Calls -> CallRecords]
      BY <2>3, <3>4 DEF SetDocker
    <3>6. ResolverTyped'
      BY <3>1, <3>5 DEF ResolverTyped, EmptyCache, Entries
    <3>7. ASSUME NEW c \in Calls, call'[c].pc \in {"inspect", "store"}
          PROVE  call'[c].from \in {docker', Dns} \/ call'[c].late
      <4>1. CASE call[c].pc \in {"inspect", "store"} /\ call[c].from # Dns
        <5>1. [call[c] EXCEPT !.late = TRUE].late
          BY <3>3, <4>1 DEF CallRecords, Resting
        <5> QED BY <3>2, <4>1, <5>1
      <4> QED BY <3>2, <3>7, <4>1
    <3>8. \A o \in Origins : cache'[o] = Nothing
      BY <3>1 DEF EmptyCache
    <3> QED BY <2>1, <3>6, <3>7, <3>8 DEF AnswersOK, Honest
  <2> QED BY <1>2, <2>2, <2>3 DEF SwapResolver
<1>3. CASE Proxies
  <2>1. Serving /\ Serving'
    BY <1>3 DEF Proxies, Serving
  <2>2. ASSUME NEW o \in Origins, Expire(o) PROVE AnswersOK'
    <3>1. cache' = [cache EXCEPT ![o] = Nothing] /\ UNCHANGED <<docker, call>>
      BY <2>2 DEF Expire, Invalidate
    <3>2. ResolverTyped'
      BY <1>0, <3>1 DEF ResolverTyped, Entries
    <3>3. \A p \in Origins : cache'[p] = Nothing \/ cache'[p] = cache[p]
      BY <1>0, <3>1 DEF ResolverTyped
    <3> QED BY <2>1, <3>1, <3>2, <3>3 DEF AnswersOK, Honest
  <2> QED BY <1>3, <2>1, <2>2, StepResolves DEF Proxies
<1>4. CASE GetKeyFails \/ Stop \/ Crash
  <2>1. docker' = NoSocket /\ cache' = EmptyCache /\ call' = NoCalls
    BY <1>4 DEF GetKeyFails, ReadFails, Stop, Crash, Exits
  <2> QED BY <2>1, NothingHeld DEF Values
<1>5. CASE UNCHANGED resolverVars /\ (Serving => Serving')
  BY <1>5 DEF resolverVars, AnswersOK, ResolverTyped, Honest, EmptyCache, NoCalls
<1> QED BY <1>1, <1>2, <1>3, <1>4, <1>5, ResolverFrame

\* SetDocker (resolver.go) empties the cache with the change of client, under the
\* same lock: an answer of the old client is served only if the resolution was
\* under way, however many resolutions, failures and reloads there are.
THEOREM DaemonAnswersComeFromTheClient == DaemonSpec => []AnswersComeFromTheClient
<1>1. Init => TypeOK /\ AnswersOK
  <2> SUFFICES ASSUME Init PROVE AnswersOK
    BY InitTyped
  <2>1. docker = NoSocket /\ cache = EmptyCache /\ call = NoCalls
    BY DEF Init, ResolverInit
  <2>2. ResolverTyped
    BY <2>1 DEF ResolverTyped, EmptyCache, NoCalls, Entries, CallRecords, Values
  <2>3. \A c \in Calls : call[c].pc = "idle"
    BY <2>1 DEF NoCalls, Resting
  <2>4. \A o \in Origins : cache[o] = Nothing
    BY <2>1 DEF EmptyCache
  <2> QED BY <2>1, <2>2, <2>3, <2>4 DEF AnswersOK
<1>2. TypeOK /\ AnswersOK /\ [Next]_daemonVars => (TypeOK /\ AnswersOK)'
  BY StepTyped, StepAnswers
<1>3. TypeOK /\ AnswersOK => AnswersComeFromTheClient
  BY DEF AnswersOK, AnswersComeFromTheClient, Honest
<1> QED BY <1>1, <1>2, <1>3, PTL DEF DaemonSpec
=============================================================================
