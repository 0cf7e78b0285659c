---------------------------- MODULE VirtualPairing ----------------------------
(***************************************************************************)
(* How virtual sensors are paired (src/VirtualSensorModule.cpp).  The      *)
(* module's own thread pairs as many as the file of the last run says; the *)
(* thread that brings the server's commands pairs one for each "listen".   *)
(* Both run pairNewVS over the same members, without a lock.               *)
(***************************************************************************)
EXTENDS Integers, FiniteSets

CONSTANTS
  Sensors,   \* how many sensors the configuration has
  Width,     \* unpaired_sensors is counted modulo Width (2^32)
  WriteBase, \* operator<< writes the count in decimal,
  ReadBase,  \* toNumFromString reads it as hexadecimal
  MaxListens, MaxRestarts \* bounds: commands and restarts

ASSUME SensorAssumption == Sensors \in Nat \ {0} /\ Width \in Nat /\ Sensors < Width
ASSUME BaseAssumption   == WriteBase \in Nat \ {0, 1} /\ ReadBase \in Nat /\ WriteBase <= ReadBase
ASSUME ListenAssumption == MaxListens \in Nat /\ MaxRestarts \in Nat

Pairers == {"module", "command"}
Pool    == 0..(Sensors - 1)
NoFile  == -2
Empty   == -1 \* also what toNumFromString makes of an empty line

VARIABLES
  unpaired, \* unpaired_sensors
  threads,  \* the size of sensors_threads
  running,  \* for each sensor, how many threads run it
  file,     \* the count in the pairing file
  ppc,      \* where each thread is in pairNewVS
  seen,     \* the value of unpaired_sensors it has read
  toPair,   \* sensors run() has still to pair
  due,      \* sensors that commands have paired, in this run and before
  overlapped,  \* the two threads have been in pairNewVS (or run) together
  interrupted, \* a restart fell in a pairing
  outdated,    \* the file could not be opened to write the count, or be removed
  forgotten,   \* run() could not read the count, or read one that was outdated
  listens, restarts \* counters for the bounds

ghosts   == <<overlapped, interrupted, outdated, forgotten, listens, restarts>>
pairVars == <<unpaired, threads, running, file, ppc, seen, toPair, due, ghosts>>

PairingTypeOK ==
  /\ unpaired \in 0..(Width - 1) /\ threads \in Nat /\ running \in [Pool -> Nat]
  /\ file \in Nat \cup {NoFile, Empty}
  /\ ppc \in [Pairers -> {"start", "idle", "check", "read", "decrement", "open", "write", "ended"}]
  /\ seen \in [Pairers -> 0..(Width - 1)]
  /\ toPair \in Nat /\ due \in Nat
  /\ {overlapped, interrupted, outdated, forgotten} \subseteq BOOLEAN
  /\ listens \in 0..MaxListens /\ restarts \in 0..MaxRestarts

NoThreads == [s \in Pool |-> 0]
Started   == [module |-> "start", command |-> "idle"]

PairingInit ==
  /\ unpaired = Sensors /\ threads = 0 /\ running = NoThreads /\ toPair = 0
  /\ ppc = Started /\ seen = [p \in Pairers |-> 0]
  /\ file = NoFile /\ due = 0
  /\ overlapped = FALSE /\ interrupted = FALSE /\ outdated = FALSE /\ forgotten = FALSE
  /\ listens = 0 /\ restarts = 0

----------------------------------------------------------------------------
\* A count as written and read again; one digit stays what it was.
Reread(n) == IF n = Empty THEN Empty
             ELSE ((n \div WriteBase) * ReadBase) + (n % WriteBase)

\* min(toNumFromString(tmp), sensors.size()), as an unsigned number: -1 becomes
\* more than there are sensors, so that run() never stops pairing.
FromFile(n) == IF Reread(n) < 0 THEN Width - 1
               ELSE IF Reread(n) < Sensors THEN Reread(n) ELSE Sensors

Goes(p, from, to) == ppc[p] = from /\ ppc' = [ppc EXCEPT ![p] = to]

\* VirtualSensorModule::run: read the file, if it can be opened, and remove it, if it can.
LoadCount(opened, removed) ==
  /\ Goes("module", "start", "idle")
  /\ toPair' = IF opened /\ file # NoFile THEN FromFile(file) ELSE 0
  /\ file' = IF removed THEN NoFile ELSE file
  /\ outdated' = (file # NoFile /\ ~removed)
  /\ forgotten' = (forgotten \/ outdated \/ (file # NoFile /\ ~opened))
  /\ UNCHANGED <<unpaired, threads, running, seen, due, overlapped, interrupted, listens, restarts>>

Enter(p) ==
  /\ Goes(p, "idle", "check")
  /\ overlapped' = (overlapped \/ \E q \in Pairers \ {p} : ppc[q] \notin {"idle", "ended"})
  /\ UNCHANGED <<unpaired, threads, running, file, seen, due, interrupted, outdated, forgotten,
                 restarts>>

\* The loop of run().  Once there is nothing left to pair, more rounds only sleep.
PairAgain ==
  /\ toPair > 0 /\ Enter("module")
  /\ toPair' = IF unpaired = 0 THEN 0 ELSE toPair - 1
  /\ UNCHANGED listens

\* Aggregator::parseCmd has a "listen" for the module.
Listen ==
  /\ unpaired # 0 /\ listens < MaxListens
  /\ Enter("command")
  /\ listens' = listens + 1 /\ UNCHANGED toPair

\* if (unpaired_sensors)
CheckUnpaired(p) ==
  /\ Goes(p, "check", IF unpaired = 0 THEN "idle" ELSE "read")
  /\ UNCHANGED <<unpaired, threads, running, file, seen, toPair, due, ghosts>>

\* unpaired_sensors-- in two steps: the value, and the assignment.
ReadUnpaired(p) ==
  /\ Goes(p, "read", "decrement")
  /\ seen' = [seen EXCEPT ![p] = unpaired]
  /\ UNCHANGED <<unpaired, threads, running, file, toPair, due, ghosts>>

\* Faulty variant: --unpaired_sensors.
IndexAfter(p) == (Sensors - (seen[p] - 1)) % Width

\* sensors.size() - (unpaired_sensors--)
IndexOf(p) == (Sensors - seen[p]) % Width

\* t->start(sensors.at(...)), and the thread joins sensors_threads.
StartSensor(p) ==
  /\ IndexOf(p) \in Pool /\ Goes(p, "decrement", "open")
  /\ unpaired' = (seen[p] - 1) % Width
  /\ running' = [running EXCEPT ![IndexOf(p)] = @ + 1]
  /\ threads' = threads + 1
  /\ due' = IF p = "command" THEN due + 1 ELSE due
  /\ UNCHANGED <<file, seen, toPair, ghosts>>

\* at() throws, which is the end of the module's thread.
ModuleEnds ==
  /\ IndexOf("module") \notin Pool /\ Goes("module", "decrement", "ended")
  /\ unpaired' = (seen["module"] - 1) % Width
  /\ UNCHANGED <<threads, running, file, seen, toPair, due, ghosts>>

\* out.open truncates the file.
OpenCount(p) ==
  /\ Goes(p, "open", "write")
  /\ file' = Empty
  /\ UNCHANGED <<unpaired, threads, running, seen, toPair, due, ghosts>>

WriteCount(p) ==
  /\ Goes(p, "write", "idle")
  /\ file' = threads /\ outdated' = FALSE
  /\ UNCHANGED <<unpaired, threads, running, seen, toPair, due, overlapped, interrupted, forgotten,
                 listens, restarts>>

\* The file cannot be opened: out.good() fails and nothing is written.
OpenFails(p) ==
  /\ Goes(p, "open", "idle")
  /\ outdated' = TRUE
  /\ UNCHANGED <<unpaired, threads, running, file, seen, toPair, due, overlapped, interrupted,
                 forgotten, listens, restarts>>

\* The process starts again; the file stays.
StartOver(disturbed) ==
  /\ restarts < MaxRestarts /\ restarts' = restarts + 1
  /\ unpaired' = Sensors /\ threads' = 0 /\ running' = NoThreads /\ toPair' = 0
  /\ ppc' = Started /\ seen' = [p \in Pairers |-> 0]
  /\ interrupted' = (interrupted \/ disturbed)
  /\ UNCHANGED <<file, due, overlapped, outdated, forgotten, listens>>

RestartPairing ==
  StartOver(toPair > 0 \/ ppc["module"] \notin {"start", "idle"} \/ ppc["command"] # "idle")

\* at() throws in the thread of the commands: std::terminate.
CommandDies ==
  ppc["command"] = "decrement" /\ IndexOf("command") \notin Pool /\ StartOver(TRUE)

PairingNext ==
  \/ \E opened, removed \in BOOLEAN : LoadCount(opened, removed)
  \/ PairAgain \/ Listen \/ ModuleEnds \/ CommandDies \/ RestartPairing
  \/ \E p \in Pairers : \/ CheckUnpaired(p) \/ ReadUnpaired(p) \/ StartSensor(p)
                        \/ OpenCount(p) \/ WriteCount(p) \/ OpenFails(p)

PairingSpec == PairingInit /\ [][PairingNext]_pairVars

----------------------------------------------------------------------------
Settled == toPair = 0 /\ \A p \in Pairers : ppc[p] = "idle"

\* As many as commands have paired, or all there are: a command may come before run()
\* has paired again what the file says, and then takes one of those.
Paired == IF due < Sensors THEN due ELSE Sensors

\* A restart brings back as many sensors as were paired, and each pairing since
\* adds one: what pairNewVS writes is what run() reads (lines 49 and 104), as
\* long as the count has one digit, no restart tears a pairing, the two threads
\* do not meet, and each restart finds a count that could be written (line 103)
\* and can be read (line 47).
RemembersPaired ==
  Settled /\ ~overlapped /\ ~interrupted /\ ~forgotten /\ Paired < WriteBase => threads = Paired

\* Line 96 picks each sensor once: unless the two threads meet, the sensors that
\* run are the first of the list, each on one thread, and the rest is unpaired.
PoolAddsUp ==
  ~overlapped /\ (\A p \in Pairers : ppc[p] # "decrement") =>
    /\ unpaired <= Sensors
    /\ \A s \in Pool : running[s] = (IF s < Sensors - unpaired THEN 1 ELSE 0)

PairedAddsUp == RemembersPaired /\ PoolAddsUp
==============================================================================
