---------------------------- MODULE Modules_proofs ----------------------------
(***************************************************************************)
(* Proofs about the sensor modules: each is shown to keep its own          *)
(* promises whatever its constants are, by an inductive invariant of its   *)
(* own, and then as a part of MCModules, where every step is a step of one *)
(* of them and leaves the others at rest.                                  *)
(***************************************************************************)
EXTENDS MCModules, TLAPS

\* A behaviour of MCModules is one of each part.
LEMMA PartsRun ==
  ModulesSpec =>
    /\ PairingInit /\ [][PairingNext]_pairVars
    /\ V!ValueInit /\ [][V!ValueNext]_V!valueVars
    /\ J!SwitchInit /\ [][J!SwitchNext]_J!switchVars
    /\ B!PresenceInit /\ [][B!PresenceNext]_B!btVars
    /\ P!PressureInit /\ [][P!PressureNext]_P!pressureVars
    /\ L!LedInit /\ [][L!LedNext]_L!ledVars
<1> DEFINE moduleVars ==
             <<exercised, pairVars, valuesOf, switchesOf, presenceOf, pressureOf, ledsOf>>
<1>1. ModulesInit => /\ PairingInit /\ V!ValueInit /\ J!SwitchInit
                     /\ B!PresenceInit /\ P!PressureInit /\ L!LedInit
  BY DEF ModulesInit
<1>2. /\ UNCHANGED valuesOf => UNCHANGED V!valueVars
      /\ UNCHANGED switchesOf => UNCHANGED J!switchVars
      /\ UNCHANGED presenceOf => UNCHANGED B!btVars
      /\ UNCHANGED pressureOf => UNCHANGED P!pressureVars
      /\ UNCHANGED ledsOf => UNCHANGED L!ledVars
  BY DEF valuesOf, V!valueVars, switchesOf, J!switchVars, J!lineVars, J!setVars,
    presenceOf, B!btVars, B!bounds, pressureOf, P!pressureVars, ledsOf, L!ledVars, L!threadVars
<1>3. [ModulesNext]_moduleVars =>
        /\ [PairingNext]_pairVars /\ [V!ValueNext]_V!valueVars
        /\ [J!SwitchNext]_J!switchVars /\ [B!PresenceNext]_B!btVars
        /\ [P!PressureNext]_P!pressureVars /\ [L!LedNext]_L!ledVars
  BY <1>2 DEF ModulesNext, PairSensors, SetValues, SetSwitches, LookForDevices,
    MeasurePressure, SwitchLeds
<1> QED
  BY <1>1, <1>3, PTL DEF ModulesSpec

-----------------------------------------------------------------------------
(* The virtual sensors of the pool: pairNewVS. *)

Pairing(p) == ppc[p] \in {"check", "read", "decrement", "open", "write"}

\* What the file counts, and what the module is about to pair.
FileCount == IF file = NoFile THEN 0 ELSE file
Pending   == IF ppc["module"] \in {"check", "read", "decrement"} THEN 1 ELSE 0
AtMostAll(n) == IF n < Sensors THEN n ELSE Sensors

OneAtATime ==
  /\ \A p, q \in Pairers : p # q /\ Pairing(p) => ppc[q] = "idle"
  /\ ppc["module"] # "ended" /\ ppc["command"] \notin {"start", "ended"}

\* The counter and the threads add up to the sensors; who will decrement the counter knows it.
PoolIsRight ==
  /\ unpaired <= Sensors /\ threads = Sensors - unpaired
  /\ \A s \in Pool : running[s] = (IF s < Sensors - unpaired THEN 1 ELSE 0)
  /\ \A p \in Pairers :
       /\ ppc[p] = "decrement" => seen[p] = unpaired
       /\ ppc[p] \in {"read", "decrement"} => unpaired > 0
  /\ ppc["module"] = "start" => threads = 0 /\ toPair = 0

\* The file has the threads whenever nobody writes it, unless it could not be; until then
\* what is paired is what runs, what run() has still to pair, and what it is pairing.
FileIsRight ==
  /\ ppc["module"] # "start" /\ (\A p \in Pairers : ppc[p] \notin {"open", "write"}) =>
       outdated \/ FileCount = threads
  /\ ~interrupted /\ ~forgotten /\ Paired < WriteBase =>
       IF ppc["module"] = "start" THEN outdated \/ FileCount = Paired
       ELSE AtMostAll(threads + toPair + Pending) = Paired

PaInv == PairingTypeOK /\ (~overlapped => OneAtATime /\ PoolIsRight /\ FileIsRight)

\* pairNewVS: the counter, the threads and the file agree unless two calls of it meet.
LEMMA PairingAddsUp ==
  PairingInit /\ [][PairingNext]_pairVars => [](PairingTypeOK /\ PairedAddsUp)
<1>0. /\ Sensors \in Nat /\ Sensors > 0 /\ Width \in Nat /\ Sensors < Width
      /\ WriteBase \in Nat /\ WriteBase > 1 /\ ReadBase \in Nat
      /\ MaxListens \in Nat /\ MaxRestarts \in Nat
      /\ Pairers = {"module", "command"} /\ Pool = 0..(Sensors - 1) /\ NoFile = -2 /\ Empty = -1
  BY SensorAssumption, BaseAssumption, ListenAssumption
  DEF SensorAssumption, BaseAssumption, ListenAssumption, Pairers, Pool, NoFile, Empty
<1>a. \A n \in Int : n % Width \in 0..(Width - 1)
  BY <1>0
<1>b. \A n \in 0..(Width - 1) : n % Width = n
  BY <1>0
<1>c. \A n \in Nat : n < WriteBase => Reread(n) = n
  BY <1>0 DEF Reread
<1>d. \A n \in Nat \cup {Empty} : FromFile(n) \in Nat
  <2> SUFFICES ASSUME NEW n \in Nat \cup {Empty} PROVE FromFile(n) \in Nat
    OBVIOUS
  <2>1. Reread(n) \in Int
    <3>1. CASE n = Empty
      BY <1>0, <3>1 DEF Reread
    <3>2. CASE n \in Nat
      <4>1. n \div WriteBase \in Nat /\ n % WriteBase \in Nat
        BY <1>0, <3>2
      <4>2. (n \div WriteBase) * ReadBase \in Nat
        BY <1>0, <4>1
      <4> QED
        BY <1>0, <3>2, <4>1, <4>2 DEF Reread
    <3> QED
      BY <3>1, <3>2
  <2> QED
    BY <1>0, <2>1 DEF FromFile
<1>1. PairingInit => PaInv
  <2> SUFFICES ASSUME PairingInit PROVE PaInv
    OBVIOUS
  <2>1. PairingTypeOK
    <3>1. unpaired \in 0..(Width - 1) /\ listens \in 0..MaxListens /\ restarts \in 0..MaxRestarts
      BY <1>0 DEF PairingInit
    <3>2. /\ running \in [Pool -> Nat] /\ seen \in [Pairers -> 0..(Width - 1)]
          /\ ppc \in [Pairers -> {"start", "idle", "check", "read", "decrement", "open", "write", "ended"}]
      BY <1>0 DEF PairingInit, NoThreads, Started
    <3> QED
      BY <3>1, <3>2 DEF PairingInit, PairingTypeOK
  <2>2. OneAtATime
    BY <1>0 DEF PairingInit, OneAtATime, Pairing, Started
  <2>3. PoolIsRight
    BY <1>0 DEF PairingInit, PoolIsRight, Started, NoThreads
  <2>4. FileIsRight
    BY <1>0 DEF PairingInit, FileIsRight, FileCount, Paired, Started
  <2> QED
    BY <2>1, <2>2, <2>3, <2>4 DEF PaInv
<1>2. PaInv /\ [PairingNext]_pairVars => PaInv'
  <2> SUFFICES ASSUME PaInv, [PairingNext]_pairVars PROVE PaInv'
    OBVIOUS
  <2> USE DEF PaInv
  <2>1. ASSUME NEW opened \in BOOLEAN, NEW removed \in BOOLEAN, LoadCount(opened, removed)
        PROVE  PaInv'
    <3>1. /\ ppc["module"] = "start" /\ ppc' = [ppc EXCEPT !["module"] = "idle"]
          /\ toPair' = (IF opened /\ file # NoFile THEN FromFile(file) ELSE 0)
          /\ file' = (IF removed THEN NoFile ELSE file)
          /\ outdated' = (file # NoFile /\ ~removed)
          /\ forgotten' = (forgotten \/ outdated \/ (file # NoFile /\ ~opened))
          /\ UNCHANGED <<unpaired, threads, running, seen, due, overlapped, interrupted, listens,
                         restarts>>
      BY <2>1 DEF LoadCount, Goes
    <3>a. toPair' \in Nat
      BY <1>d, <3>1 DEF PairingTypeOK
    <3>2. PairingTypeOK'
      <4>1. outdated' \in BOOLEAN /\ forgotten' \in BOOLEAN
        BY Zenon, <3>1
      <4>2. file' \in Nat \cup {NoFile, Empty}
        BY <3>1 DEF PairingTypeOK
      <4> QED
        BY <1>0, <3>1, <3>a, <4>1, <4>2 DEF PairingTypeOK
    <3>3. ASSUME ~overlapped PROVE OneAtATime' /\ PoolIsRight'
      BY <1>0, <3>1, <3>3 DEF OneAtATime, Pairing, PoolIsRight, PairingTypeOK
    <3>4. ASSUME ~overlapped PROVE FileIsRight'
      <4>1. threads' = 0 /\ Pending' = 0 /\ ppc'["module"] = "idle" /\ Paired' = Paired
        BY <1>0, <3>1, <3>4 DEF PoolIsRight, Pending, PairingTypeOK, Paired
      <4>2. outdated' \/ FileCount' = 0
        BY <3>1 DEF FileCount
      <4>3. ASSUME ~interrupted, ~forgotten', Paired < WriteBase PROVE AtMostAll(toPair') = Paired
        <5>1. ~forgotten /\ ~outdated /\ (file # NoFile => opened)
          BY <3>1, <4>3
        <5>2. FileCount = Paired /\ Paired \in Nat /\ Paired <= Sensors
          BY <1>0, <3>1, <3>4, <4>3, <5>1 DEF FileIsRight, Paired, PairingTypeOK
        <5>3. toPair' = Paired
          <6>1. CASE file = NoFile
            BY <3>1, <5>2, <6>1 DEF FileCount
          <6>2. CASE file # NoFile
            <7>1. file = Paired /\ Reread(file) = Paired
              BY <1>c, <4>3, <5>2, <6>2 DEF FileCount
            <7> QED
              BY <1>0, <3>1, <5>1, <5>2, <6>2, <7>1 DEF FromFile
          <6> QED
            BY <6>1, <6>2
        <5> QED
          BY <1>0, <5>2, <5>3 DEF AtMostAll
      <4> QED
        BY <1>0, <3>1, <3>a, <4>1, <4>2, <4>3 DEF FileIsRight, AtMostAll
    <3> QED
      BY <3>1, <3>2, <3>3, <3>4
  <2>2. ASSUME NEW p \in Pairers, Enter(p), listens' \in 0..MaxListens,
               p = "command" => toPair' = toPair,
               p = "module" => toPair > 0 /\ toPair' = (IF unpaired = 0 THEN 0 ELSE toPair - 1)
        PROVE  PaInv'
    <3>1. /\ ppc[p] = "idle" /\ ppc' = [ppc EXCEPT ![p] = "check"]
          /\ UNCHANGED <<unpaired, threads, running, file, seen, due, interrupted, outdated,
                         forgotten, restarts>>
      BY <2>2 DEF Enter, Goes
    <3>2. overlapped' \in BOOLEAN
      BY <2>2 DEF Enter, PairingTypeOK
    <3>3. ~overlapped' => ~overlapped /\ \A q \in Pairers \ {p} : ppc[q] \in {"idle", "ended"}
      BY <2>2 DEF Enter
    <3>4. toPair' \in Nat
      BY <1>0, <2>2 DEF PairingTypeOK
    <3>5. PairingTypeOK'
      BY <1>0, <2>2, <3>1, <3>2, <3>4 DEF PairingTypeOK
    <3> SUFFICES ASSUME ~overlapped' PROVE OneAtATime' /\ PoolIsRight' /\ FileIsRight'
      BY <3>5
    <3>6. OneAtATime'
      BY <1>0, <3>1, <3>3 DEF OneAtATime, Pairing, PairingTypeOK
    <3>7. PoolIsRight'
      BY <1>0, <3>1, <3>3 DEF PoolIsRight, PairingTypeOK
    <3>8. FileIsRight'
      <4>1. ppc["module"] # "start" /\ ppc'["module"] # "start"
        BY <1>0, <3>1, <3>3 DEF PairingTypeOK
      <4>2. FileCount' = FileCount /\ Paired' = Paired
        BY <3>1 DEF FileCount, Paired
      <4>3. AtMostAll(threads' + toPair' + Pending') = AtMostAll(threads + toPair + Pending)
        <5>1. threads \in Nat /\ toPair \in Nat /\ threads = Sensors - unpaired /\ unpaired \in Nat
          BY <1>0, <3>3 DEF PoolIsRight, PairingTypeOK
        <5>2. CASE p = "command"
          <6>1. Pending' = Pending
            BY <3>1, <5>2 DEF Pending, PairingTypeOK
          <6> QED
            BY <2>2, <3>1, <5>2, <6>1
        <5>3. CASE p = "module"
          <6>1. Pending = 0 /\ Pending' = 1
            BY <3>1, <5>3 DEF Pending, PairingTypeOK
          <6> QED
            BY <1>0, <2>2, <3>1, <5>1, <5>3, <6>1 DEF AtMostAll
        <5> QED
          BY <1>0, <5>2, <5>3
      <4> QED
        BY <3>1, <3>3, <4>1, <4>2, <4>3, <1>0 DEF FileIsRight, PairingTypeOK
    <3> QED
      BY <3>6, <3>7, <3>8
  <2>3. CASE PairAgain
    <3>1. "module" # "command" /\ "module" \in Pairers /\ listens' = listens
      BY <1>0, <2>3 DEF PairAgain
    <3> QED
      BY <2>2, <2>3, <3>1 DEF PairAgain, PairingTypeOK
  <2>4. CASE Listen
    <3>1. listens' \in 0..MaxListens /\ "command" \in Pairers
      BY <1>0, <2>4 DEF Listen, PairingTypeOK
    <3> QED
      BY <2>2, <2>4, <3>1 DEF Listen
  <2>5. ASSUME NEW p \in Pairers, CheckUnpaired(p) PROVE PaInv'
    <3>1. /\ ppc[p] = "check" /\ ppc' = [ppc EXCEPT ![p] = IF unpaired = 0 THEN "idle" ELSE "read"]
          /\ UNCHANGED <<unpaired, threads, running, file, seen, toPair, due, ghosts>>
      BY <2>5 DEF CheckUnpaired, Goes
    <3>2. PairingTypeOK'
      BY <3>1 DEF PairingTypeOK, ghosts
    <3> SUFFICES ASSUME ~overlapped PROVE OneAtATime' /\ PoolIsRight' /\ FileIsRight'
      BY <3>1, <3>2 DEF ghosts
    <3>3. OneAtATime'
      BY <1>0, <3>1 DEF OneAtATime, Pairing, PairingTypeOK
    <3>4. PoolIsRight'
      BY <1>0, <3>1 DEF PoolIsRight, PairingTypeOK
    <3>5. FileIsRight'
      <4>1. AtMostAll(threads' + toPair' + Pending') = AtMostAll(threads + toPair + Pending)
        <5>1. threads \in Nat /\ toPair \in Nat /\ threads = Sensors - unpaired /\ unpaired \in Nat
          BY <1>0 DEF PoolIsRight, PairingTypeOK
        <5>2. Pending' = Pending \/ (unpaired = 0 /\ Pending = 1 /\ Pending' = 0)
          BY <1>0, <3>1 DEF Pending, PairingTypeOK
        <5>3. Pending \in {0, 1}
          BY DEF Pending
        <5> QED
          BY <1>0, <3>1, <5>1, <5>2, <5>3 DEF AtMostAll
      <4>2. /\ FileCount' = FileCount /\ Paired' = Paired
            /\ (ppc'["module"] = "start" <=> ppc["module"] = "start")
            /\ \A q \in Pairers : ppc'[q] \in {"open", "write"} <=> ppc[q] \in {"open", "write"}
        BY <1>0, <3>1 DEF FileCount, Paired, PairingTypeOK
      <4> QED
        BY <3>1, <4>1, <4>2 DEF FileIsRight, ghosts
    <3> QED
      BY <3>3, <3>4, <3>5
  <2>6. ASSUME NEW p \in Pairers, ReadUnpaired(p) PROVE PaInv'
    <3>1. /\ ppc[p] = "read" /\ ppc' = [ppc EXCEPT ![p] = "decrement"]
          /\ seen' = [seen EXCEPT ![p] = unpaired]
          /\ UNCHANGED <<unpaired, threads, running, file, toPair, due, ghosts>>
      BY <2>6 DEF ReadUnpaired, Goes
    <3>2. PairingTypeOK'
      BY <3>1 DEF PairingTypeOK, ghosts
    <3> SUFFICES ASSUME ~overlapped PROVE OneAtATime' /\ PoolIsRight' /\ FileIsRight'
      BY <3>1, <3>2 DEF ghosts
    <3>3. OneAtATime'
      BY <1>0, <3>1 DEF OneAtATime, Pairing, PairingTypeOK
    <3>4. PoolIsRight'
      BY <1>0, <3>1 DEF PoolIsRight, PairingTypeOK
    <3>5. FileIsRight'
      <4>1. /\ FileCount' = FileCount /\ Paired' = Paired /\ Pending' = Pending
            /\ (ppc'["module"] = "start" <=> ppc["module"] = "start")
            /\ \A q \in Pairers : ppc'[q] \in {"open", "write"} <=> ppc[q] \in {"open", "write"}
        BY <1>0, <3>1 DEF FileCount, Paired, PairingTypeOK, Pending
      <4> QED
        BY <3>1, <4>1 DEF FileIsRight, ghosts
    <3> QED
      BY <3>3, <3>4, <3>5
  <2>7. ASSUME NEW p \in Pairers, StartSensor(p) PROVE PaInv'
    <3>1. /\ ppc[p] = "decrement" /\ ppc' = [ppc EXCEPT ![p] = "open"]
          /\ IndexOf(p) \in Pool /\ unpaired' = (seen[p] - 1) % Width
          /\ running' = [running EXCEPT ![IndexOf(p)] = @ + 1] /\ threads' = threads + 1
          /\ due' = (IF p = "command" THEN due + 1 ELSE due)
          /\ UNCHANGED <<file, seen, toPair, ghosts>>
      BY <2>7 DEF StartSensor, Goes
    <3>2. PairingTypeOK'
      <4>1. unpaired' \in 0..(Width - 1)
        BY <1>a, <3>1 DEF PairingTypeOK
      <4>2. running' \in [Pool -> Nat] /\ threads' \in Nat /\ due' \in Nat
        BY <3>1 DEF PairingTypeOK
      <4> QED
        BY <3>1, <4>1, <4>2 DEF PairingTypeOK, ghosts
    <3> SUFFICES ASSUME ~overlapped PROVE OneAtATime' /\ PoolIsRight' /\ FileIsRight'
      BY <3>1, <3>2 DEF ghosts
    <3>3. /\ unpaired \in Nat /\ unpaired > 0 /\ unpaired <= Sensors /\ seen[p] = unpaired
          /\ threads = Sensors - unpaired /\ threads \in Nat /\ toPair \in Nat /\ due \in Nat
      BY <1>0, <3>1 DEF PoolIsRight, PairingTypeOK
    <3>4. IndexOf(p) = Sensors - unpaired /\ unpaired' = unpaired - 1
      <4>1. Sensors - unpaired \in 0..(Width - 1) /\ unpaired - 1 \in 0..(Width - 1)
        BY <1>0, <3>3
      <4> QED
        BY <1>b, <3>1, <3>3, <4>1 DEF IndexOf
    <3>5. OneAtATime'
      BY <1>0, <3>1 DEF OneAtATime, Pairing, PairingTypeOK
    <3>6. PoolIsRight'
      <4>1. \A s \in Pool : running'[s] = (IF s < Sensors - unpaired' THEN 1 ELSE 0)
        BY <1>0, <3>1, <3>3, <3>4 DEF PoolIsRight, PairingTypeOK
      <4>2. \A q \in Pairers : ppc'[q] \notin {"read", "decrement"}
        BY <1>0, <3>1 DEF OneAtATime, Pairing, PairingTypeOK
      <4>3. ppc'["module"] # "start"
        BY <1>0, <3>1 DEF OneAtATime, Pairing, PairingTypeOK
      <4> QED
        BY <1>0, <3>1, <3>3, <3>4, <4>1, <4>2, <4>3 DEF PoolIsRight
    <3>7. FileIsRight'
      <4>1. ppc'["module"] # "start" /\ ppc["module"] # "start" /\ ppc'[p] = "open"
        BY <1>0, <3>1 DEF OneAtATime, Pairing, PairingTypeOK
      <4>2. /\ p = "module" => Pending = 1 /\ Pending' = 0
            /\ p = "command" => Pending = 0 /\ Pending' = 0
        BY <1>0, <3>1 DEF OneAtATime, Pairing, Pending, PairingTypeOK
      <4>3. ASSUME ~interrupted, ~forgotten, Paired' < WriteBase
            PROVE  AtMostAll(threads' + toPair' + Pending') = Paired'
        <5>1. Paired < WriteBase
          BY <1>0, <3>1, <3>3, <4>3 DEF Paired
        <5>2. AtMostAll(threads + toPair + Pending) = Paired
          BY <4>1, <4>3, <5>1 DEF FileIsRight
        <5>3. CASE p = "module"
          BY <1>0, <3>1, <3>3, <4>2, <5>2, <5>3 DEF AtMostAll, Paired
        <5>4. CASE p = "command"
          BY <1>0, <3>1, <3>3, <4>2, <5>2, <5>4 DEF AtMostAll, Paired
        <5> QED
          BY <1>0, <5>3, <5>4
      <4> QED
        BY <3>1, <4>1, <4>3 DEF FileIsRight, ghosts
    <3> QED
      BY <3>5, <3>6, <3>7
  <2>8. CASE ModuleEnds
    <3>1. /\ ppc["module"] = "decrement" /\ ppc' = [ppc EXCEPT !["module"] = "ended"]
          /\ IndexOf("module") \notin Pool /\ unpaired' = (seen["module"] - 1) % Width
          /\ UNCHANGED <<threads, running, file, seen, toPair, due, ghosts>>
      BY <2>8 DEF ModuleEnds, Goes
    <3>2. PairingTypeOK'
      <4>1. unpaired' \in 0..(Width - 1)
        <5>1. seen["module"] - 1 \in Int
          BY <1>0 DEF PairingTypeOK
        <5> QED
          BY <1>a, <3>1, <5>1
      <4> QED
        BY <3>1, <4>1 DEF PairingTypeOK, ghosts
    <3>3. ASSUME ~overlapped PROVE FALSE
      <4>1. unpaired \in Nat /\ unpaired > 0 /\ unpaired <= Sensors /\ seen["module"] = unpaired
        BY <1>0, <3>1, <3>3 DEF PoolIsRight, PairingTypeOK
      <4>2. Sensors - unpaired \in 0..(Width - 1)
        BY <1>0, <4>1
      <4>3. IndexOf("module") = Sensors - unpaired
        BY <1>b, <4>1, <4>2 DEF IndexOf
      <4> QED
        BY <1>0, <3>1, <4>1, <4>3
    <3> QED
      BY <3>1, <3>2, <3>3 DEF ghosts
  <2>9. ASSUME NEW p \in Pairers, OpenCount(p) \/ WriteCount(p) \/ OpenFails(p)
        PROVE  PaInv'
    <3>1. /\ \/ ppc[p] = "open" /\ ppc' = [ppc EXCEPT ![p] = "write"] /\ file' = Empty
                /\ outdated' = outdated
             \/ ppc[p] = "write" /\ ppc' = [ppc EXCEPT ![p] = "idle"] /\ file' = threads
                /\ outdated' = FALSE
             \/ ppc[p] = "open" /\ ppc' = [ppc EXCEPT ![p] = "idle"] /\ file' = file
                /\ outdated' = TRUE
          /\ UNCHANGED <<unpaired, threads, running, seen, toPair, due, overlapped, interrupted,
                         forgotten, listens, restarts>>
      BY <2>9 DEF OpenCount, WriteCount, OpenFails, Goes, ghosts
    <3>2. PairingTypeOK'
      BY <3>1 DEF PairingTypeOK
    <3> SUFFICES ASSUME ~overlapped PROVE OneAtATime' /\ PoolIsRight' /\ FileIsRight'
      BY <3>1, <3>2
    <3>3. OneAtATime'
      BY <1>0, <3>1 DEF OneAtATime, Pairing, PairingTypeOK
    <3>4. PoolIsRight'
      BY <1>0, <3>1 DEF PoolIsRight, PairingTypeOK
    <3>5. FileIsRight'
      <4>1. /\ ppc["module"] # "start" /\ ppc'["module"] # "start"
            /\ Paired' = Paired /\ Pending' = Pending
        BY <1>0, <3>1 DEF OneAtATime, Pairing, Paired, PairingTypeOK, Pending
      <4>2. (\A q \in Pairers : ppc'[q] \notin {"open", "write"}) => outdated' \/ file' = threads
        BY <1>0, <3>1 DEF PairingTypeOK
      <4>3. threads # NoFile
        BY <1>0 DEF PairingTypeOK
      <4> QED
        BY <3>1, <4>1, <4>2, <4>3 DEF FileIsRight, FileCount
    <3> QED
      BY <3>3, <3>4, <3>5
  <2>10. ASSUME NEW disturbed \in BOOLEAN, StartOver(disturbed),
                ~disturbed => toPair = 0 /\ ppc["module"] \in {"start", "idle"} /\ ppc["command"] = "idle"
         PROVE  PaInv'
    <3>1. /\ restarts' \in 0..MaxRestarts /\ unpaired' = Sensors /\ threads' = 0
          /\ running' = NoThreads /\ toPair' = 0 /\ ppc' = Started
          /\ seen' = [q \in Pairers |-> 0] /\ UNCHANGED <<file, due, overlapped, outdated, forgotten,
                                                     listens>>
      BY <1>0, <2>10 DEF StartOver, PairingTypeOK
    <3>2. interrupted' \in BOOLEAN /\ (~interrupted' => ~interrupted /\ ~disturbed)
      BY <2>10 DEF StartOver, PairingTypeOK
    <3>3. PairingTypeOK'
      <4>1. unpaired' \in 0..(Width - 1)
        BY <1>0, <3>1
      <4>2. /\ running' \in [Pool -> Nat] /\ seen' \in [Pairers -> 0..(Width - 1)]
            /\ ppc' \in [Pairers -> {"start", "idle", "check", "read", "decrement", "open",
                                     "write", "ended"}]
        BY <1>0, <3>1 DEF NoThreads, Started
      <4> QED
        BY <3>1, <3>2, <4>1, <4>2 DEF PairingTypeOK
    <3> SUFFICES ASSUME ~overlapped PROVE OneAtATime' /\ PoolIsRight' /\ FileIsRight'
      BY <3>1, <3>3
    <3>4. OneAtATime'
      BY <1>0, <3>1 DEF OneAtATime, Pairing, Started
    <3>5. PoolIsRight'
      BY <1>0, <3>1 DEF PoolIsRight, Started, NoThreads
    <3>6. FileIsRight'
      <4>1. ppc'["module"] = "start" /\ FileCount' = FileCount /\ Paired' = Paired
        BY <3>1 DEF Started, FileCount, Paired
      <4>2. ASSUME ~interrupted', ~forgotten, ~outdated, Paired < WriteBase
            PROVE  FileCount = Paired
        <5>1. CASE ppc["module"] = "start"
          BY <3>2, <4>2, <5>1 DEF FileIsRight
        <5>2. CASE ppc["module"] = "idle"
          <6>1. FileCount = threads
            BY <1>0, <2>10, <3>2, <4>2, <5>2 DEF FileIsRight
          <6>2. AtMostAll(threads) = Paired /\ threads \in Nat /\ threads <= Sensors
            <7>1. Pending = 0 /\ toPair = 0 /\ threads \in Nat
              BY <2>10, <3>2, <4>2, <5>2 DEF Pending, PairingTypeOK
            <7> QED
              BY <1>0, <3>2, <4>2, <5>2, <7>1 DEF FileIsRight, PoolIsRight, PairingTypeOK
          <6> QED
            BY <1>0, <6>1, <6>2 DEF AtMostAll
        <5> QED
          BY <2>10, <3>2, <4>2, <5>1, <5>2
      <4> QED
        BY <3>1, <4>1, <4>2 DEF FileIsRight
    <3> QED
      BY <3>4, <3>5, <3>6
  <2>11. CASE RestartPairing
    <3> DEFINE torn == toPair > 0 \/ ppc["module"] \notin {"start", "idle"} \/ ppc["command"] # "idle"
    <3>1. torn \in BOOLEAN /\ StartOver(torn)
      BY <2>11 DEF RestartPairing
    <3>2. ~torn => toPair = 0 /\ ppc["module"] \in {"start", "idle"} /\ ppc["command"] = "idle"
      BY DEF PairingTypeOK
    <3> HIDE DEF torn
    <3> QED
      BY <2>10, <3>1, <3>2
  <2>12. CASE CommandDies
    BY <2>10, <2>12 DEF CommandDies
  <2>13. CASE UNCHANGED pairVars
    <3>1. UNCHANGED <<unpaired, threads, running, file, ppc, seen, toPair, due, ghosts>>
      BY <2>13 DEF pairVars
    <3>2. PairingTypeOK' /\ OneAtATime' = OneAtATime /\ PoolIsRight' = PoolIsRight
      BY <3>1 DEF ghosts, PairingTypeOK, OneAtATime, Pairing, PoolIsRight
    <3>3. FileIsRight' = FileIsRight /\ overlapped' = overlapped
      BY <3>1 DEF ghosts, FileIsRight, FileCount, Paired, Pending, AtMostAll
    <3> QED
      BY <3>2, <3>3
  <2> QED
    BY <2>1, <2>3, <2>4, <2>5, <2>6, <2>7, <2>8, <2>9, <2>11, <2>12, <2>13 DEF PairingNext
<1>3. PaInv => PairingTypeOK /\ PairedAddsUp
  <2> SUFFICES ASSUME PaInv PROVE PairingTypeOK /\ PairedAddsUp
    OBVIOUS
  <2>1. ASSUME ~overlapped PROVE PoolAddsUp
    BY <2>1 DEF PaInv, PoolIsRight, PoolAddsUp
  <2>2. ASSUME Settled, ~overlapped, ~interrupted, ~forgotten, Paired < WriteBase
        PROVE  threads = Paired
    <3>1. ppc["module"] = "idle" /\ toPair = 0
      BY <1>0, <2>2 DEF Settled
    <3>2. AtMostAll(threads) = Paired /\ threads \in Nat /\ threads <= Sensors
      <4>1. Pending = 0 /\ threads \in Nat
        BY <3>1 DEF Pending, PaInv, PairingTypeOK
      <4> QED
        BY <1>0, <2>2, <3>1, <4>1 DEF PaInv, FileIsRight, PoolIsRight, PairingTypeOK
    <3> QED
      BY <1>0, <3>2 DEF AtMostAll
  <2> QED
    BY <2>1, <2>2 DEF PaInv, PairedAddsUp, RemembersPaired, PoolAddsUp
<1> QED
  BY <1>1, <1>2, <1>3, PTL

-----------------------------------------------------------------------------
(* The value of a virtual sensor: nextVal, setNewVal and the thread of the requests. *)

Kinds == {"initial", "constant", "linear", "triangle", "random"}

\* Who has the mutex of a value: its timer from nextVal's first line on, or the thread of
\* the requests while it switches; what the timer is about to store is a value it may have.
MutexIsHeld ==
  /\ worker = "idle" <=> current = <<>>
  /\ worker = "sleeping" => holder[current[1]] = "worker"
  /\ \A v \in Values :
       /\ timer[v] \in {"sleeping", "stuck"} => holder[v] = "timer"
       /\ timer[v] # "off" => conf[v].kind # "initial"
       /\ timer[v] = "sleeping" =>
            \/ conf[v].kind = "constant" /\ upcoming[v] = actual[v]
            \/ conf[v].kind # "constant" /\ upcoming[v] \in V!Range(v)

ConfIsRight ==
  /\ conf \in [Values -> [kind : Kinds, from : Int, to : Int, actuator : BOOLEAN]]
  /\ bySet \in [Values -> BOOLEAN] /\ last \in [Values -> Int] /\ applied \in Nat

VaInv == ConfIsRight /\ V!ValueTypeOK /\ MutexIsHeld /\ V!ActualIsRight

\* A value of a virtual sensor is in its generator's range or as the server set it, while
\* its timer and the requests store it (VirtualSensorValue.cpp:60-110).
THEOREM ValuesHold == ModulesSpec => [](V!ValueTypeOK /\ ActualIsRight)
<1>0. MaxRequests \in Nat /\ Requests \subseteq Int
  BY BoundsAssumption, RequestsAssumption
<1>1. V!ValueInit => VaInv
  <2> SUFFICES ASSUME V!ValueInit PROVE VaInv
    OBVIOUS
  <2>1. ASSUME NEW t \in Texts
        PROVE  /\ V!Configured(t) \in [kind : Kinds, from : Int, to : Int, actuator : BOOLEAN]
               /\ t.step \in Int
    <3>1. /\ t.range \in Seq(Int) /\ Len(t.range) \in {1, 2} /\ t.step \in Int
          /\ t.actuator \in BOOLEAN
          /\ t.generator \in {"none", "triangle", "random", "linear", "initial", "constant"}
      <4> DEFINE Good(x) ==
                   /\ x.range \in Seq(Int) /\ Len(x.range) \in {1, 2} /\ x.step \in Int
                   /\ x.actuator \in BOOLEAN
                   /\ x.generator \in {"none", "triangle", "random", "linear", "initial", "constant"}
      <4>1. ASSUME NEW a \in Int, NEW b \in Int
            PROVE  /\ <<a>> \in Seq(Int) /\ Len(<<a>>) = 1
                   /\ <<a, b>> \in Seq(Int) /\ Len(<<a, b>>) = 2
        OBVIOUS
      <4>2. /\ Good(Text("none", <<0, 2>>, 1, TRUE)) /\ Good(Text("triangle", <<2, 0>>, -1, TRUE))
            /\ Good(Text("triangle", <<0, 3>>, 2, FALSE)) /\ Good(Text("random", <<2, 0>>, 1, TRUE))
            /\ Good(Text("random", <<1, 1>>, 1, FALSE)) /\ Good(Text("linear", <<1>>, 1, TRUE))
            /\ Good(Text("initial", <<0>>, 1, TRUE)) /\ Good(Text("constant", <<0, 1>>, 1, FALSE))
            /\ Good(Text("initial", <<1>>, 1, FALSE))
        BY <4>1 DEF Text
      <4> HIDE DEF Good
      <4>3. Good(t)
        BY <2>1, <4>2 DEF Texts, Initial
      <4> QED
        BY <4>3 DEF Good
    <3>2. Head(t.range) \in Int /\ t.range[Len(t.range)] \in Int
      BY <3>1
    <3>3. V!Kind(t) \in Kinds
      BY <3>1 DEF V!Kind, Kinds
    <3> QED
      BY <3>1, <3>2, <3>3 DEF V!Configured
  <2>2. PICK text \in [Values -> {t \in Texts : V!Accepted(t)}] :
          /\ conf   = [v \in Values |-> V!Configured(text[v])]
          /\ step   = [v \in Values |-> text[v].step]
          /\ actual = [v \in Values |-> conf[v].from] /\ last = actual
          /\ upcoming = [v \in Values |-> 0]
          /\ holder = [v \in Values |-> "none"] /\ timer = [v \in Values |-> "off"]
          /\ started = FALSE /\ queue = <<>> /\ current = <<>> /\ worker = "idle"
          /\ alive = TRUE /\ bySet = [v \in Values |-> FALSE]
          /\ sets = 0 /\ applied = 0
    BY DEF V!ValueInit
  <2>3. \A v \in Values : text[v] \in Texts
    BY <2>2
  <2>4. ConfIsRight
    BY <2>1, <2>2, <2>3 DEF ConfIsRight
  <2>5. step \in [Values -> Int] /\ actual \in [Values -> Int] /\ upcoming \in [Values -> Int]
    BY <2>1, <2>2, <2>3, <2>4 DEF ConfIsRight
  <2>6. V!ValueTypeOK
    <3>1. <<>> \in Seq(Values \X Requests) /\ Len(<<>>) = 0
      OBVIOUS
    <3>2. /\ holder \in [Values -> {"none", "timer", "worker"}]
          /\ timer \in [Values -> {"off", "waiting", "sleeping", "stuck"}]
      BY <2>2
    <3>3. applied + Len(queue) + (IF current = <<>> THEN 0 ELSE 1) = sets /\ sets \in 0..MaxRequests
      BY <1>0, <2>2
    <3> QED
      BY <2>2, <2>5, <3>1, <3>2, <3>3 DEF V!ValueTypeOK
  <2>7. MutexIsHeld
    BY <2>2 DEF MutexIsHeld
  <2>8. V!ActualIsRight
    BY <2>2, <2>4 DEF ConfIsRight, V!ActualIsRight, V!InRange, V!SetSticks, V!Range, V!Low, V!High
  <2> QED
    BY <2>4, <2>6, <2>7, <2>8 DEF VaInv
<1>2. VaInv /\ [V!ValueNext]_V!valueVars => VaInv'
  <2> SUFFICES ASSUME VaInv, [V!ValueNext]_V!valueVars PROVE VaInv'
    OBVIOUS
  <2> USE DEF VaInv
  <2>1. CASE V!RunSensor
    <3>1. V!ValueTypeOK'
      BY <2>1 DEF V!RunSensor, V!ValueTypeOK
    <3>2. ConfIsRight' /\ MutexIsHeld'
      BY <2>1 DEF V!RunSensor, ConfIsRight, MutexIsHeld, V!ValueTypeOK
    <3>3. V!ActualIsRight'
      BY <2>1 DEF V!RunSensor, V!ActualIsRight, V!InRange, V!SetSticks, V!Range, V!Low, V!High
    <3> QED
      BY <3>1, <3>2, <3>3
  \* Steps that leave the values, the mutexes and the timers alone.
  <2>2. ASSUME UNCHANGED <<conf, actual, last, bySet, upcoming, holder, timer>>, applied' \in Nat
        PROVE  /\ ConfIsRight' /\ V!ActualIsRight'
               /\ (worker' = "idle" <=> current' = <<>>)
                  /\ (worker' = "sleeping" => holder[current'[1]] = "worker") => MutexIsHeld'
    BY <2>2 DEF ConfIsRight, MutexIsHeld, V!ActualIsRight, V!InRange, V!SetSticks, V!Range, V!Low, V!High
  <2>3. ASSUME NEW v \in Values, NEW x \in Requests, V!SetRequest(v, x) PROVE VaInv'
    <3>1. /\ UNCHANGED <<conf, step, actual, upcoming, holder, timer, started, current, worker,
                         last, bySet, applied>>
          /\ alive' \in BOOLEAN
          /\ \/ queue' = Append(queue, <<v, x>>) /\ sets' = sets + 1 /\ sets < MaxRequests
             \/ UNCHANGED <<queue, sets>>
      BY <2>3 DEF V!SetRequest, V!ValueTypeOK
    <3>2. queue' \in Seq(Values \X Requests) /\ Len(queue') - sets' = Len(queue) - sets
      <4>1. queue \in Seq(Values \X Requests) /\ sets \in Nat /\ <<v, x>> \in Values \X Requests
        BY DEF V!ValueTypeOK
      <4>2. CASE queue' = Append(queue, <<v, x>>) /\ sets' = sets + 1
        BY <4>1, <4>2
      <4> QED
        BY <3>1, <4>1, <4>2
    <3>3. sets' \in 0..MaxRequests
      BY <1>0, <3>1 DEF V!ValueTypeOK
    <3>4. V!ValueTypeOK'
      <4>1. applied' + Len(queue') + (IF current' = <<>> THEN 0 ELSE 1) = sets'
        BY <3>1, <3>2, <3>3 DEF V!ValueTypeOK, ConfIsRight
      <4> QED
        BY <3>1, <3>2, <3>3, <4>1 DEF V!ValueTypeOK
    <3> QED
      BY <2>2, <3>1, <3>4 DEF MutexIsHeld, ConfIsRight
  <2>4. CASE V!TakeRequest
    <3>1. /\ worker = "idle" /\ queue # <<>> /\ queue' = Tail(queue)
          /\ UNCHANGED <<conf, step, actual, upcoming, holder, timer, started, alive, last, bySet, sets>>
          /\ \/ worker' = "took" /\ current' = Head(queue) /\ applied' = applied
             \/ applied' = applied + 1 /\ UNCHANGED <<worker, current>>
      BY <2>4 DEF V!TakeRequest
    <3>2. /\ Head(queue) \in Values \X Requests /\ Tail(queue) \in Seq(Values \X Requests)
          /\ Len(Tail(queue)) = Len(queue) - 1 /\ current = <<>> /\ Head(queue) # <<>>
      <4>1. queue \in Seq(Values \X Requests)
        BY DEF V!ValueTypeOK
      <4>2. /\ Head(queue) \in Values \X Requests /\ Tail(queue) \in Seq(Values \X Requests)
            /\ Len(Tail(queue)) = Len(queue) - 1
        BY <3>1, <4>1
      <4>3. current = <<>>
        BY <3>1 DEF MutexIsHeld
      <4>4. \A q \in Values \X Requests : q # <<>>
        OBVIOUS
      <4> QED
        BY <4>2, <4>3, <4>4
    <3>3. V!ValueTypeOK'
      <4>1. applied' + Len(queue') + (IF current' = <<>> THEN 0 ELSE 1) = sets'
        BY SMTT(30), <3>1, <3>2 DEF V!ValueTypeOK, ConfIsRight
      <4>2. worker' \in {"idle", "took", "sleeping"} /\ current' \in {<<>>} \cup (Values \X Requests)
        BY <3>1, <3>2
      <4> QED
        BY <3>1, <3>2, <4>1, <4>2 DEF V!ValueTypeOK
    <3> QED
      BY <2>2, <3>1, <3>2, <3>3 DEF MutexIsHeld, ConfIsRight
  <2>5. CASE V!BeginSet
    <3>1. /\ worker = "took" /\ holder[current[1]] = "none" /\ worker' = "sleeping"
          /\ holder' = [holder EXCEPT ![current[1]] = "worker"]
          /\ UNCHANGED <<conf, step, actual, upcoming, timer, started, queue, current, alive,
                         last, bySet, sets, applied>>
      BY <2>5 DEF V!BeginSet
    <3>2. current \in Values \X Requests
      BY <3>1 DEF V!ValueTypeOK, MutexIsHeld
    <3>3. V!ValueTypeOK' /\ ConfIsRight'
      BY <3>1, <3>2 DEF V!ValueTypeOK, ConfIsRight
    <3>4. MutexIsHeld'
      BY <3>1, <3>2 DEF V!ValueTypeOK, MutexIsHeld, V!Range, V!Low, V!High
    <3>5. V!ActualIsRight'
      BY <3>1 DEF V!ActualIsRight, V!InRange, V!SetSticks, V!Range, V!Low, V!High
    <3> QED
      BY <3>3, <3>4, <3>5
  <2>6. CASE V!EndSet
    <3>1. PICK v \in Values, x \in Requests : current = <<v, x>>
      BY <2>6 DEF V!EndSet, V!ValueTypeOK, MutexIsHeld
    <3>2. /\ worker = "sleeping" /\ actual' = [actual EXCEPT ![v] = x]
          /\ last' = [last EXCEPT ![v] = x] /\ bySet' = [bySet EXCEPT ![v] = TRUE]
          /\ holder' = [holder EXCEPT ![v] = "none"]
          /\ current' = <<>> /\ worker' = "idle" /\ applied' = applied + 1
          /\ UNCHANGED <<conf, step, upcoming, timer, started, queue, alive, sets>>
      BY <2>6, <3>1 DEF V!EndSet
    <3>3. V!ValueTypeOK' /\ ConfIsRight'
      <4>1. applied' + Len(queue') + (IF current' = <<>> THEN 0 ELSE 1) = sets'
        <5>1. current # <<>>
          BY <3>1
        <5> QED
          BY <3>2, <5>1 DEF V!ValueTypeOK, ConfIsRight
      <4>2. /\ actual' \in [Values -> Int] /\ last' \in [Values -> Int]
            /\ bySet' \in [Values -> BOOLEAN] /\ holder' \in [Values -> {"none", "timer", "worker"}]
        BY <1>0, <3>2 DEF V!ValueTypeOK, ConfIsRight
      <4> QED
        BY SMTT(30), <3>2, <4>1, <4>2 DEF V!ValueTypeOK, ConfIsRight
    <3>4. MutexIsHeld'
      BY <3>1, <3>2 DEF V!ValueTypeOK, MutexIsHeld, V!Range, V!Low, V!High
    <3>5. V!ActualIsRight'
      BY <3>1, <3>2 DEF V!ValueTypeOK, ConfIsRight, V!ActualIsRight, V!InRange, V!SetSticks,
        V!Range, V!Low, V!High
    <3> QED
      BY <3>3, <3>4, <3>5
  <2>7. ASSUME NEW v \in Values, V!Fire(v), timer' = [timer EXCEPT ![v] = "stuck"],
               UNCHANGED <<step, upcoming, alive>>
        PROVE  VaInv'
    <3>1. /\ timer[v] = "waiting" /\ holder[v] = "none" /\ holder' = [holder EXCEPT ![v] = "timer"]
          /\ UNCHANGED <<conf, actual, started, queue, current, worker, last, bySet, sets, applied>>
      BY <2>7 DEF V!Fire
    <3>2. V!ValueTypeOK' /\ ConfIsRight'
      BY <2>7, <3>1 DEF V!ValueTypeOK, ConfIsRight
    <3>3. MutexIsHeld'
      BY <2>7, <3>1 DEF V!ValueTypeOK, MutexIsHeld, V!Range, V!Low, V!High
    <3>4. V!ActualIsRight'
      BY <3>1 DEF V!ActualIsRight, V!InRange, V!SetSticks, V!Range, V!Low, V!High
    <3> QED
      BY <3>2, <3>3, <3>4
  <2>8. ASSUME NEW v \in Values, V!DivideByZero(v) PROVE VaInv'
    <3>1. /\ timer[v] = "waiting" /\ holder[v] = "none" /\ holder' = [holder EXCEPT ![v] = "timer"]
          /\ alive' = FALSE
          /\ UNCHANGED <<conf, actual, started, queue, current, worker, last, bySet, sets, applied,
                         step, upcoming, timer>>
      BY <2>8 DEF V!Fire, V!DivideByZero
    <3>2. V!ValueTypeOK' /\ ConfIsRight'
      BY <3>1 DEF V!ValueTypeOK, ConfIsRight
    <3>3. MutexIsHeld'
      BY <3>1 DEF V!ValueTypeOK, MutexIsHeld, V!Range, V!Low, V!High
    <3>4. V!ActualIsRight'
      BY <3>1 DEF V!ActualIsRight, V!InRange, V!SetSticks, V!Range, V!Low, V!High
    <3> QED
      BY <3>2, <3>3, <3>4
  <2>9. ASSUME NEW v \in Values, V!Generate(v) PROVE VaInv'
    <3>1. PICK x \in V!Generated(v) : upcoming' = [upcoming EXCEPT ![v] = x]
      BY <2>9 DEF V!Generate
    <3>2. /\ timer[v] = "waiting" /\ holder[v] = "none" /\ holder' = [holder EXCEPT ![v] = "timer"]
          /\ timer' = [timer EXCEPT ![v] = "sleeping"]
          /\ ~(V!Overruns(v) /\ conf[v].kind = "linear")
          /\ UNCHANGED <<conf, actual, started, queue, current, worker, last, bySet, sets, applied,
                         alive>>
      BY <2>9 DEF V!Fire, V!Generate
    <3>3. step' = [step EXCEPT ![v] = -step[v]] \/ step' = step
      BY <2>9 DEF V!Generate, V!ValueTypeOK
    <3>4. conf[v].kind \in {"constant", "linear", "triangle", "random"} /\ conf[v].from \in Int
          /\ conf[v].to \in Int /\ actual[v] \in Int /\ step[v] \in Int
      BY <3>2 DEF ConfIsRight, MutexIsHeld, V!ValueTypeOK, Kinds
    <3>5. /\ x \in Int
          /\ IF conf[v].kind = "constant" THEN x = actual[v] ELSE x \in V!Range(v)
      <4>1. V!Low(v) \in Int /\ V!High(v) \in Int /\ V!Low(v) <= V!High(v)
        BY <3>4 DEF V!Low, V!High
      <4>2. CASE conf[v].kind = "linear"
        BY <3>1, <3>2, <3>4, <4>1, <4>2 DEF V!Generated, V!Overruns, V!Range
      <4>3. CASE conf[v].kind = "triangle"
        BY <3>1, <3>4, <4>1, <4>3 DEF V!Generated, V!Range
      <4>4. CASE conf[v].kind = "random"
        BY <3>1, <3>4, <4>1, <4>4 DEF V!Generated, V!Range
      <4>5. CASE conf[v].kind = "constant"
        BY <3>1, <3>4, <4>1, <4>5 DEF V!Generated
      <4> QED
        BY <3>4, <4>2, <4>3, <4>4, <4>5
    <3>6. step' \in [Values -> Int]
      BY <3>3, <3>4 DEF V!ValueTypeOK
    <3>7. V!ValueTypeOK' /\ ConfIsRight'
      BY <3>1, <3>2, <3>5, <3>6 DEF V!ValueTypeOK, ConfIsRight
    <3>8. MutexIsHeld'
      BY <3>1, <3>2, <3>4, <3>5 DEF V!ValueTypeOK, MutexIsHeld, V!Range, V!Low, V!High
    <3>9. V!ActualIsRight'
      BY <3>2 DEF V!ActualIsRight, V!InRange, V!SetSticks, V!Range, V!Low, V!High
    <3> QED
      BY <3>7, <3>8, <3>9
  <2>10. ASSUME NEW v \in Values, V!StoreNext(v) PROVE VaInv'
    <3>1. /\ timer[v] = "sleeping" /\ timer' = [timer EXCEPT ![v] = "waiting"]
          /\ actual' = [actual EXCEPT ![v] = upcoming[v]]
          /\ bySet' = [bySet EXCEPT ![v] = bySet[v] /\ conf[v].kind = "constant"]
          /\ holder' = [holder EXCEPT ![v] = "none"]
          /\ UNCHANGED <<conf, step, upcoming, started, queue, current, worker, alive, last, sets,
                         applied>>
      BY <2>10 DEF V!StoreNext
    <3>2. V!ValueTypeOK' /\ ConfIsRight'
      BY <3>1 DEF V!ValueTypeOK, ConfIsRight
    <3>3. MutexIsHeld'
      BY <3>1 DEF V!ValueTypeOK, MutexIsHeld, V!Range, V!Low, V!High
    <3>4. V!InRange'
      <4> SUFFICES ASSUME NEW w \in Values PROVE bySet'[w] \/ actual'[w] \in V!Range(w)'
        BY DEF V!InRange
      <4>1. V!Range(w)' = V!Range(w) /\ (bySet[w] \/ actual[w] \in V!Range(w))
        BY <3>1 DEF V!ActualIsRight, V!InRange, V!Range, V!Low, V!High
      <4>2. CASE w # v
        BY <3>1, <4>1, <4>2
      <4>3. CASE w = v /\ conf[v].kind = "constant"
        <5>1. actual'[v] = actual[v] /\ bySet'[v] = bySet[v]
          BY <3>1, <4>3 DEF MutexIsHeld, V!ValueTypeOK, ConfIsRight
        <5> QED
          BY <4>1, <4>3, <5>1
      <4>4. CASE w = v /\ conf[v].kind # "constant"
        <5>1. actual'[v] = upcoming[v] /\ upcoming[v] \in V!Range(v)
          BY <3>1, <4>4 DEF MutexIsHeld, V!ValueTypeOK
        <5> QED
          BY <4>1, <4>4, <5>1
      <4> QED
        BY <4>2, <4>3, <4>4
    <3>5. V!SetSticks'
      BY <3>1 DEF V!ValueTypeOK, MutexIsHeld, V!ActualIsRight, V!SetSticks
    <3> QED
      BY <3>2, <3>3, <3>4, <3>5 DEF V!ActualIsRight
  <2>11. CASE UNCHANGED V!valueVars
    BY <2>11, <2>2 DEF V!valueVars, V!ValueTypeOK, MutexIsHeld, ConfIsRight
  <2> QED
    BY <2>1, <2>3, <2>4, <2>5, <2>6, <2>7, <2>8, <2>9, <2>10, <2>11
    DEF V!ValueNext, V!GenerateNoMore
<1>3. VaInv => V!ValueTypeOK /\ ActualIsRight
  BY DEF VaInv, ActualIsRight
<1> QED
  BY <1>1, <1>2, <1>3, PartsRun, PTL

-----------------------------------------------------------------------------
(* The switches of the Jablotron dongle. *)

\* The slots that were asked, in devList; who sets a switch has found it there.
ListGrows ==
  /\ mpc = "slots" => Len(devs) < slot /\ (~slotLost => Len(devs) = slot - 1)
  /\ ~slotLost => \A i \in DOMAIN devs : devs[i] = i
  /\ setting["module"] # "no" => mpc = "states" /\ devs # <<>>
  /\ setting["command"] = "assign" /\ ~moved => devs # <<>>

\* Who is alone in setSwitch has built a packet of the two outputs, which nobody changes.
AloneFollows ==
  \A a \in alone :
    /\ setting[a] \in {"build", "send"} =>
         \A c \in J!Setters \ {a} : setting[c] \in {"no", "assign"}
    /\ setting[a] = "send" =>
         packet[a] = <<pgx, pgy>> /\ (written[a] # 0 => dongle = <<pgx, pgy>>)

SwInv == J!SwitchTypeOK /\ ListGrows /\ AloneFollows /\ J!DongleFollows

\* A switch is set on its own output, and the dongle has what pgx and pgy say.
LEMMA SwitchesFollow ==
  J!SwitchInit /\ [][J!SwitchNext]_J!switchVars =>
    [](J!SwitchTypeOK /\ J!DongleFollows) /\ J!RightSwitch
<1>0. /\ MaxSets \in Nat /\ MaxFailures \in Nat /\ Switches \in Nat /\ Switches >= 1
      /\ 0 \in States /\ MaxFailed \in Nat /\ Retries \in Nat /\ J!AC88s = 1..Switches
      /\ J!Packets = States \X States
  BY BoundsAssumption, SwitchesAssumption DEF J!AC88s, J!Packets
<1>1. J!SwitchInit => SwInv
  <2> SUFFICES ASSUME J!SwitchInit PROVE SwInv
    OBVIOUS
  <2>1. J!SwitchTypeOK
    <3>1. <<>> \in Seq(J!AC88s)
      OBVIOUS
    <3>2. /\ setting \in [J!Setters -> {"no", "assign", "build", "send"}]
          /\ switch \in [J!Setters -> J!AC88s] /\ value \in [J!Setters -> States]
          /\ packet \in [J!Setters -> J!Packets]
          /\ written \in [J!Setters -> 0..MaxFailed] /\ failed \in [J!Setters -> 0..Retries]
      BY <1>0 DEF J!SwitchInit
    <3>3. slot \in 1..(Switches + 1) /\ commands \in 0..MaxSets /\ failures \in 0..MaxFailures
      BY <1>0 DEF J!SwitchInit
    <3>4. devs \in Seq(J!AC88s) /\ Len(devs) <= Switches
      BY <1>0, <3>1 DEF J!SwitchInit
    <3> QED
      BY <1>0, <3>2, <3>3, <3>4 DEF J!SwitchInit, J!SwitchTypeOK
  <2>2. ListGrows
    BY DEF J!SwitchInit, ListGrows, J!Setters
  <2>3. AloneFollows /\ J!DongleFollows
    BY DEF J!SwitchInit, AloneFollows, J!DongleFollows
  <2> QED
    BY <2>1, <2>2, <2>3 DEF SwInv
<1>2. SwInv /\ [J!SwitchNext]_J!switchVars => SwInv'
  <2> SUFFICES ASSUME SwInv, [J!SwitchNext]_J!switchVars PROVE SwInv'
    OBVIOUS
  <2> USE DEF SwInv
  \* Steps of the line, which leave setSwitch alone.
  <2>1. ASSUME UNCHANGED J!setVars PROVE AloneFollows' /\ J!DongleFollows'
    BY <2>1 DEF J!setVars, AloneFollows, J!DongleFollows
  <2>2. CASE J!OpenSerial \/ J!LoseSerial
    <3>1. /\ fd' \in BOOLEAN /\ loaded' \in BOOLEAN /\ failures' \in 0..MaxFailures
          /\ UNCHANGED <<mpc, slot, devs, slotLost, moved, J!setVars, commands>>
      <4>1. failures \in 0..MaxFailures /\ fd \in BOOLEAN /\ loaded \in BOOLEAN
        BY DEF J!SwitchTypeOK
      <4>2. CASE J!OpenSerial
        <5>1. fd' \in BOOLEAN /\ loaded' \in BOOLEAN
          BY <4>1, <4>2 DEF J!OpenSerial
        <5>2. failures' \in 0..MaxFailures
          BY <1>0, <4>1, <4>2 DEF J!OpenSerial
        <5> QED
          BY <4>2, <5>1, <5>2 DEF J!OpenSerial
      <4>3. CASE J!LoseSerial
        <5>1. fd' \in BOOLEAN /\ loaded' \in BOOLEAN
          BY <4>1, <4>3 DEF J!LoseSerial
        <5>2. failures' \in 0..MaxFailures
          BY <1>0, <4>1, <4>3 DEF J!LoseSerial
        <5> QED
          BY <4>3, <5>1, <5>2 DEF J!LoseSerial
      <4> QED
        BY <2>2, <4>2, <4>3
    <3>2. J!SwitchTypeOK' /\ ListGrows'
      BY <3>1 DEF J!SwitchTypeOK, J!setVars, ListGrows
    <3> QED
      BY <2>1, <3>1, <3>2
  <2>3. CASE J!LoadDevices
    <3>1. /\ mpc = "loop" /\ mpc' = "slots" /\ slot' = 1 /\ devs' = <<>> /\ slotLost' = FALSE
          /\ moved' \in BOOLEAN /\ UNCHANGED <<fd, loaded, failures, J!setVars, commands>>
      BY <2>3 DEF J!LoadDevices, J!SwitchTypeOK
    <3>0. setting["command"] # "assign" \/ moved'
      BY <2>3 DEF J!LoadDevices
    <3>2. devs' \in Seq(J!AC88s) /\ Len(devs') = 0 /\ DOMAIN devs' = {}
      BY <3>1
    <3>3. J!SwitchTypeOK'
      <4>1. slot' \in 1..(Switches + 1) /\ Len(devs') <= Switches
        BY <1>0, <3>1, <3>2
      <4>2. slotLost' \in BOOLEAN /\ mpc' \in {"loop", "slots", "states"}
        BY <3>1
      <4> QED
        BY <3>1, <3>2, <4>1, <4>2 DEF J!SwitchTypeOK, J!setVars
    <3>4. ListGrows'
      BY <3>0, <3>1, <3>2 DEF J!setVars, ListGrows
    <3> QED
      BY <2>1, <3>1, <3>3, <3>4
  <2>4. CASE J!AskSlot
    <3>1. /\ mpc = "slots" /\ slot <= Switches /\ slot' = slot + 1
          /\ UNCHANGED <<fd, loaded, mpc, moved, J!setVars, commands>>
      BY <2>4 DEF J!AskSlot
    <3>2. CASE devs' = Append(devs, slot) /\ UNCHANGED <<slotLost, failures>>
      <4>1. /\ devs' \in Seq(J!AC88s) /\ Len(devs') = Len(devs) + 1 /\ Len(devs) \in Nat
            /\ \A i \in DOMAIN devs' : devs'[i] = IF i \in DOMAIN devs THEN devs[i] ELSE slot
            /\ \A i \in DOMAIN devs' : i \in DOMAIN devs \/ i = Len(devs) + 1
            /\ slot \in 1..(Switches + 1)
        BY <1>0, <3>1, <3>2 DEF J!SwitchTypeOK
      <4>2. J!SwitchTypeOK'
        BY <1>0, <3>1, <3>2, <4>1 DEF J!SwitchTypeOK, J!setVars, ListGrows
      <4>3. ListGrows'
        BY <1>0, <3>1, <3>2, <4>1 DEF J!setVars, ListGrows
      <4> QED
        BY <2>1, <3>1, <4>2, <4>3
    <3>3. CASE /\ failures < MaxFailures /\ failures' = failures + 1
               /\ slotLost' = TRUE /\ UNCHANGED devs
      <4>1. J!SwitchTypeOK' /\ ListGrows'
        BY <1>0, <3>1, <3>3 DEF J!SwitchTypeOK, J!setVars, ListGrows
      <4> QED
        BY <2>1, <3>1, <4>1
    <3> QED
      BY <2>4, <3>2, <3>3 DEF J!AskSlot
  <2>5. CASE J!AskStates
    <3>1. J!SwitchTypeOK' /\ ListGrows'
      BY <1>0, <2>5 DEF J!AskStates, J!SwitchTypeOK, J!setVars, ListGrows
    <3> QED
      BY <2>1, <2>5, <3>1 DEF J!AskStates
  <2>6. ASSUME NEW a \in J!Setters, NEW d \in J!AC88s, NEW v \in States, J!Call(a, d, v)
        PROVE  /\ setting[a] = "no" /\ setting' = [setting EXCEPT ![a] = "assign"]
               /\ setting' \in [J!Setters -> {"no", "assign", "build", "send"}]
               /\ switch' \in [J!Setters -> J!AC88s] /\ value' \in [J!Setters -> States]
               /\ UNCHANGED <<pgx, pgy, dongle, packet, written, failed, alone, doubt>>
               /\ AloneFollows' /\ J!DongleFollows'
    BY <2>6 DEF J!Call, J!SwitchTypeOK, AloneFollows, J!DongleFollows
  <2>7. CASE J!ObtainState
    <3>1. /\ mpc = "states" /\ slot <= Len(devs) /\ slot' = slot + 1
          /\ UNCHANGED <<fd, loaded, mpc, devs, slotLost, moved, failures, commands>>
      BY <2>7 DEF J!ObtainState
    <3>2. devs[slot] \in J!AC88s /\ devs # <<>>
      BY <3>1 DEF J!SwitchTypeOK
    <3>3. PICK v \in States : J!Call("module", devs[slot], v)
      BY <1>0, <2>7 DEF J!ObtainState, J!ServerState
    <3>4. "module" \in J!Setters
      BY DEF J!Setters
    <3>5. J!SwitchTypeOK'
      <4>1. slot' \in 1..(Switches + 1)
        BY <1>0, <3>1 DEF J!SwitchTypeOK
      <4> QED
        BY <2>6, <3>1, <3>2, <3>3, <3>4, <4>1 DEF J!SwitchTypeOK
    <3>6. ListGrows'
      BY <2>6, <3>1, <3>2, <3>3, <3>4 DEF ListGrows, J!SwitchTypeOK
    <3> QED
      BY <2>6, <3>2, <3>3, <3>4, <3>5, <3>6
  <2>8. CASE J!EndLoad
    <3>1. J!SwitchTypeOK' /\ ListGrows'
      BY <1>0, <2>8 DEF J!EndLoad, J!SwitchTypeOK, J!setVars, ListGrows
    <3> QED
      BY <2>1, <2>8, <3>1 DEF J!EndLoad
  <2>9. CASE J!Command
    <3>1. PICK d \in J!AC88s, v \in States : J!Listed(d) /\ J!Call("command", d, v)
      BY <2>9 DEF J!Command
    <3>2. /\ commands' \in 0..MaxSets /\ moved' = FALSE
          /\ UNCHANGED <<fd, loaded, mpc, slot, devs, slotLost, failures>>
      BY <1>0, <2>9 DEF J!Command, J!SwitchTypeOK
    <3>3. devs # <<>>
      BY <3>1 DEF J!Listed
    <3>4. "command" \in J!Setters
      BY DEF J!Setters
    <3>5. J!SwitchTypeOK'
      BY <2>6, <3>1, <3>2, <3>4 DEF J!SwitchTypeOK
    <3>6. ListGrows'
      <4>1. setting' = [setting EXCEPT !["command"] = "assign"]
        BY <2>6, <3>1, <3>4
      <4>2. setting'["module"] = setting["module"]
        BY <4>1 DEF J!SwitchTypeOK
      <4> QED
        BY <3>2, <3>3, <4>2 DEF ListGrows
    <3> QED
      BY <2>6, <3>1, <3>4, <3>5, <3>6
  \* setSwitch, which leaves the list alone.
  <2>10. ASSUME NEW a \in J!Setters, NEW to \in {"no", "build", "send"},
                setting' = [setting EXCEPT ![a] = to], setting[a] # "no",
                UNCHANGED <<mpc, slot, devs, slotLost, moved>>
         PROVE  ListGrows'
    BY <2>10 DEF ListGrows, J!SwitchTypeOK
  <2>11. ASSUME NEW a \in J!Setters, J!Assign(a) PROVE SwInv'
    <3>1. /\ setting[a] = "assign" /\ setting' = [setting EXCEPT ![a] = "build"]
          /\ pgx' \in States /\ pgy' \in States
          /\ UNCHANGED <<dongle, switch, value, packet, written, failed, doubt, J!lineVars, commands>>
      BY <2>11 DEF J!Assign, J!SwitchTypeOK
    <3>2. alone' \subseteq {a}
      BY <2>11 DEF J!Assign
    <3>3. a \in alone' => \A c \in J!Setters \ {a} : setting[c] \in {"no", "assign"}
      BY <2>11 DEF J!Assign
    <3>4. J!SwitchTypeOK'
      BY <3>1, <3>2 DEF J!SwitchTypeOK, J!lineVars
    <3>5. AloneFollows' /\ J!DongleFollows'
      BY <3>1, <3>2, <3>3 DEF AloneFollows, J!DongleFollows, J!SwitchTypeOK
    <3> QED
      BY <2>10, <3>1, <3>4, <3>5 DEF J!lineVars
  <2>12. ASSUME NEW a \in J!Setters, J!Build(a) PROVE SwInv'
    <3>1. /\ setting[a] = "build" /\ setting' = [setting EXCEPT ![a] = "send"]
          /\ packet' = [packet EXCEPT ![a] = <<pgx, pgy>>]
          /\ written' = [written EXCEPT ![a] = 0] /\ failed' = [failed EXCEPT ![a] = 0]
          /\ UNCHANGED <<pgx, pgy, dongle, switch, value, alone, doubt, J!lineVars, commands>>
      BY <2>12 DEF J!Build
    <3>2. J!SwitchTypeOK'
      BY <1>0, <3>1 DEF J!SwitchTypeOK, J!lineVars
    <3>3. AloneFollows' /\ J!DongleFollows'
      BY <3>1 DEF AloneFollows, J!DongleFollows, J!SwitchTypeOK
    <3> QED
      BY <2>10, <3>1, <3>2, <3>3 DEF J!lineVars
  <2>13. ASSUME NEW a \in J!Setters, J!Send(a) PROVE SwInv'
    <3>1. /\ setting[a] = "send" /\ written[a] < MaxFailed
          /\ written' = [written EXCEPT ![a] = @ + 1] /\ dongle' = packet[a]
          /\ UNCHANGED <<pgx, pgy, setting, switch, value, packet, failed, alone, doubt,
                         J!lineVars, commands>>
      BY <2>13 DEF J!Send, J!Sending
    <3>2. J!SwitchTypeOK'
      BY <1>0, <3>1 DEF J!SwitchTypeOK, J!lineVars
    <3>3. AloneFollows' /\ J!DongleFollows'
      BY <3>1 DEF AloneFollows, J!DongleFollows, J!SwitchTypeOK
    <3>4. ListGrows'
      BY <3>1 DEF ListGrows, J!lineVars
    <3> QED
      BY <3>2, <3>3, <3>4
  <2>14. ASSUME NEW a \in J!Setters, J!SendFails(a) PROVE SwInv'
    <3>1. /\ failed[a] < Retries /\ failed' = [failed EXCEPT ![a] = @ + 1]
          /\ UNCHANGED <<pgx, pgy, dongle, setting, switch, value, packet, written, alone, doubt,
                         fd, loaded, mpc, slot, devs, slotLost, moved, commands>>
      BY <2>14 DEF J!SendFails, J!Sending
    <3>2. failures' \in 0..MaxFailures
      BY <1>0, <2>14 DEF J!SendFails, J!SwitchTypeOK
    <3>3. J!SwitchTypeOK'
      BY <1>0, <3>1, <3>2 DEF J!SwitchTypeOK
    <3>4. AloneFollows' /\ J!DongleFollows' /\ ListGrows'
      BY <3>1 DEF AloneFollows, J!DongleFollows, ListGrows
    <3> QED
      BY <3>3, <3>4
  <2>15. ASSUME NEW a \in J!Setters, J!Return(a) PROVE SwInv'
    <3>1. /\ setting[a] = "send" /\ setting' = [setting EXCEPT ![a] = "no"]
          /\ doubt' = (a \notin alone \/ written[a] = 0)
          /\ UNCHANGED <<pgx, pgy, dongle, switch, value, packet, written, failed, alone,
                         J!lineVars, commands>>
      BY <2>15 DEF J!Return
    <3>2. J!SwitchTypeOK'
      BY <3>1 DEF J!SwitchTypeOK, J!lineVars
    <3>3. AloneFollows'
      BY <3>1 DEF AloneFollows, J!SwitchTypeOK
    <3>4. J!DongleFollows'
      BY <3>1 DEF AloneFollows, J!DongleFollows, J!SwitchTypeOK
    <3> QED
      BY <2>10, <3>1, <3>2, <3>3, <3>4 DEF J!lineVars
  <2>16. CASE UNCHANGED J!switchVars
    <3>1. UNCHANGED <<J!lineVars, J!setVars, commands>>
      BY <2>16 DEF J!switchVars
    <3>2. J!SwitchTypeOK' /\ ListGrows'
      BY <3>1 DEF J!lineVars, J!setVars, J!SwitchTypeOK, ListGrows
    <3> QED
      BY <2>1, <3>1, <3>2
  <2> QED
    BY <2>2, <2>3, <2>4, <2>5, <2>7, <2>8, <2>9, <2>11, <2>12, <2>13, <2>14, <2>15, <2>16
    DEF J!SwitchNext
<1>3. ASSUME SwInv, [J!SwitchNext]_J!switchVars, NEW a \in J!Setters,
             setting[a] = "assign", setting'[a] = "build", ~slotLost, ~moved
      PROVE  IF switch[a] = 1 THEN pgy' = pgy ELSE pgx' = pgx
  <2>1. J!Assign(a)
    <3>1. \A b \in J!Setters : setting[b] \in {"no", "assign", "build", "send"}
      BY <1>3 DEF SwInv, J!SwitchTypeOK
    <3> QED
      BY ZenonT(40), <1>3, <3>1 DEF SwInv, J!SwitchTypeOK, J!SwitchNext, J!switchVars, J!setVars, J!lineVars, J!OpenSerial, J!LoseSerial, J!LoadDevices,
        J!AskSlot, J!AskStates, J!ObtainState, J!EndLoad, J!Command, J!Call, J!Assign, J!Build,
        J!Send, J!SendFails, J!Return
  <2>2. devs # <<>> /\ Head(devs) = 1
    BY <1>3 DEF SwInv, J!SwitchTypeOK, ListGrows, J!Setters
  <2> QED
    BY <2>1, <2>2 DEF J!Assign, J!OnPgx
<1>4. SwInv => J!SwitchTypeOK /\ J!DongleFollows
  BY DEF SwInv
<1> QED
  <2>1. SwInv /\ [J!SwitchNext]_J!switchVars =>
          [\A a \in J!Setters :
             setting[a] = "assign" /\ setting'[a] = "build" /\ ~slotLost /\ ~moved =>
               IF switch[a] = 1 THEN pgy' = pgy ELSE pgx' = pgx]_J!switchVars
    BY <1>3
  <2> QED
    BY <1>1, <1>2, <1>4, <2>1, PTL DEF J!RightSwitch

-----------------------------------------------------------------------------
(* The Bluetooth devices that are looked for. *)

\* The commands that the server sends.
Orders ==
  {<<"listen", {}>>} \cup {<<"clean", {d}>> : d \in Devices}
    \cup {<<"parameters", s>> : s \in SUBSET Devices}

Comes(d) == \E j \in 1..Len(sent) : sent[j] = <<"clean", {d}>>

\* A list that is on its way, or being worked on, has what is paired and what a command
\* behind it will remove.
ListsAreFollowed ==
  /\ \A i \in 1..Len(sent) : \A d \in Devices :
       sent[i][1] = "parameters" /\ d \in sent[i][2] =>
         d \in paired \/ \E j \in i + 1..Len(sent) : sent[j] = <<"clean", {d}>>
  /\ \A d \in todo["command"] \cup adding["command"] :
       handling[1] = "parameters" /\ (d \in paired \/ Comes(d))

\* So have an answer of the server, unless it is old, and the list.
AnswerIsFollowed ==
  /\ \A d \in todo["module"] \cup adding["module"] \cup macs :
       d \in paired \/ d \in stale \/ Comes(d) \/ handling = <<"clean", {d}>>
  /\ bpc \in {"asked", "apply"} => queries >= 0

BtInv ==
  /\ B!PresenceTypeOK
  /\ sent \in Seq(Orders) /\ handling \in Orders \cup {<<"none", {}>>, <<"scanned", {}>>}
  /\ ListsAreFollowed /\ AnswerIsFollowed

\* m_MAC_list has the paired devices only, and those whose removal is on its way.
LEMMA PresenceFollows ==
  B!PresenceInit /\ [][B!PresenceNext]_B!btVars => [](B!PresenceTypeOK /\ B!ListedIsPaired)
<1>0. /\ Attempts \in Nat /\ Attempts > 1
      /\ MaxScans \in Nat /\ MaxPairings \in Nat /\ MaxReboots \in Nat
      /\ B!Adders = {"module", "command"}
  BY AttemptsAssumption, BoundsAssumption DEF B!Adders
<1>a. \A c \in Orders :
        /\ c[1] \in {"listen", "clean", "parameters"} /\ c[2] \in SUBSET Devices
        /\ c[1] = "clean" => \E d \in Devices : c = <<"clean", {d}>>
        /\ c # <<"none", {}>>
  BY DEF Orders
<1>b. ASSUME sent \in Seq(Orders), NEW d \in Devices
      PROVE  B!Cleaning(d) <=> Comes(d) \/ handling = <<"clean", {d}>>
  <2>1. DOMAIN sent = 1..Len(sent)
    BY <1>b
  <2> QED
    BY <2>1 DEF B!Cleaning, B!ToSet, Comes
<1>1. B!PresenceInit => BtInv
  <2> SUFFICES ASSUME B!PresenceInit PROVE BtInv
    OBVIOUS
  <2>1. sent \in Seq(Orders) /\ Len(sent) = 0
    BY DEF B!PresenceInit
  <2>2. /\ todo \in [B!Adders -> SUBSET Devices] /\ adding \in [B!Adders -> SUBSET Devices]
        /\ todo["module"] = {} /\ adding["module"] = {}
        /\ todo["command"] = {} /\ adding["command"] = {}
    BY <1>0 DEF B!PresenceInit, B!Nobody
  <2>3. B!PresenceTypeOK
    <3>1. queries \in -1..Attempts /\ scans \in 0..MaxScans /\ pairings \in 0..MaxPairings
          /\ reboots \in 0..MaxReboots
      BY <1>0 DEF B!PresenceInit
    <3>2. handling[1] = "none" /\ owed \in BOOLEAN
      BY DEF B!PresenceInit, B!Nothing
    <3> QED
      BY <2>2, <3>1, <3>2 DEF B!PresenceInit, B!PresenceTypeOK
  <2>4. ListsAreFollowed /\ AnswerIsFollowed
    BY <2>1, <2>2 DEF B!PresenceInit, ListsAreFollowed, AnswerIsFollowed
  <2> QED
    BY <2>1, <2>3, <2>4 DEF BtInv, B!PresenceInit, B!Nothing
<1>2. BtInv /\ [B!PresenceNext]_B!btVars => BtInv'
  <2> SUFFICES ASSUME BtInv, [B!PresenceNext]_B!btVars PROVE BtInv'
    OBVIOUS
  <2>1. /\ macs \in SUBSET Devices /\ queries \in -1..Attempts
        /\ bpc \in {"check", "freed", "query", "asked", "apply", "wait"}
        /\ todo \in [B!Adders -> SUBSET Devices] /\ adding \in [B!Adders -> SUBSET Devices]
        /\ handling[1] \in {"none", "listen", "scanned", "clean", "parameters"}
        /\ paired \in SUBSET Devices /\ offered \in SUBSET Devices /\ stale \in SUBSET Devices
        /\ owed \in BOOLEAN /\ scans \in 0..MaxScans /\ pairings \in 0..MaxPairings
        /\ reboots \in 0..MaxReboots
    BY DEF BtInv, B!PresenceTypeOK
  <2>2. sent \in Seq(Orders) /\ handling \in Orders \cup {<<"none", {}>>, <<"scanned", {}>>}
    BY DEF BtInv
  <2>3. ListsAreFollowed /\ AnswerIsFollowed
    BY DEF BtInv
  \* A step of the module's thread that does not touch the lists.
  <2>4. ASSUME UNCHANGED <<macs, todo, adding, sent, handling, offered, paired, stale, scans,
                           pairings, reboots>>,
               bpc' \in {"check", "freed", "query", "asked", "apply", "wait"},
               queries' \in -1..Attempts, owed' \in BOOLEAN,
               bpc' \in {"asked", "apply"} => queries' >= 0
        PROVE  BtInv'
    <3>1. B!PresenceTypeOK'
      BY <2>1, <2>4 DEF B!PresenceTypeOK
    <3>2. ListsAreFollowed' /\ AnswerIsFollowed'
      BY <2>3, <2>4 DEF ListsAreFollowed, AnswerIsFollowed, Comes
    <3> QED
      BY <2>2, <2>4, <3>1, <3>2 DEF BtInv
  <2>5. CASE B!CheckDevices \/ B!UseFreed \/ B!Ask \/ B!AskNoMore \/ B!WakeUp
    <3>1. /\ UNCHANGED <<macs, todo, adding, sent, handling, offered, paired, stale, scans,
                         pairings, reboots, queries>>
          /\ bpc' \in {"check", "freed", "query", "asked", "apply", "wait"}
      BY <2>5 DEF B!CheckDevices, B!UseFreed, B!Ask, B!AskNoMore, B!WakeUp, B!Goes, B!bounds
    <3>2. owed' \in BOOLEAN
      BY <2>1, <2>5 DEF B!CheckDevices, B!UseFreed, B!Ask, B!AskNoMore, B!WakeUp
    <3>3. bpc' \in {"asked", "apply"} => queries > 0
      BY <2>5 DEF B!CheckDevices, B!UseFreed, B!Ask, B!AskNoMore, B!WakeUp, B!Goes
    <3> QED
      BY <2>1, <2>4, <3>1, <3>2, <3>3
  <2>6. CASE B!CountQuery
    <3>1. /\ UNCHANGED <<macs, todo, adding, sent, handling, offered, paired, stale, scans,
                         pairings, reboots, owed>>
          /\ bpc = "apply" /\ bpc' = "wait" /\ queries' = queries - 1
      BY <2>6 DEF B!CountQuery, B!Goes, B!bounds
    <3>2. queries' \in -1..Attempts
      BY <1>0, <2>1, <2>3, <3>1 DEF AnswerIsFollowed
    <3> QED
      BY <2>1, <2>4, <3>1, <3>2
  <2>7. CASE B!Answer
    <3>1. PICK devices \in {paired, {}} : todo' = [todo EXCEPT !["module"] = devices]
      BY <2>7 DEF B!Answer
    <3>2. /\ UNCHANGED <<macs, queries, adding, sent, handling, offered, paired, stale, owed,
                         scans, pairings, reboots>>
          /\ bpc = "asked" /\ bpc' = "apply"
      BY <2>7 DEF B!Answer, B!Goes, B!bounds
    <3>3. /\ todo' \in [B!Adders -> SUBSET Devices] /\ todo'["command"] = todo["command"]
          /\ todo'["module"] \subseteq paired
      BY <1>0, <2>1, <3>1
    <3>4. B!PresenceTypeOK'
      BY <2>1, <3>2, <3>3 DEF B!PresenceTypeOK
    <3>5. ListsAreFollowed' /\ AnswerIsFollowed'
      BY <2>3, <3>2, <3>3 DEF ListsAreFollowed, AnswerIsFollowed, Comes
    <3> QED
      BY <2>2, <3>2, <3>4, <3>5 DEF BtInv
  <2>8. ASSUME NEW a \in B!Adders, B!LookUp(a) PROVE BtInv'
    <3>1. PICK d \in todo[a] : /\ todo' = [todo EXCEPT ![a] = @ \ {d}]
                               /\ adding' = [adding EXCEPT ![a] = {d} \ macs]
      BY <2>8 DEF B!LookUp
    <3>2. UNCHANGED <<macs, queries, bpc, sent, handling, offered, paired, stale, owed, scans,
                      pairings, reboots>>
      BY <2>8 DEF B!LookUp, B!bounds
    <3>3. /\ todo' \in [B!Adders -> SUBSET Devices] /\ adding' \in [B!Adders -> SUBSET Devices]
          /\ \A b \in B!Adders : todo'[b] \cup adding'[b] \subseteq todo[b] \cup adding[b]
      BY <1>0, <2>1, <3>1
    <3>4. B!PresenceTypeOK'
      BY <2>1, <3>2, <3>3 DEF B!PresenceTypeOK
    <3>5. ListsAreFollowed' /\ AnswerIsFollowed'
      BY <1>0, <2>3, <3>2, <3>3 DEF ListsAreFollowed, AnswerIsFollowed, Comes
    <3> QED
      BY <2>2, <3>2, <3>4, <3>5 DEF BtInv
  <2>9. ASSUME NEW a \in B!Adders, B!Add(a) PROVE BtInv'
    <3>1. PICK d \in adding[a] : macs' = macs \cup {d}
      BY <2>9 DEF B!Add
    <3>2. /\ UNCHANGED <<bpc, todo, sent, handling, offered, paired, stale, scans, pairings, reboots>>
          /\ adding' = [adding EXCEPT ![a] = {}] /\ queries' = 0 /\ owed' = FALSE
      BY <2>9 DEF B!Add, B!bounds
    <3>3. /\ adding' \in [B!Adders -> SUBSET Devices]
          /\ \A b \in B!Adders : adding'[b] \subseteq adding[b]
          /\ d \in Devices
      BY <1>0, <2>1, <3>1, <3>2
    <3>4. B!PresenceTypeOK'
      <4>1. queries' \in -1..Attempts /\ macs' \in SUBSET Devices
        BY <1>0, <2>1, <3>1, <3>2, <3>3
      <4>2. owed' \in BOOLEAN
        BY <3>2
      <4> QED
        BY <2>1, <3>2, <3>3, <4>1, <4>2 DEF B!PresenceTypeOK
    <3>5. d \in paired \/ d \in stale \/ Comes(d) \/ handling = <<"clean", {d}>>
      BY <1>0, <2>3, <3>1 DEF ListsAreFollowed, AnswerIsFollowed
    <3>6. ListsAreFollowed' /\ AnswerIsFollowed'
      <4>1. adding'["module"] \subseteq adding["module"] /\ adding'["command"] \subseteq adding["command"]
        BY <1>0, <3>3
      <4>2. ListsAreFollowed'
        BY <2>3, <3>2, <4>1 DEF ListsAreFollowed, Comes
      <4>3. bpc' \in {"asked", "apply"} => queries' >= 0
        BY <3>2
      <4> QED
        BY <2>3, <3>1, <3>2, <3>5, <4>1, <4>2, <4>3 DEF AnswerIsFollowed, Comes
    <3> QED
      BY <2>2, <3>2, <3>4, <3>6 DEF BtInv
  <2>10. CASE B!TakeCommand
    <3>1. /\ handling = <<"none", {}>> /\ sent # <<>>
          /\ handling' = Head(sent) /\ sent' = Tail(sent)
          /\ todo' = [todo EXCEPT !["command"] = IF handling'[1] = "parameters" THEN handling'[2] ELSE {}]
          /\ UNCHANGED <<macs, queries, bpc, adding, offered, paired, stale, owed, scans,
                         pairings, reboots>>
      BY <2>10 DEF B!TakeCommand, B!Nothing, B!bounds
    <3>2. /\ handling' = sent[1] /\ handling' \in Orders /\ sent' \in Seq(Orders)
          /\ Len(sent) \in Nat /\ Len(sent) >= 1 /\ Len(sent') = Len(sent) - 1
          /\ \A i \in 1..Len(sent') : sent'[i] = sent[i + 1]
      BY <2>2, <3>1
    <3>3. /\ todo' \in [B!Adders -> SUBSET Devices] /\ todo'["module"] = todo["module"]
          /\ todo'["command"] = IF handling'[1] = "parameters" THEN handling'[2] ELSE {}
      BY <1>0, <1>a, <2>1, <3>1, <3>2
    <3>4. B!PresenceTypeOK'
      BY <1>a, <2>1, <3>1, <3>2, <3>3 DEF B!PresenceTypeOK
    <3>5. ASSUME NEW i \in 1..Len(sent), NEW d \in Devices,
                 \E j \in i + 1..Len(sent) : sent[j] = <<"clean", {d}>>
          PROVE  \E j \in i..Len(sent') : sent'[j] = <<"clean", {d}>>
      <4>1. PICK j \in i + 1..Len(sent) : sent[j] = <<"clean", {d}>>
        BY <3>5
      <4>2. j - 1 \in i..Len(sent') /\ sent'[j - 1] = sent[j]
        BY <3>2
      <4> QED
        BY <4>1, <4>2
    <3>6. \A i \in 1..Len(sent') : \A d \in Devices :
            sent'[i][1] = "parameters" /\ d \in sent'[i][2] =>
              d \in paired \/ \E j \in i + 1..Len(sent') : sent'[j] = <<"clean", {d}>>
      <4> SUFFICES ASSUME NEW i \in 1..Len(sent'), NEW d \in Devices, d \notin paired,
                          sent'[i][1] = "parameters", d \in sent'[i][2]
                   PROVE  \E j \in i + 1..Len(sent') : sent'[j] = <<"clean", {d}>>
        OBVIOUS
      <4>1. i + 1 \in 1..Len(sent) /\ sent'[i] = sent[i + 1]
        BY <3>2
      <4>2. \E j \in i + 1 + 1..Len(sent) : sent[j] = <<"clean", {d}>>
        BY <2>3, <4>1 DEF ListsAreFollowed
      <4> QED
        BY <3>5, <4>1, <4>2
    <3>7. ASSUME NEW d \in Devices, Comes(d)
          PROVE  (handling' = <<"clean", {d}>>) \/ Comes(d)'
      <4>1. PICK j \in 1..Len(sent) : sent[j] = <<"clean", {d}>>
        BY <3>7 DEF Comes
      <4>2. CASE j = 1
        BY <3>2, <4>1, <4>2
      <4>3. CASE j # 1
        <5>1. j - 1 \in 1..Len(sent') /\ sent'[j - 1] = sent[j]
          BY <3>2, <4>3
        <5> QED
          BY <4>1, <5>1 DEF Comes
      <4> QED
        BY <4>2, <4>3
    <3>8. \A d \in todo'["command"] \cup adding'["command"] :
            handling'[1] = "parameters" /\ (d \in paired \/ Comes(d)')
      <4>1. adding'["command"] = {}
        BY <1>0, <2>1, <2>3, <3>1 DEF ListsAreFollowed
      <4> SUFFICES ASSUME NEW d \in todo'["command"]
                   PROVE  handling'[1] = "parameters" /\ (d \in paired \/ Comes(d)')
        BY <4>1
      <4>2. handling'[1] = "parameters" /\ d \in sent[1][2] /\ d \in Devices
        BY <1>a, <3>2, <3>3
      <4>3. 1 \in 1..Len(sent)
        BY <3>2
      <4>4. d \in paired \/ \E j \in 1 + 1..Len(sent) : sent[j] = <<"clean", {d}>>
        BY <2>3, <3>2, <4>2, <4>3 DEF ListsAreFollowed
      <4> QED
        BY <3>5, <4>2, <4>3, <4>4 DEF Comes
    <3>9. AnswerIsFollowed'
      <4>1. \A d \in todo["module"] \cup adding["module"] \cup macs : d \in Devices
        BY <1>0, <2>1
      <4> QED
        BY <2>3, <3>1, <3>3, <3>7, <4>1 DEF AnswerIsFollowed
    <3> QED
      BY <3>1, <3>2, <3>4, <3>6, <3>8, <3>9 DEF BtInv, ListsAreFollowed
  \* The command's end, unless it is one that removes.
  <2>11. ASSUME todo["command"] = {} /\ adding["command"] = {},
                handling[1] # "clean",
                handling' \in {<<"none", {}>>, <<"scanned", {}>>},
                UNCHANGED <<macs, bpc, todo, adding, sent, paired, stale, scans, pairings, reboots>>,
                offered' \in SUBSET Devices, owed' \in BOOLEAN, queries' \in {queries, Attempts}
         PROVE  BtInv'
    <3>1. B!PresenceTypeOK'
      BY <1>0, <2>1, <2>11 DEF B!PresenceTypeOK
    <3>2. ListsAreFollowed'
      BY <2>3, <2>11 DEF ListsAreFollowed, Comes
    <3>3. AnswerIsFollowed'
      <4>1. \A d \in Devices : handling # <<"clean", {d}>>
        BY <2>11
      <4>2. bpc' \in {"asked", "apply"} => queries' >= 0
        BY <1>0, <2>3, <2>11 DEF AnswerIsFollowed
      <4>3. \A d \in todo["module"] \cup adding["module"] \cup macs : d \in Devices
        BY <1>0, <2>1
      <4> QED
        BY <2>3, <2>11, <4>1, <4>2, <4>3 DEF AnswerIsFollowed, Comes
    <3> QED
      BY <2>2, <2>11, <3>1, <3>2, <3>3 DEF BtInv
  <2>12. CASE B!Scan \/ B!EndScan \/ B!EndList
    <3>1. /\ handling[1] # "clean" /\ handling' \in {<<"none", {}>>, <<"scanned", {}>>}
          /\ UNCHANGED <<macs, bpc, todo, adding, sent, paired, stale, scans, pairings, reboots>>
          /\ queries' \in {queries, Attempts}
      BY <2>12 DEF B!Scan, B!EndScan, B!EndList, B!Nothing, B!bounds
    <3>2. offered' \in SUBSET Devices /\ owed' \in BOOLEAN
      BY <2>1, <2>12 DEF B!Scan, B!EndScan, B!EndList
    <3>3. todo["command"] = {} /\ adding["command"] = {}
      <4>1. CASE B!EndList
        BY <4>1 DEF B!EndList
      <4>2. CASE handling[1] # "parameters"
        BY <2>3, <4>2 DEF ListsAreFollowed
      <4> QED
        BY <2>12, <4>1, <4>2 DEF B!Scan, B!EndScan
    <3> QED
      BY <2>11, <3>1, <3>2, <3>3
  <2>13. CASE B!Clean
    <3>1. PICK d \in handling[2] :
            /\ macs' = macs \ {d}
            /\ bpc' = bpc \/ bpc' = "freed"
            /\ stale' = IF d \in todo["module"] \cup adding["module"] THEN stale \cup {d} ELSE stale \ {d}
      BY <2>13 DEF B!Clean, B!Goes
    <3>2. /\ handling[1] = "clean" /\ handling' = <<"none", {}>>
          /\ UNCHANGED <<queries, todo, adding, sent, offered, paired, owed, scans, pairings, reboots>>
      BY <2>13 DEF B!Clean, B!Nothing, B!bounds
    <3>3. handling = <<"clean", {d}>> /\ d \in Devices
      BY <1>a, <2>2, <3>1, <3>2
    <3>4. B!PresenceTypeOK'
      BY <2>1, <3>1, <3>2, <3>3 DEF B!PresenceTypeOK
    <3>5. ListsAreFollowed'
      BY <2>3, <3>2 DEF ListsAreFollowed, Comes
    <3>6. AnswerIsFollowed'
      <4> SUFFICES ASSUME NEW e \in todo["module"] \cup adding["module"] \cup macs',
                          e \notin paired, ~Comes(e)
                   PROVE  e \in stale'
        BY <2>3, <3>1, <3>2 DEF AnswerIsFollowed, Comes
      <4>1. CASE e = d
        BY <3>1, <4>1
      <4>2. CASE e # d
        <5>1. handling # <<"clean", {e}>>
          BY <3>3, <4>2
        <5>2. e \in stale
          BY <2>3, <3>1, <5>1 DEF AnswerIsFollowed
        <5> QED
          BY <3>1, <4>2, <5>2
      <4> QED
        BY <4>1, <4>2
    <3> QED
      BY <2>2, <3>2, <3>4, <3>5, <3>6 DEF BtInv
  \* The server sends a command behind those on their way.
  <2>14. ASSUME NEW c \in Orders, sent' = Append(sent, c), paired' \in SUBSET Devices,
                \A d \in Devices : d \in paired => d \in paired' \/ c = <<"clean", {d}>>,
                c[1] = "parameters" => c[2] \subseteq paired',
                UNCHANGED <<macs, queries, bpc, todo, adding, handling, offered, stale, owed, reboots>>,
                scans' \in 0..MaxScans, pairings' \in 0..MaxPairings
         PROVE  BtInv'
    <3>1. /\ sent' \in Seq(Orders) /\ Len(sent) \in Nat /\ Len(sent') = Len(sent) + 1
          /\ \A i \in 1..Len(sent) : sent'[i] = sent[i]
          /\ sent'[Len(sent) + 1] = c
      BY <2>2, <2>14
    <3>2. B!PresenceTypeOK'
      BY <2>1, <2>14 DEF B!PresenceTypeOK
    <3>3. \A d \in Devices : Comes(d) \/ (d \in paired /\ d \notin paired') => Comes(d)'
      <4> SUFFICES ASSUME NEW d \in Devices, Comes(d) \/ (d \in paired /\ d \notin paired')
                   PROVE  Comes(d)'
        OBVIOUS
      <4>1. CASE Comes(d)
        <5>1. PICK j \in 1..Len(sent) : sent[j] = <<"clean", {d}>>
          BY <4>1 DEF Comes
        <5>2. j \in 1..Len(sent') /\ sent'[j] = sent[j]
          BY <3>1
        <5> QED
          BY <5>1, <5>2 DEF Comes
      <4>2. CASE d \in paired /\ d \notin paired'
        <5>1. Len(sent) + 1 \in 1..Len(sent') /\ c = <<"clean", {d}>>
          BY <2>14, <3>1, <4>2
        <5> QED
          BY <3>1, <5>1 DEF Comes
      <4> QED
        BY <4>1, <4>2
    <3>4. \A i \in 1..Len(sent') : \A d \in Devices :
            sent'[i][1] = "parameters" /\ d \in sent'[i][2] =>
              d \in paired' \/ \E j \in i + 1..Len(sent') : sent'[j] = <<"clean", {d}>>
      <4> SUFFICES ASSUME NEW i \in 1..Len(sent'), NEW d \in Devices, d \notin paired',
                          sent'[i][1] = "parameters", d \in sent'[i][2]
                   PROVE  \E j \in i + 1..Len(sent') : sent'[j] = <<"clean", {d}>>
        OBVIOUS
      <4>1. i \in 1..Len(sent) /\ sent'[i] = sent[i]
        BY <2>14, <3>1
      <4>2. CASE d \in paired
        <5>1. Len(sent) + 1 \in i + 1..Len(sent') /\ c = <<"clean", {d}>>
          BY <2>14, <3>1, <4>1, <4>2
        <5> QED
          BY <3>1, <5>1
      <4>3. CASE d \notin paired
        <5>1. PICK j \in i + 1..Len(sent) : sent[j] = <<"clean", {d}>>
          BY <2>3, <4>1, <4>3 DEF ListsAreFollowed
        <5>2. j \in i + 1..Len(sent') /\ j \in 1..Len(sent)
          BY <3>1, <4>1
        <5> QED
          BY <3>1, <5>1, <5>2
      <4> QED
        BY <4>2, <4>3
    <3>5. \A d \in todo["command"] \cup adding["command"] :
            handling[1] = "parameters" /\ (d \in paired' \/ Comes(d)')
      <4>1. \A d \in todo["command"] \cup adding["command"] : d \in Devices
        BY <1>0, <2>1
      <4> QED
        BY <2>3, <3>3, <4>1 DEF ListsAreFollowed
    <3>6. AnswerIsFollowed'
      <4>1. \A d \in todo["module"] \cup adding["module"] \cup macs : d \in Devices
        BY <1>0, <2>1
      <4> QED
        BY <2>3, <2>14, <3>3, <4>1 DEF AnswerIsFollowed
    <3> QED
      BY <2>2, <2>14, <3>1, <3>2, <3>4, <3>5, <3>6 DEF BtInv, ListsAreFollowed
  <2>15. CASE B!Listen
    <3>1. /\ sent' = Append(sent, <<"listen", {}>>) /\ scans' = scans + 1 /\ scans < MaxScans
          /\ UNCHANGED <<macs, queries, bpc, todo, adding, handling, offered, paired, stale, owed,
                         pairings, reboots>>
      BY <2>15 DEF B!Listen, B!Sends
    <3>2. scans' \in 0..MaxScans
      BY <1>0, <2>1, <3>1
    <3>3. <<"listen", {}>> \in Orders
      BY DEF Orders
    <3> QED
      BY <2>1, <2>14, <3>1, <3>2, <3>3
  <2>16. ASSUME NEW d \in Devices, B!Pair(d) PROVE BtInv'
    <3>1. /\ pairings' = pairings + 1 /\ pairings < MaxPairings /\ paired' = paired \cup {d}
          /\ sent' = sent \/ sent' = Append(sent, <<"parameters", paired'>>)
          /\ UNCHANGED <<macs, queries, bpc, todo, adding, handling, offered, stale, owed, scans, reboots>>
      BY <2>16 DEF B!Pair, B!Sends
    <3>2. pairings' \in 0..MaxPairings /\ paired' \in SUBSET Devices
      BY <1>0, <2>1, <3>1
    <3>3. CASE sent' = sent
      <4>1. B!PresenceTypeOK'
        BY <2>1, <3>1, <3>2 DEF B!PresenceTypeOK
      <4>2. ListsAreFollowed' /\ AnswerIsFollowed'
        BY <2>3, <3>1, <3>3 DEF ListsAreFollowed, AnswerIsFollowed, Comes
      <4> QED
        BY <2>2, <3>1, <3>3, <4>1, <4>2 DEF BtInv
    <3>4. CASE sent' = Append(sent, <<"parameters", paired'>>)
      <4>1. <<"parameters", paired'>> \in Orders
        BY <3>2 DEF Orders
      <4> QED
        BY <2>1, <2>14, <3>1, <3>2, <3>4, <4>1
    <3> QED
      BY <3>1, <3>3, <3>4
  <2>17. ASSUME NEW d \in Devices, B!Unpair(d) PROVE BtInv'
    <3>1. /\ pairings' = pairings + 1 /\ pairings < MaxPairings /\ paired' = paired \ {d}
          /\ sent' = Append(sent, <<"clean", {d}>>)
          /\ UNCHANGED <<macs, queries, bpc, todo, adding, handling, offered, stale, owed, scans, reboots>>
      BY <2>17 DEF B!Unpair, B!Sends
    <3>2. pairings' \in 0..MaxPairings /\ paired' \in SUBSET Devices
      BY <1>0, <2>1, <3>1
    <3>3. <<"clean", {d}>> \in Orders
      BY DEF Orders
    <3> QED
      BY <2>1, <2>14, <3>1, <3>2, <3>3
  <2>18. CASE B!StartAgain
    <3>1. /\ macs' = {} /\ queries' = Attempts /\ bpc' = "check" /\ sent' = <<>>
          /\ handling' = <<"none", {}>> /\ stale' = {} /\ owed' = FALSE /\ reboots' = reboots + 1
          /\ reboots < MaxReboots /\ UNCHANGED <<offered, paired, scans, pairings>>
      BY <2>18 DEF B!StartAgain, B!Nothing
    <3>2. /\ todo' \in [B!Adders -> SUBSET Devices] /\ adding' \in [B!Adders -> SUBSET Devices]
          /\ todo'["module"] = {} /\ adding'["module"] = {}
          /\ todo'["command"] = {} /\ adding'["command"] = {}
      BY <1>0, <2>18 DEF B!StartAgain, B!Nobody
    <3>3. sent' \in Seq(Orders) /\ Len(sent') = 0
      BY <3>1
    <3>4. B!PresenceTypeOK'
      <4>1. queries' \in -1..Attempts /\ reboots' \in 0..MaxReboots
        BY <1>0, <2>1, <3>1
      <4>2. owed' \in BOOLEAN
        BY <3>1
      <4> QED
        BY <2>1, <3>1, <3>2, <4>1, <4>2 DEF B!PresenceTypeOK
    <3>5. ListsAreFollowed' /\ AnswerIsFollowed'
      BY <3>1, <3>2, <3>3 DEF ListsAreFollowed, AnswerIsFollowed
    <3> QED
      BY <3>1, <3>3, <3>4, <3>5 DEF BtInv
  <2>19. CASE UNCHANGED B!btVars
    BY <2>1, <2>3, <2>4, <2>19 DEF B!btVars, B!bounds, AnswerIsFollowed
  <2>20. "module" \in B!Adders /\ "command" \in B!Adders
    BY <1>0
  <2> QED
    BY <2>5, <2>6, <2>7, <2>8, <2>9, <2>10, <2>12, <2>13, <2>15, <2>16, <2>17, <2>18, <2>19, <2>20
    DEF B!PresenceNext, B!ModuleThread, B!CommandThread
<1>3. BtInv => B!PresenceTypeOK /\ B!ListedIsPaired
  <2> SUFFICES ASSUME BtInv PROVE B!ListedIsPaired
    BY DEF BtInv
  <2>1. macs \subseteq Devices /\ sent \in Seq(Orders)
    BY DEF BtInv, B!PresenceTypeOK
  <2> QED
    BY <1>b, <2>1 DEF BtInv, AnswerIsFollowed, B!ListedIsPaired
<1> QED
  BY <1>1, <1>2, <1>3, PTL

-----------------------------------------------------------------------------
(* The refresh time of the pressure sensor. *)

\* A question for the refresh time is under way only as long as none was answered, and a
\* command before that counts as late.
AskedIsOpen ==
  /\ pspc \in {"first", "firstAsked", "asked"} => ~obtained
  /\ ~obtained /\ chosen # {} => late

\* What the counter still lets the wait last: the seconds since a command are counted,
\* or the counter has come to the new limit.
WaitIsCounted ==
  /\ pspc = "sleep" => counter <= Longest
  /\ pspc \notin {"test", "sleep", "count"} => since <= 0
  /\ missed => /\ pspc = "test" => since <= counter /\ since <= wakeTime
               /\ pspc = "sleep" => since <= counter /\ since < wakeTime
               /\ pspc = "count" => since <= counted + 1 /\ since <= wakeTime
  /\ ~missed /\ since # P!Never =>
       /\ pspc \in {"test", "sleep", "count"} 
       /\ pspc \in {"test", "sleep"} => counter >= wakeTime
       /\ pspc = "count" => counted >= wakeTime
       /\ since <= (IF pspc = "sleep" THEN 0 ELSE 1)

PInv == P!PressureTypeOK /\ P!RefreshIsObeyed /\ AskedIsOpen /\ WaitIsCounted

\* setNewRefresh is obeyed: no older time comes back, and the wait that follows it is
\* not longer.
LEMMA RefreshIsKept ==
  P!PressureInit /\ [][P!PressureNext]_P!pressureVars => [](P!PressureTypeOK /\ P!RefreshIsObeyed)
<1>0. /\ Refreshes \subseteq Int /\ Longest \in Nat /\ Default \in 1..Longest /\ MaxChanges \in Nat
      /\ P!InTime = 1..Longest /\ P!Never = -1
  BY RefreshAssumption, BoundsAssumption DEF P!InTime, P!Never
<1>1. P!PressureInit => PInv
  <2> SUFFICES ASSUME P!PressureInit PROVE PInv
    OBVIOUS
  <2>1. P!PressureTypeOK
    <3>1. wakeTime \in P!InTime /\ counter \in 0..(Longest + 1) /\ counted \in 0..Longest
      BY <1>0 DEF P!PressureInit
    <3>2. since \in {P!Never} \cup Nat /\ changes \in 0..MaxChanges
      BY <1>0 DEF P!PressureInit
    <3> QED
      BY <3>1, <3>2 DEF P!PressureInit, P!PressureTypeOK
  <2>2. P!RefreshIsObeyed
    BY <1>0 DEF P!PressureInit, P!RefreshIsObeyed, P!ChosenIsKept, P!NewTimeCounts
  <2>3. AskedIsOpen /\ WaitIsCounted
    BY <1>0 DEF P!PressureInit, AskedIsOpen, WaitIsCounted
  <2> QED
    BY <2>1, <2>2, <2>3 DEF PInv
<1>2. PInv /\ [P!PressureNext]_P!pressureVars => PInv'
  <2> SUFFICES ASSUME PInv, [P!PressureNext]_P!pressureVars PROVE PInv'
    OBVIOUS
  <2> USE <1>0 DEF PInv, P!PressureTypeOK, P!RefreshIsObeyed, P!ChosenIsKept,
    P!NewTimeCounts, AskedIsOpen, WaitIsCounted, P!Goes
  <2>1. CASE P!Ask \/ P!AnswerFails \/ P!GoOn
    <3>1. UNCHANGED <<wakeTime, counter, obtained, counted, writing, chosen, late, since, missed, changes>>
      BY <2>1 DEF P!Ask, P!AnswerFails, P!GoOn
    <3>2. pspc \notin {"test", "sleep", "count"} /\ pspc' \in {"firstAsked", "begin", "asked", "report"}
      BY <2>1 DEF P!Ask, P!AnswerFails, P!GoOn
    <3>3. pspc' \in {"firstAsked", "asked"} => ~obtained
      BY <2>1 DEF P!Ask, P!AnswerFails, P!GoOn
    <3> QED
      BY <3>1, <3>2, <3>3
  <2>2. CASE P!Obtain
    BY <2>2 DEF P!Obtain
  <2>3. CASE P!Report
    <3>1. /\ pspc = "report" /\ pspc' = "zero" /\ since' = -1
          /\ UNCHANGED <<obtained, counted, writing, missed>>
      BY <2>3 DEF P!Report
    <3>2. CASE UNCHANGED <<wakeTime, counter, chosen, late, changes>>
      BY <3>1, <3>2
    <3>3. ASSUME NEW n \in P!InTime, changes < MaxChanges, changes' = changes + 1,
                 wakeTime' = n, counter' = n, chosen' = {n}, late' = ~obtained
          PROVE  PInv'
      <4>1. P!PressureTypeOK'
        BY <3>1, <3>3
      <4>2. P!RefreshIsObeyed'
        BY <3>1, <3>3
      <4>3. AskedIsOpen'
        BY <3>1, <3>3
      <4>4. WaitIsCounted'
        BY <3>1, <3>3
      <4> QED
        BY <4>1, <4>2, <4>3, <4>4
    <3> QED
      BY <2>3, <3>2, <3>3 DEF P!Report
  <2>4. CASE P!StartWait
    BY <2>4 DEF P!StartWait
  <2>5. CASE P!Test
    BY <2>5 DEF P!Test
  <2>6. CASE P!Sleep
    BY <2>6 DEF P!Sleep
  <2>7. CASE P!Count
    BY <2>7 DEF P!Count
  <2>8. CASE P!SetWakeTime
    <3>1. /\ changes' = changes + 1 /\ changes < MaxChanges
          /\ UNCHANGED <<counter, obtained, pspc, counted, missed>>
      BY <2>8 DEF P!SetWakeTime
    <3>2. CASE UNCHANGED <<wakeTime, writing, since, chosen, late>>
      BY <3>1, <3>2
    <3>3. ASSUME NEW n \in P!InTime, wakeTime' = n, writing' = {n}, since' = -1,
                 chosen' = {n}, late' = ~obtained
          PROVE  PInv'
      <4>1. P!PressureTypeOK'
        BY <3>1, <3>3
      <4>2. P!RefreshIsObeyed'
        BY <3>1, <3>3
      <4>3. AskedIsOpen'
        BY <3>1, <3>3
      <4>4. WaitIsCounted'
        BY <3>1, <3>3
      <4> QED
        BY <4>1, <4>2, <4>3, <4>4
    <3> QED
      BY <2>8, <3>2, <3>3 DEF P!SetWakeTime
  <2>9. CASE P!SetCounter
    <3>1. PICK n \in writing : counter' = n
      BY <2>9 DEF P!SetCounter
    <3>2. /\ writing' = {} /\ since' = 0
          /\ UNCHANGED <<wakeTime, obtained, pspc, counted, chosen, late, changes>>
      BY <2>9 DEF P!SetCounter
    <3>3. missed' \in BOOLEAN
      BY <2>9 DEF P!SetCounter
    <3>4. ~missed' => pspc \in {"test", "sleep"} /\ n = wakeTime
      BY <2>9, <3>1 DEF P!SetCounter
    <3> QED
      BY <3>1, <3>2, <3>3, <3>4
  <2>10. CASE UNCHANGED P!pressureVars
    BY <2>10 DEF P!pressureVars
  <2> QED
    BY <2>1, <2>2, <2>3, <2>4, <2>5, <2>6, <2>7, <2>8, <2>9, <2>10 DEF P!PressureNext
<1>3. PInv => P!PressureTypeOK /\ P!RefreshIsObeyed
  BY DEF PInv
<1> QED
  BY <1>1, <1>2, <1>3, PTL

-----------------------------------------------------------------------------
(* The LEDs. *)

\* What the LEDs show once the datagrams that are on their way have come.
Shown == IF datagrams = <<>> THEN lit ELSE datagrams[Len(datagrams)]

\* Who sets the LEDs: recovery comes before everything else, and an order knows what it
\* does to the configuration as long as no other is under way.
OneGiver ==
  /\ lpc \in {"ask", "store", "send"} => ~initialized
  /\ \A g \in L!Givers : orders[g] # "no" => initialized
  /\ \A g, h \in L!Givers : orders[g] # "no" /\ orders[h] # "no" => g = h
  /\ initialized \/ reports > 0 \/ datagrams # <<>> => told
  /\ \A g \in L!Givers : orders[g] = "write" => local[g] = L!Changed(ledConf, g)

\* The configuration has what was asked for, and is shown if it has been sent.
ConfFollows ==
  /\ lpc = "send" \/ (told /\ lpc \notin {"ask", "store"}) => ledConf = wanted
  /\ told /\ lpc # "send" /\ (\A g \in L!Givers : orders[g] # "send") => Shown = wanted

LInv == L!LedTypeOK /\ (~upset => OneGiver /\ ConfFollows)

\* The LEDs show what was last asked for.
LEMMA LedsAreKept ==
  L!LedInit /\ [][L!LedNext]_L!ledVars => [](L!LedTypeOK /\ L!LedsFollow)
<1>0. /\ MaxOrders \in Nat /\ MaxUpsets \in Nat
      /\ L!NoSetting \in Leds \X {0, 1} /\ L!Off \in L!Colours
  BY BoundsAssumption, LedsAssumption DEF L!NoSetting, L!Off, L!Colours
<1>1. L!LedInit => LInv
  <2> SUFFICES ASSUME L!LedInit PROVE LInv
    OBVIOUS
  <2>1. L!LedTypeOK
    <3>1. /\ orders \in [L!Givers -> {"no", "read", "write", "send"}]
          /\ ledSetting \in [L!Givers -> Leds \X {0, 1}] /\ local \in [L!Givers -> L!Colours]
      BY <1>0 DEF L!LedInit
    <3>2. <<>> \in Seq(L!Colours)
      OBVIOUS
    <3>3. reports \in Nat /\ ordered \in 0..MaxOrders /\ upsets \in 0..MaxUpsets
      BY <1>0 DEF L!LedInit
    <3> QED
      BY <1>0, <3>1, <3>2, <3>3 DEF L!LedInit, L!LedTypeOK
  <2>2. OneGiver /\ ConfFollows
    BY DEF L!LedInit, OneGiver, ConfFollows
  <2> QED
    BY <2>1, <2>2 DEF LInv
<1>2. LInv /\ [L!LedNext]_L!ledVars => LInv'
  <2> SUFFICES ASSUME LInv, [L!LedNext]_L!ledVars PROVE LInv'
    OBVIOUS
  <2> USE DEF LInv
  <2>0. \A c \in L!Colours, g \in L!Givers : L!Changed(c, g) \in L!Colours
    BY DEF L!LedTypeOK, L!Changed, L!Colours
  <2>1. CASE L!StartRecovery
    <3>1. L!LedTypeOK'
      BY <2>1, <1>0 DEF L!LedTypeOK, L!StartRecovery, L!Goes
    <3>2. ~upset' => OneGiver' /\ ConfFollows'
      BY <2>1 DEF L!LedTypeOK, L!StartRecovery, L!Goes, OneGiver, ConfFollows, Shown, L!Givers, L!Changed
    <3> QED
      BY <3>1, <3>2
  <2>2. CASE L!RecoverNoMore \/ L!ReceiveNothing \/ L!EndRound
    <3>1. /\ lpc \in {"start", "receive", "answer"} /\ lpc' \in {"receive", "start"}
          /\ UNCHANGED <<ledConf, initialized, recovered, orders, ledSetting, local, datagrams, lit,
                         reports, wanted, told, upset, ordered, upsets>>
      BY <2>2 DEF L!RecoverNoMore, L!ReceiveNothing, L!EndRound, L!Goes
    <3>2. L!LedTypeOK'
      BY <3>1 DEF L!LedTypeOK
    <3>3. ~upset' => OneGiver' /\ ConfFollows'
      BY <3>1 DEF OneGiver, ConfFollows, Shown, L!Changed
    <3> QED
      BY <3>2, <3>3
  <2>3. CASE L!AskLast
    <3>1. L!LedTypeOK'
      BY <2>3 DEF L!LedTypeOK, L!AskLast, L!Goes
    <3>2. ~upset' => OneGiver' /\ ConfFollows'
      BY <2>3 DEF L!AskLast, L!Goes, OneGiver, ConfFollows, Shown, L!Changed
    <3> QED
      BY <3>1, <3>2
  <2>4. CASE L!AskFails
    <3>1. L!LedTypeOK'
      BY <2>4 DEF L!LedTypeOK, L!AskFails, L!Goes
    <3>2. ~upset' => OneGiver' /\ ConfFollows'
      BY <2>4 DEF L!AskFails, L!Goes, OneGiver, ConfFollows, Shown, L!Changed
    <3> QED
      BY <3>1, <3>2
  <2>5. CASE L!StoreRecovered
    <3>1. L!LedTypeOK'
      BY <2>5, <1>0 DEF L!LedTypeOK, L!StoreRecovered, L!Goes
    <3>2. ~upset' => OneGiver' /\ ConfFollows'
      BY <2>5 DEF L!StoreRecovered, L!Goes, OneGiver, ConfFollows, Shown, L!Changed, L!Givers
    <3> QED
      BY <3>1, <3>2
  <2>6. CASE L!SendRecovered
    <3>0. /\ datagrams' \in Seq(L!Colours) /\ datagrams' # <<>> /\ datagrams'[Len(datagrams')] = ledConf
      BY <2>6 DEF L!SendRecovered, L!LedTypeOK
    <3>1. L!LedTypeOK'
      BY <2>6, <3>0 DEF L!LedTypeOK, L!SendRecovered, L!Goes
    <3>2. ~upset' => OneGiver' /\ ConfFollows'
      BY <2>6, <3>0 DEF L!SendRecovered, L!Goes, OneGiver, ConfFollows, Shown, L!Changed
    <3> QED
      BY <3>1, <3>2
  <2>7. CASE L!ReceiveReport
    <3>1. L!LedTypeOK'
      BY <2>7 DEF L!LedTypeOK, L!ReceiveReport, L!Goes
    <3>2. ~upset' => OneGiver' /\ ConfFollows'
      BY <2>7 DEF L!LedTypeOK, L!ReceiveReport, L!Goes, OneGiver, ConfFollows, Shown, L!Changed
    <3> QED
      BY <3>1, <3>2
  <2>8. ASSUME NEW g \in L!Givers, L!Order(g) PROVE LInv'
    <3>0. PICK l \in Leds, n \in {0, 1} : ledSetting' = [ledSetting EXCEPT ![g] = <<l, n>>]
      BY <2>8 DEF L!Order
    <3>1. L!LedTypeOK'
      BY <2>8, <3>0, <1>0 DEF L!LedTypeOK, L!Order
    <3>2. ~upset' => OneGiver' /\ ConfFollows'
      BY <2>8 DEF L!LedTypeOK, L!Order, OneGiver, ConfFollows, Shown, L!Changed
    <3> QED
      BY <3>1, <3>2
  <2>9. ASSUME NEW g \in L!Givers, L!ReadConf(g) PROVE LInv'
    <3>1. L!LedTypeOK'
      BY <2>0, <2>9 DEF L!LedTypeOK, L!ReadConf
    <3>2. ~upset' => OneGiver' /\ ConfFollows'
      BY <2>9 DEF L!LedTypeOK, L!ReadConf, OneGiver, ConfFollows, Shown, L!Changed
    <3> QED
      BY <3>1, <3>2
  <2>10. ASSUME NEW g \in L!Givers, L!WriteConf(g) PROVE LInv'
    <3>1. L!LedTypeOK'
      BY <2>0, <2>10, <1>0 DEF L!LedTypeOK, L!WriteConf
    <3>2. ~upset' => OneGiver' /\ ConfFollows'
      BY <2>10 DEF L!LedTypeOK, L!WriteConf, OneGiver, ConfFollows, Shown, L!Changed
    <3> QED
      BY <3>1, <3>2
  <2>11. ASSUME NEW g \in L!Givers, L!SendConf(g) PROVE LInv'
    <3>0. /\ datagrams' \in Seq(L!Colours) /\ datagrams' # <<>> /\ datagrams'[Len(datagrams')] = ledConf
      <4>1. datagrams' = Append(datagrams, ledConf) /\ datagrams \in Seq(L!Colours) /\ ledConf \in L!Colours
        BY <2>11 DEF L!SendConf, L!LedTypeOK
      <4> QED
        BY <4>1
    <3>1. L!LedTypeOK'
      BY <3>0, <2>11, <1>0 DEF L!LedTypeOK, L!SendConf
    <3>2. ~upset' => OneGiver' /\ ConfFollows'
      BY <3>0, <2>11 DEF L!LedTypeOK, L!SendConf, OneGiver, ConfFollows, Shown, L!Changed
    <3> QED
      BY <3>1, <3>2
  <2>12. CASE L!Show
    <3>0. /\ datagrams' \in Seq(L!Colours) /\ lit' \in L!Colours /\ Shown' = Shown
      <4>1. /\ datagrams \in Seq(L!Colours) /\ datagrams # <<>>
            /\ datagrams' = Tail(datagrams) /\ lit' = Head(datagrams)
        BY <2>12 DEF L!Show, L!LedTypeOK
      <4>2. datagrams' \in Seq(L!Colours) /\ lit' \in L!Colours
        BY <4>1
      <4>3. CASE Len(datagrams) = 1
        BY <4>1, <4>3 DEF Shown
      <4>4. CASE Len(datagrams) > 1
        BY <4>1, <4>4 DEF Shown
      <4>5. Len(datagrams) = 1 \/ Len(datagrams) > 1
        <5>1. Len(datagrams) \in Nat /\ Len(datagrams) # 0
          BY <4>1
        <5>2. \A n \in Nat : n # 0 => n = 1 \/ n > 1
          OBVIOUS
        <5> QED
          BY <5>1, <5>2
      <4> QED
        BY <4>2, <4>3, <4>4, <4>5
    <3>1. L!LedTypeOK'
      BY <3>0, <2>12 DEF L!LedTypeOK, L!Show, L!threadVars
    <3>2. ~upset' => OneGiver' /\ ConfFollows'
      BY <3>0, <2>12 DEF L!Show, OneGiver, ConfFollows, L!Changed, L!threadVars
    <3> QED
      BY <3>1, <3>2
  <2>13. CASE L!LoseDatagram \/ L!OthersShow
    <3>1. L!LedTypeOK'
      <4>1. /\ datagrams' \in Seq(L!Colours) /\ lit' \in L!Colours /\ reports' \in Nat
            /\ upsets < MaxUpsets /\ upsets' = upsets + 1 /\ upset'
            /\ UNCHANGED <<L!threadVars, wanted, told, ordered>>
        <5>1. datagrams \in Seq(L!Colours) /\ lit \in L!Colours /\ reports \in Nat
          BY DEF L!LedTypeOK
        <5>2. datagrams # <<>> => Tail(datagrams) \in Seq(L!Colours)
          BY <5>1
        <5> QED
          BY <2>13, <5>1, <5>2 DEF L!LoseDatagram, L!OthersShow, L!threadVars
      <4> QED
        BY <1>0, <4>1 DEF L!LedTypeOK, L!threadVars
    <3>2. upset'
      BY <2>13 DEF L!LoseDatagram, L!OthersShow
    <3> QED
      BY <3>1, <3>2
  <2>14. CASE UNCHANGED L!ledVars
    BY <2>14 DEF L!ledVars, L!threadVars, L!LedTypeOK, OneGiver, ConfFollows, Shown, L!Changed
  <2> QED
    BY <2>1, <2>2, <2>3, <2>4, <2>5, <2>6, <2>7, <2>8, <2>9, <2>10, <2>11, <2>12, <2>13, <2>14
    DEF L!LedNext
<1>3. LInv => L!LedTypeOK /\ L!LedsFollow
  BY DEF LInv, ConfFollows, Shown, L!LedsFollow
<1> QED
  BY <1>1, <1>2, <1>3, PTL

-----------------------------------------------------------------------------
(* The modules together. *)

\* The variables of every module stay in their types.
THEOREM TypesHold == ModulesSpec => []ModulesTypeOK
BY PartsRun, PairingAddsUp, ValuesHold, SwitchesFollow, PresenceFollows, RefreshIsKept,
  LedsAreKept, PTL DEF ModulesTypeOK

\* Virtual sensors and Bluetooth devices that the gateway has as paired are those that
\* were paired (VirtualSensorModule.cpp:86-109, Bluetooth.cpp:304-330), but for the
\* exceptions that RemembersPaired, PoolAddsUp and ListedIsPaired name: meetings of the two
\* threads, restarts within a pairing, longer counts, and a count file that fails.
THEOREM PairedHold == ModulesSpec => []PairedIsRight
BY PartsRun, PairingAddsUp, PresenceFollows, PTL DEF PairedIsRight

\* What a command sets is kept by the threads of the pressure sensor, the LEDs and the
\* switches (PressureSensor.cpp:155-166, LedModule.cpp:119-146, JablotronModule.cpp:459-520).
THEOREM SettingsHold == ModulesSpec => []SettingsAreKept
BY PartsRun, RefreshIsKept, LedsAreKept, SwitchesFollow, PTL DEF SettingsAreKept

\* setSwitch changes the output of its switch and no other (JablotronModule.cpp:482-494).
THEOREM OwnOutput == ModulesSpec => RightSwitch
BY PartsRun, SwitchesFollow, PTL DEF RightSwitch
=============================================================================
