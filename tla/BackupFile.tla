------------------------------ MODULE BackupFile ------------------------------
(***************************************************************************)
(* What the backup file of the cache says (src/Aggregator.cpp, storeCache  *)
(* and loadCache; src/Distributor.cpp, convertToCSV).  A message is a line *)
(* of its fields, with the number `pairs' of its values, then a line for   *)
(* each value.  storeCache writes all the values, loadCache reads as many  *)
(* as `pairs' says; a module of the gateway may set it to another number.  *)
(*                                                                         *)
(* AggregatorCache has the file as a set of messages: it models when the   *)
(* file is written, read and removed, and this module what comes back.     *)
(***************************************************************************)
EXTENDS Integers, Sequences, SequencesExt

CONSTANTS
  Readings,    \* what modules cache: records of priority, pairs and values
  MaxMessages, \* bound: messages
  MaxStores    \* bound: writes of the file

VARIABLES
  cache,    \* in the order of the keys
  file,     \* the lines
  gateway,  \* running, down, loaded (in loadCache's last line), stuck (left by an exception)
  promised, \* the cache that storeCache was called with
  torn,     \* the lines of it that did not get to the file, when the gateway went down
  time, stores

fileVars == <<cache, file, gateway, promised, torn, time, stores>>

\* toStringFromFloat: two digits of the three after the point.
Rounded(n) == ((n + 5) \div 10) * 10

\* A value comes back with two digits; its status is written but not read.
AsRead(v) == [v EXCEPT !.number = Rounded(@), !.status = TRUE]

NoValue == [mid |-> 0, number |-> 0, status |-> TRUE]

Header(msg) == [kind |-> "header", time |-> msg.time, pairs |-> msg.pairs]
ValueLine(v) == [kind |-> "value", value |-> v]

\* convertToCSV
CSV(msg) == <<Header(msg)>> \o [i \in DOMAIN msg.values |-> ValueLine(msg.values[i])]
Lines(messages) == FlattenSeq([i \in DOMAIN messages |-> CSV(messages[i])])

\* A line that was cut within.  Without the last of its tokens, it makes the
\* tokenizer throw; else a number is shorter, or the rest of the fields are missing.
CutLines(line) ==
  {[kind |-> "broken"],
   IF line.kind = "header" THEN [line EXCEPT !.time = 0, !.pairs = 0]
   ELSE [line EXCEPT !.value.number = 0]}

FileInit ==
  /\ cache = <<>> /\ file = <<>> /\ gateway = "running" /\ promised = <<>> /\ torn = 0
  /\ time = 0 /\ stores = 0

-----------------------------------------------------------------------------
(* Aggregator::sendData and run. *)

\* Cache_Key: the higher priority goes first, then the earlier time.
NotAfter(x, y) == x.priority > y.priority \/ (x.priority = y.priority /\ x.time <= y.time)

\* The cache is a multimap: a message goes behind those of its key.
Inserted(s, msg) ==
  LET place == CHOOSE k \in 0..Len(s) : \A i \in DOMAIN s : NotAfter(s[i], msg) <=> i <= k
  IN  InsertAt(s, place + 1, msg)

\* sendData could not send: the message goes to the cache.
Insert(r) ==
  /\ gateway = "running" /\ time < MaxMessages /\ time' = time + 1
  /\ cache' = Inserted(cache, [priority |-> r.priority, time |-> time', pairs |-> r.pairs,
                               values |-> r.values])
  /\ UNCHANGED <<file, gateway, promised, torn, stores>>

\* run takes one out, and it is sent.
Take ==
  /\ gateway = "running"
  /\ \E i \in DOMAIN cache : cache' = RemoveAt(cache, i)
  /\ UNCHANGED <<file, gateway, promised, torn, time, stores>>

StoreCache ==
  /\ gateway = "running" /\ cache # <<>>
  /\ stores < MaxStores /\ stores' = stores + 1
  /\ file' = Lines(cache) /\ promised' = cache /\ torn' = 0
  /\ UNCHANGED <<cache, gateway, time>>

\* The file is removed when the cache has become empty.
RemoveFile ==
  /\ gateway = "running" /\ cache = <<>>
  /\ file' = <<>> /\ promised' = <<>> /\ torn' = 0
  /\ UNCHANGED <<cache, gateway, time, stores>>

\* The gateway goes down; if it does so within storeCache, with a part of the file.
Crash ==
  /\ gateway \in {"running", "stuck"} /\ gateway' = "down" /\ cache' = <<>>
  /\ UNCHANGED <<file, promised, torn, time, stores>>

CrashInStore ==
  /\ gateway = "running" /\ cache # <<>>
  /\ stores < MaxStores /\ stores' = stores + 1
  /\ gateway' = "down" /\ cache' = <<>>
  /\ promised' = cache
  /\ \E n \in 1..Len(Lines(cache)) :
       LET all == Lines(cache)
       IN  /\ \/ file' = SubSeq(all, 1, n - 1)
              \/ \E line \in CutLines(all[n]) : file' = Append(SubSeq(all, 1, n - 1), line)
           /\ torn' = Len(all) - n + 1
  /\ UNCHANGED time

-----------------------------------------------------------------------------
(* Aggregator::loadCache. *)

\* What a new message has; the file does not say it.
DefaultPriority == 1

PairsOf(line)  == IF line.kind = "header" THEN line.pairs ELSE 0
TimeOf(line)   == IF line.kind = "header" THEN line.time ELSE 0
Reads(line)    == IF line.kind = "value" THEN AsRead(line.value) ELSE NoValue

\* Faulty variant: the line after the values is skipped as well.
MessageGreedy(i) ==
  [priority |-> DefaultPriority, time |-> TimeOf(file[i]), pairs |-> PairsOf(file[i]),
   values |-> [k \in 1..PairsOf(file[i]) |->
                 IF i + k < Len(file) THEN Reads(file[i + k]) ELSE NoValue]]

\* getline at the end of the file gives an empty line: a value of zeros.
MessageAt(i) ==
  [priority |-> DefaultPriority, time |-> TimeOf(file[i]), pairs |-> PairsOf(file[i]),
   values |-> [k \in 1..PairsOf(file[i]) |->
                 IF i + k <= Len(file) THEN Reads(file[i + k]) ELSE NoValue]]

Broken(i) == file[i].kind = "broken"

\* The end of the file; or a broken line, which ends it all.
AtEnd(i) == i > Len(file) \/ \E k \in i..(i + PairsOf(file[i])) : k <= Len(file) /\ Broken(k)

\* After n rounds of the loop: the line to be read next, and the cache.
Loading[n \in 0..Len(file)] ==
  IF n = 0 THEN [next |-> 1, cache |-> <<>>]
  ELSE LET p == Loading[n - 1]
       IN  IF AtEnd(p.next) THEN p
           ELSE [next |-> p.next + PairsOf(file[p.next]) + 1,
                 cache |-> Inserted(p.cache, MessageAt(p.next))]

\* An exception leaves the messages that were read before, and cache_lock locked.
LoadCache ==
  /\ gateway = "down"
  /\ gateway' = IF \E i \in DOMAIN file : Broken(i) THEN "stuck" ELSE "loaded"
  /\ cache' = Loading[Len(file)].cache
  /\ UNCHANGED <<file, promised, torn, time, stores>>

\* run goes on, the lock is free.
Loaded ==
  /\ gateway = "loaded" /\ gateway' = "running"
  /\ UNCHANGED <<cache, file, promised, torn, time, stores>>

FileNext ==
  \/ \E r \in Readings : Insert(r)
  \/ Take \/ StoreCache \/ RemoveFile \/ Crash \/ CrashInStore \/ LoadCache \/ Loaded

FileSpec == FileInit /\ [][FileNext]_fileVars

-----------------------------------------------------------------------------
FileTypeOK ==
  /\ gateway \in {"running", "down", "loaded", "stuck"}
  /\ \A i \in DOMAIN cache : cache[i].time \in 0..time
  /\ time \in 0..MaxMessages /\ stores \in 0..MaxStores /\ torn \in Nat

Counted(msg) == msg.pairs = Len(msg.values)
Restored(msg) ==
  [priority |-> DefaultPriority, time |-> msg.time, pairs |-> msg.pairs,
   values |-> [i \in DOMAIN msg.values |-> AsRead(msg.values[i])]]

\* The lines of the first i messages that storeCache was to write.
LinesUpTo(i) == Len(Lines(SubSeq(promised, 1, i)))
Written(i)   == LinesUpTo(i) <= Len(Lines(promised)) - torn
\* No message in front of it takes its first line for a value.
NotEaten(i)  == \A k \in 1..(i - 1) : promised[k].pairs <= Len(promised[k].values)

\* After a restart the cache has every message that storeCache had finished to write, as it
\* was but for its priority and the digits and the status of its values, if `pairs' is the
\* number of its values and no message in front of it has fewer than `pairs' says
\* (Aggregator.cpp:387-391, 412-497, Distributor.cpp:139-168).
StoredIsRestored ==
  gateway = "loaded" =>
    \A i \in DOMAIN promised :
      Written(i) /\ Counted(promised[i]) /\ NotEaten(i) =>
        Restored(promised[i]) \in ToSet(cache)

\* What comes back was stored, and as many as were, unless the file is torn or counts values
\* wrongly.
NothingInvented ==
  gateway = "loaded" =>
    \/ torn > 0
    \/ \E i \in DOMAIN promised : ~Counted(promised[i])
    \/ /\ Len(cache) = Len(promised)
       /\ ToSet(cache) = {Restored(promised[i]) : i \in DOMAIN promised}

\* loadCache returns, and run unlocks cache_lock, unless the file is torn
\* (Aggregator.cpp:150-154).
StuckIsTorn == gateway = "stuck" => torn > 0

BackupIsFaithful == StoredIsRestored /\ NothingInvented /\ StuckIsTorn
==============================================================================
