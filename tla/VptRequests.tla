------------------------------ MODULE VptRequests ------------------------------
(***************************************************************************)
(* A VPT regulator's web page: readings and orders (createMsg,             *)
(* sendSetRequest and processCmdSet of src/VPT.cpp, src/JSON.cpp,          *)
(* sendRequest of src/HTTP.cpp).  A JSON file names the variables of the   *)
(* page; some are numbers, some words that stand for numbers.  A regulator *)
(* with a password answers an order with a page to log in, which has a     *)
(* random number for the hash.  What was done is stamped on the regulator  *)
(* with another order.  The module's thread, which reads, and the thread   *)
(* of the commands, which sets, share one HTTP client without a lock.      *)
(* Left out: an order that comes as the server's answer to a reading,      *)
(* which the module's thread carries out (VPT.cpp:184).                    *)
(***************************************************************************)
EXTENDS Integers, Sequences, SequencesExt

CONSTANTS
  Variables, \* of the page
  Options,   \* of some variables: a sequence of [word, number]
  Sensors,   \* [id -> variable]
  Actuators, \* [id -> variable]
  Values,    \* that a variable can have and the server can order
  SEND_RETRY,
  MaxCalls   \* bound: orders, readings and changes of the regulator

PRESSURE_MODULE_ID == 62
CONVERT_VALUE == 1000

Readers == {"module", "command"}

VARIABLES
  page,     \* the regulator: the value of each variable
  guarded,  \* it wants a password, and the gateway has it, or a wrong one
  hash,     \* dev.password_hash: none, right or stale
  vrpc,     \* of each thread: rest, prepare, exchange, judge
  request,  \* what each thread wants: its kind (page, set, stamp), variable, text and hash
  client,   \* what the HTTP client is set up for
  content,  \* what each thread got
  tries,    \* of each thread's order or stamp
  carried,  \* the regulator has carried out the order
  alone,    \* the other thread has not been in the HTTP client
  returned, \* of the last order: its result, and carried and alone
  reading,  \* the last values of the module's thread, and what they were of
  ended,    \* the thread of the commands has ended
  vrCalls

requestVars == <<page, guarded, hash, vrpc, request, client, content, tries, carried, alone,
                 returned, reading, ended, vrCalls>>

Text(word, number) == [word |-> word, number |-> number]
Nothing == [kind |-> "none", shown |-> <<>>, of |-> <<>>, fresh |-> FALSE]
NoRequest == [kind |-> "page", variable |-> CHOOSE v \in Variables : TRUE,
              text |-> Text("", 0), hash |-> "none"]
NoResult == [ok |-> FALSE, carried |-> FALSE, alone |-> TRUE]
NoReading == [values |-> <<>>, of |-> <<>>, alone |-> TRUE]
Login == [Nothing EXCEPT !.kind = "login", !.fresh = TRUE]

RequestsTypeOK ==
  /\ page \in [Variables -> Values] /\ guarded \in {"no", "right", "wrong"}
  /\ hash \in {"none", "right", "stale"} /\ tries \in [Readers -> 0 .. SEND_RETRY]
  /\ vrpc \in [Readers -> {"rest", "prepare", "exchange", "judge"}]
  /\ \A t \in Readers : content[t].kind \in {"none", "login", "json"}
  /\ carried \in BOOLEAN /\ ended \in BOOLEAN /\ vrCalls \in 0 .. MaxCalls

RequestsInit ==
  /\ page \in [Variables -> Values] /\ guarded \in {"no", "right", "wrong"} /\ hash = "none"
  /\ vrpc = [t \in Readers |-> "rest"] /\ request = [t \in Readers |-> NoRequest]
  /\ client = NoRequest /\ content = [t \in Readers |-> Nothing]
  /\ tries = [t \in Readers |-> 0] /\ carried = FALSE /\ alone = [t \in Readers |-> TRUE]
  /\ returned = NoResult
  /\ reading = NoReading /\ ended = FALSE /\ vrCalls = 0

-----------------------------------------------------------------------------
(* The regulator. *)

HasOption(v, n) == \E k \in DOMAIN Options[v] : Options[v][k].number = n

\* How the page shows a variable: a number, or a word, which the file may not know.
Word(v, n) ==
  IF HasOption(v, n) THEN (CHOOSE o \in ToSet(Options[v]) : o.number = n).word ELSE "?"
Shown(v) ==
  IF v \in DOMAIN Options THEN Text(Word(v, page[v]), 0) ELSE Text("", page[v])

\* The value that the text of an order stands for.
Meant(v, text) ==
  IF v \in DOMAIN Options THEN (CHOOSE o \in ToSet(Options[v]) : o.word = text.word).number
  ELSE text.number

Grants(r) == guarded = "no" \/ (guarded = "right" /\ r.hash = "right")

\* Somebody turns a knob; the regulator makes up a new random number.
Turn ==
  /\ vrCalls < MaxCalls /\ vrCalls' = vrCalls + 1
  /\ \E v \in Variables, n \in Values : page' = [page EXCEPT ![v] = n]
  /\ UNCHANGED <<guarded, hash, vrpc, request, client, content, tries, carried, alone,
                 returned, reading, ended>>

Stale(h) == IF h = "right" THEN "stale" ELSE h
Renew ==
  /\ guarded # "no" /\ vrCalls < MaxCalls /\ vrCalls' = vrCalls + 1
  /\ hash' = Stale(hash)
  /\ request' = [t \in Readers |-> [request[t] EXCEPT !.hash = Stale(@)]]
  /\ client' = [client EXCEPT !.hash = Stale(@)]
  /\ content' = [t \in Readers |-> [content[t] EXCEPT !.fresh = FALSE]]
  /\ UNCHANGED <<page, guarded, vrpc, tries, carried, alone, returned, reading, ended>>

-----------------------------------------------------------------------------
(* sendRequest *)

OtherReader(t) == IF t = "module" THEN "command" ELSE "module"

\* reset, setHost, setURI: the client is set up for this request.
Prepare(t) ==
  /\ vrpc[t] = "prepare" /\ vrpc' = [vrpc EXCEPT ![t] = "exchange"]
  /\ client' = request[t]
  /\ alone' = IF vrpc[OtherReader(t)] = "exchange" THEN [u \in Readers |-> FALSE] ELSE alone
  /\ UNCHANGED <<page, guarded, hash, request, content, tries, carried, returned, reading,
                 ended, vrCalls>>

\* What is sent is what the client is set up for by now.  It may get lost on the way there,
\* or the answer on the way back: then sendRequest throws, and content is what it was.
Exchange(t) ==
  /\ vrpc[t] = "exchange" /\ vrpc' = [vrpc EXCEPT ![t] = "judge"]
  /\ \/ UNCHANGED <<page, carried, content>>
     \/ \E lost \in BOOLEAN :
          LET r  == client
              ok == r.kind = "set" /\ Grants(r)
              reply == IF r.kind # "page" /\ ~Grants(r) THEN Login
                       ELSE [kind |-> "json", shown |-> [v \in Variables |-> Shown(v)],
                             of |-> page, fresh |-> FALSE]
          IN  /\ page' = IF ok THEN [page EXCEPT ![r.variable] = Meant(r.variable, r.text)] ELSE page
              /\ carried' = (carried \/ ok)
              /\ content' = IF lost THEN content ELSE [content EXCEPT ![t] = reply]
  /\ client' = IF vrpc[OtherReader(t)] = "exchange" THEN client ELSE NoRequest
  /\ UNCHANGED <<guarded, hash, request, tries, alone, returned, reading, ended, vrCalls>>

-----------------------------------------------------------------------------
(* Orders. *)

\* processCmdSet, generateRequestURL: an actuator that the file does not name, or a word it
\* does not have.  For the latter convertEnumToValue throws, and nobody catches.
Unknowns(id, n) ==
  /\ ~ended /\ vrpc["command"] = "rest" /\ vrCalls < MaxCalls /\ vrCalls' = vrCalls + 1
  /\ \/ id \notin DOMAIN Actuators /\ UNCHANGED ended
     \/ /\ id \in DOMAIN Actuators /\ Actuators[id] \in DOMAIN Options
        /\ ~HasOption(Actuators[id], n) /\ ended' = TRUE
  /\ UNCHANGED <<page, guarded, hash, vrpc, request, client, content, tries, carried, alone,
                 returned, reading>>

Set(id, n) ==
  /\ ~ended /\ vrpc["command"] = "rest" /\ vrCalls < MaxCalls /\ vrCalls' = vrCalls + 1
  /\ id \in DOMAIN Actuators
  /\ LET v == Actuators[id]
     IN  /\ v \in DOMAIN Options => HasOption(v, n)
         /\ request' = [request EXCEPT !["command"] =
              [kind |-> "set", variable |-> v, hash |-> hash,
               text |-> IF v \in DOMAIN Options THEN Text(Word(v, n), 0) ELSE Text("", n)]]
  /\ vrpc' = [vrpc EXCEPT !["command"] = "prepare"]
  /\ content' = [content EXCEPT !["command"] = Nothing]
  /\ tries' = [tries EXCEPT !["command"] = 0]
  /\ carried' = FALSE /\ alone' = [alone EXCEPT !["command"] = TRUE]
  /\ returned' = NoResult
  /\ UNCHANGED <<page, guarded, hash, client, reading, ended>>

\* updateTimestampOnVPT: the hash is the one that the device has by now.
Stamp(t, ofDevice) ==
  /\ request' = [request EXCEPT ![t] = [NoRequest EXCEPT !.kind = "stamp", !.hash = ofDevice]]
  /\ content' = [content EXCEPT ![t] = Nothing] /\ tries' = [tries EXCEPT ![t] = 0]
  /\ vrpc' = [vrpc EXCEPT ![t] = "prepare"]

\* sendSetRequest returns: an order that succeeded is followed by a stamp, a stamp by nothing.
Return(t, ok) ==
  /\ returned' = IF request[t].kind = "set"
                 THEN [ok |-> ok, carried |-> carried, alone |-> alone[t]] ELSE returned
  /\ IF ok /\ request[t].kind = "set" THEN Stamp(t, hash)
     ELSE /\ vrpc' = [vrpc EXCEPT ![t] = "rest"]
          /\ request' = [request EXCEPT ![t] = NoRequest]
          /\ content' = [content EXCEPT ![t] = Nothing] /\ tries' = [tries EXCEPT ![t] = 0]

\* Faulty variant: any page is taken for the regulator's consent.
ConsentsAlways(c) == c.kind # "none"

\* isJSONFormat
Consents(c) == c.kind = "json"

\* JSON is consent.  Else buildPasswordHash makes a hash of the page's random number, or ""
\* if there is none; in that case the request keeps the hash it had.
JudgeSet(t) ==
  /\ vrpc[t] = "judge" /\ request[t].kind # "page"
  /\ LET c == content[t]
         built == IF c.kind # "login" THEN "none"
                  ELSE IF guarded = "right" /\ c.fresh THEN "right" ELSE "stale"
     IN  \/ Consents(c) /\ Return(t, TRUE) /\ UNCHANGED hash
         \/ /\ ~Consents(c) /\ hash' = built
            /\ \/ tries[t] + 1 = SEND_RETRY /\ Return(t, FALSE)
               \/ /\ tries[t] + 1 < SEND_RETRY /\ tries' = [tries EXCEPT ![t] = @ + 1]
                  /\ request' = IF built = "none" THEN request
                                ELSE [request EXCEPT ![t].hash = built]
                  /\ vrpc' = [vrpc EXCEPT ![t] = "prepare"] /\ UNCHANGED <<returned, content>>
  /\ UNCHANGED <<page, guarded, client, carried, alone, reading, ended, vrCalls>>

-----------------------------------------------------------------------------
(* Readings. *)

Read ==
  /\ vrpc["module"] = "rest" /\ vrCalls < MaxCalls /\ vrCalls' = vrCalls + 1
  /\ vrpc' = [vrpc EXCEPT !["module"] = "prepare"]
  /\ request' = [request EXCEPT !["module"] = NoRequest]
  /\ content' = [content EXCEPT !["module"] = Nothing]
  /\ alone' = [alone EXCEPT !["module"] = TRUE] /\ reading' = NoReading
  /\ UNCHANGED <<page, guarded, hash, client, tries, carried, returned, ended>>

\* convertValueToEnum, or stof: what is neither a number nor a word of the file is infinity.
Value(v, text) ==
  IF v \notin DOMAIN Options THEN [number |-> text.number, status |-> TRUE]
  ELSE IF \E o \in ToSet(Options[v]) : o.word = text.word
       THEN [number |-> Meant(v, text), status |-> TRUE]
       ELSE [number |-> 0, status |-> FALSE]

\* convertPressure
Converted(id, value) ==
  IF id = PRESSURE_MODULE_ID THEN [value EXCEPT !.number = CONVERT_VALUE * @] ELSE value

\* getSensors and convertPressure
ValuesOf(shown) == [id \in DOMAIN Sensors |-> Converted(id, Value(Sensors[id], shown[Sensors[id]]))]

\* createMsg: a page that is no JSON makes the parser throw, and nothing is sent.  What was
\* read is stamped, with the hash of the device.
JudgePage ==
  /\ vrpc["module"] = "judge" /\ request["module"].kind = "page"
  /\ LET c == content["module"]
     IN  \/ /\ c.kind = "json" /\ Stamp("module", hash)
            /\ reading' = [values |-> ValuesOf(c.shown), of |-> c.of, alone |-> alone["module"]]
         \/ /\ c.kind # "json" /\ vrpc' = [vrpc EXCEPT !["module"] = "rest"]
            /\ UNCHANGED <<request, content, tries, reading>>
  /\ UNCHANGED <<page, guarded, hash, client, carried, alone, returned, ended, vrCalls>>

RequestsNext ==
  \/ Turn \/ Renew \/ Read \/ JudgePage
  \/ \E id \in DOMAIN Actuators \union {0}, n \in Values : Set(id, n) \/ Unknowns(id, n)
  \/ \E t \in Readers : Prepare(t) \/ Exchange(t) \/ JudgeSet(t)

RequestsSpec == RequestsInit /\ [][RequestsNext]_requestVars

-----------------------------------------------------------------------------
\* An order that is reported done, after which the regulator gets its time stamp, has been
\* carried out, through all retries and pages to log in; and the server gets the values that
\* the regulator had, those that the file cannot name as unavailable.  The exception is a
\* request of the other thread in the same HTTP client (VPT.cpp:400-471, 505-530,
\* JSON.cpp:76-190, HTTP.cpp:72-98).
RegulatorIsRight ==
  /\ returned.ok /\ returned.alone => returned.carried
  /\ reading.alone => \A id \in DOMAIN reading.values :
       LET v == Sensors[id]
           n == reading.of[v]
       IN  reading.values[id] =
             IF v \notin DOMAIN Options \/ HasOption(v, n)
             THEN [number |-> IF id = PRESSURE_MODULE_ID THEN 1000 * n ELSE n, status |-> TRUE]
             ELSE [number |-> 0, status |-> FALSE]
==============================================================================
