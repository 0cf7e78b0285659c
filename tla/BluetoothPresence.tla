-------------------------- MODULE BluetoothPresence --------------------------
(***************************************************************************)
(* Which Bluetooth devices the gateway looks for (src/Bluetooth.cpp).  The *)
(* module's thread walks m_MAC_list, and asks the server for the paired    *)
(* devices as long as m_queries is positive; the thread that brings the    *)
(* server's commands scans, removes devices and takes the lists that the   *)
(* server sends by itself.  Nothing protects the list.  How long the       *)
(* module waits between two rounds is left out.                            *)
(***************************************************************************)
EXTENDS Integers, Sequences, SequencesExt

CONSTANTS
  Devices,
  Attempts, \* NUM_OF_ATTEMPTS, more than 1
  MaxScans, MaxPairings, MaxReboots \* bounds: listen commands, changes at the server, restarts

VARIABLES
  macs,    \* the devices in m_MAC_list; to list one twice makes no difference to remove()
  queries, \* m_queries
  bpc,     \* where threadFunction is
  todo,    \* for each thread, what listFromServer has still to look at
  adding,  \* the device it found missing, as a set
  sent,    \* the server's commands on their way
  handling,\* the one that parseCmdFromServer works on
  offered, \* devices the server has heard of
  paired,  \* devices paired at the server
  stale,   \* devices removed while an answer that has them was worked on
  owed,    \* a scan has ended, and neither a question nor a new device followed
  scans, pairings, reboots \* counters for the bounds

bounds  == <<scans, pairings, reboots>>
btVars  == <<macs, queries, bpc, todo, adding, sent, handling, offered, paired, stale, owed, bounds>>

Adders  == {"module", "command"}
Nobody  == [a \in Adders |-> {}]
Nothing == <<"none", {}>>

PresenceTypeOK ==
  /\ macs \subseteq Devices /\ queries \in -1..Attempts
  /\ bpc \in {"check", "freed", "query", "asked", "apply", "wait"}
  /\ todo \in [Adders -> SUBSET Devices] /\ adding \in [Adders -> SUBSET Devices]
  /\ handling[1] \in {"none", "listen", "scanned", "clean", "parameters"}
  /\ paired \subseteq Devices /\ offered \subseteq Devices /\ stale \subseteq Devices
  /\ owed \in BOOLEAN
  /\ scans \in 0..MaxScans /\ pairings \in 0..MaxPairings /\ reboots \in 0..MaxReboots

PresenceInit ==
  /\ macs = {} /\ queries = Attempts /\ bpc = "check"
  /\ todo = Nobody /\ adding = Nobody /\ sent = <<>> /\ handling = Nothing
  /\ stale = {} /\ owed = FALSE
  /\ paired \in SUBSET Devices /\ offered = paired
  /\ scans = 0 /\ pairings = 0 /\ reboots = 0

-----------------------------------------------------------------------------
(* The module's thread. *)

Goes(from, to) == bpc = from /\ bpc' = to

\* checkAndSendDevices walks the list, seconds for each device.
CheckDevices ==
  /\ Goes("check", "query")
  /\ UNCHANGED <<macs, queries, todo, adding, sent, handling, offered, paired, stale, owed, bounds>>

\* The walk goes on from a node that was removed, to wherever that leads.
UseFreed ==
  /\ Goes("freed", "query")
  /\ UNCHANGED <<macs, queries, todo, adding, sent, handling, offered, paired, stale, owed, bounds>>

\* getAllPairedDevices
Ask ==
  /\ queries > 0 /\ Goes("query", "asked")
  /\ owed' = FALSE
  /\ UNCHANGED <<macs, queries, todo, adding, sent, handling, offered, paired, stale, bounds>>

AskNoMore ==
  /\ queries <= 0 /\ Goes("query", "wait")
  /\ UNCHANGED <<macs, queries, todo, adding, sent, handling, offered, paired, stale, owed, bounds>>

\* The server answers, or does not.
Answer ==
  /\ Goes("asked", "apply")
  /\ \E devices \in {paired, {}} : todo' = [todo EXCEPT !["module"] = devices]
  /\ UNCHANGED <<macs, queries, adding, sent, handling, offered, paired, stale, owed, bounds>>

\* m_queries--, even if listFromServer has just reset it.
CountQuery ==
  /\ todo["module"] = {} /\ adding["module"] = {} /\ Goes("apply", "wait")
  /\ queries' = queries - 1
  /\ UNCHANGED <<macs, todo, adding, sent, handling, offered, paired, stale, owed, bounds>>

WakeUp ==
  /\ Goes("wait", "check")
  /\ UNCHANGED <<macs, queries, todo, adding, sent, handling, offered, paired, stale, owed, bounds>>

-----------------------------------------------------------------------------
(* addIfValid, on either thread: the search, and then the insertion. *)

LookUp(a) ==
  /\ adding[a] = {}
  /\ \E d \in todo[a] : /\ todo' = [todo EXCEPT ![a] = @ \ {d}]
                        /\ adding' = [adding EXCEPT ![a] = {d} \ macs]
  /\ UNCHANGED <<macs, queries, bpc, sent, handling, offered, paired, stale, owed, bounds>>

Add(a) ==
  /\ \E d \in adding[a] : macs' = macs \cup {d}
  /\ adding' = [adding EXCEPT ![a] = {}]
  /\ queries' = 0 /\ owed' = FALSE
  /\ UNCHANGED <<bpc, todo, sent, handling, offered, paired, stale, bounds>>

-----------------------------------------------------------------------------
(* parseCmdFromServer. *)

TakeCommand ==
  /\ handling = Nothing /\ sent # <<>>
  /\ handling' = Head(sent) /\ sent' = Tail(sent)
  /\ todo' = [todo EXCEPT !["command"] = IF handling'[1] = "parameters" THEN handling'[2] ELSE {}]
  /\ UNCHANGED <<macs, queries, bpc, adding, offered, paired, stale, owed, bounds>>

\* fullScan: each device found is sent to the server.
Scan ==
  /\ handling[1] = "listen"
  /\ \/ handling' = Nothing /\ UNCHANGED offered \* hcitool fails
     \/ /\ handling' = <<"scanned", {}>>
        /\ \E found \in SUBSET Devices : offered' = offered \cup found
  /\ UNCHANGED <<macs, queries, bpc, todo, adding, sent, paired, stale, owed, bounds>>

EndScan ==
  /\ handling[1] = "scanned" /\ handling' = Nothing
  /\ queries' = Attempts /\ owed' = TRUE
  /\ UNCHANGED <<macs, bpc, todo, adding, sent, offered, paired, stale, bounds>>

EndList ==
  /\ handling[1] = "parameters" /\ todo["command"] = {} /\ adding["command"] = {}
  /\ handling' = Nothing
  /\ UNCHANGED <<macs, queries, bpc, todo, adding, sent, offered, paired, stale, owed, bounds>>

\* m_MAC_list.remove; the walk may be at the node that goes.
Clean ==
  /\ handling[1] = "clean" /\ handling' = Nothing
  /\ \E d \in handling[2] :
       /\ macs' = macs \ {d}
       /\ \/ UNCHANGED bpc
          \/ d \in macs /\ Goes("check", "freed")
       /\ stale' = IF d \in todo["module"] \cup adding["module"] THEN stale \cup {d} ELSE stale \ {d}
  /\ UNCHANGED <<queries, todo, adding, sent, offered, paired, owed, bounds>>

-----------------------------------------------------------------------------
(* The server, and the end of the process. *)

Sends(command) == sent' = Append(sent, command)

\* "server will be send list of devices itself after every change", if the
\* command arrives.
Pair(d) ==
  /\ pairings < MaxPairings /\ pairings' = pairings + 1
  /\ d \in offered \ paired /\ paired' = paired \cup {d}
  /\ UNCHANGED sent \/ Sends(<<"parameters", paired'>>)
  /\ UNCHANGED <<macs, queries, bpc, todo, adding, handling, offered, stale, owed, scans, reboots>>

Unpair(d) ==
  /\ pairings < MaxPairings /\ pairings' = pairings + 1
  /\ d \in paired /\ paired' = paired \ {d}
  /\ Sends(<<"clean", {d}>>)
  /\ UNCHANGED <<macs, queries, bpc, todo, adding, handling, offered, stale, owed, scans, reboots>>

Listen ==
  /\ scans < MaxScans /\ scans' = scans + 1
  /\ Sends(<<"listen", {}>>)
  /\ UNCHANGED <<macs, queries, bpc, todo, adding, handling, offered, paired, stale, owed, pairings, reboots>>

\* The list is kept in memory only.
StartAgain ==
  /\ reboots < MaxReboots /\ reboots' = reboots + 1
  /\ macs' = {} /\ queries' = Attempts /\ bpc' = "check"
  /\ todo' = Nobody /\ adding' = Nobody /\ sent' = <<>> /\ handling' = Nothing
  /\ stale' = {} /\ owed' = FALSE
  /\ UNCHANGED <<offered, paired, scans, pairings>>

ModuleThread ==
  \/ CheckDevices \/ UseFreed \/ Ask \/ AskNoMore \/ Answer \/ CountQuery \/ WakeUp
  \/ LookUp("module") \/ Add("module")
CommandThread ==
  \/ TakeCommand \/ Scan \/ EndScan \/ EndList \/ Clean
  \/ LookUp("command") \/ Add("command")
PresenceNext ==
  \/ ModuleThread \/ CommandThread \/ Listen \/ StartAgain
  \/ \E d \in Devices : Pair(d) \/ Unpair(d)

\* The module's thread loops.
PresenceFairness == WF_btVars(ModuleThread)

PresenceSpec == PresenceInit /\ [][PresenceNext]_btVars /\ PresenceFairness

-----------------------------------------------------------------------------
Cleaning(d) == <<"clean", {d}>> \in ToSet(sent) \cup {handling}

\* The gateway looks for a device only while it is paired or the command that
\* removes it is still to come, unless an older answer brought it back: the two
\* threads that add and remove share the list (Bluetooth.cpp:79-88, 304-330).
ListedIsPaired == macs \subseteq paired \cup stale \cup {d \in Devices : Cleaning(d)}

\* Each scan is followed by a question to the server, or by a new device, whatever
\* answers and resets of m_queries it meets (lines 105-110, 230-231, 299-309).
ScanIsFollowed == owed ~> ~owed
==============================================================================
