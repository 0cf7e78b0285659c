------------------------------ MODULE LedModule ------------------------------
(***************************************************************************)
(* The LEDs of the gateway (src/LedModule.cpp).  Another program,          *)
(* IODaemon, switches them when a datagram tells it to, and reports        *)
(* each change with one.  The module's thread recovers the state that the  *)
(* server remembers until it hears from IODaemon; the thread that brings   *)
(* the server's commands sets single LEDs.  Both change ioDaemonMsg, which *)
(* has all of them, without a lock.                                        *)
(***************************************************************************)
EXTENDS Integers, Sequences

CONSTANTS
  Leds,
  MaxOrders, \* bound: set commands
  MaxQueued, \* bound: datagrams on their way
  MaxUpsets  \* bound: datagrams lost, and changes by others

Colours == [Leds -> {0, 1}]
Off     == [l \in Leds |-> 0]
NoSetting == <<CHOOSE l \in Leds : TRUE, 0>>

VARIABLES
  ledConf,     \* the configuration in ioDaemonMsg
  initialized, \* is_initialized
  lpc,         \* where threadFunction is
  recovered,   \* what recoverLastValue has obtained
  orders,      \* for each thread, where it is with a set command
  setting,     \* the LED and the value of the command
  local,       \* its copy of the configuration
  datagrams,   \* on their way to IODaemon
  lit,         \* what the LEDs show
  reports,     \* datagrams on their way back
  wanted,      \* the last setting of each LED, by a command or recovered
  told,        \* something has been sent to IODaemon
  upset,       \* two threads met, a datagram was lost, or others changed the LEDs
  ordered, upsets \* counters for the bounds

threadVars == <<ledConf, initialized, lpc, recovered, orders, setting, local>>
ledVars == <<threadVars, datagrams, lit, reports, wanted, told, upset, ordered, upsets>>

Givers == {"module", "command"}

LedTypeOK ==
  /\ ledConf \in Colours /\ initialized \in BOOLEAN
  /\ lpc \in {"start", "ask", "store", "send", "receive", "answer"}
  /\ recovered \in Colours
  /\ orders \in [Givers -> {"no", "read", "write", "send"}]
  /\ setting \in [Givers -> Leds \X {0, 1}] /\ local \in [Givers -> Colours]
  /\ datagrams \in Seq(Colours) /\ lit \in Colours /\ reports \in Nat
  /\ wanted \in Colours /\ told \in BOOLEAN /\ upset \in BOOLEAN
  /\ ordered \in 0..MaxOrders /\ upsets \in 0..MaxUpsets

LedInit ==
  /\ ledConf \in Colours \* uninitialized
  /\ initialized = FALSE /\ lpc = "start" /\ recovered = Off
  /\ orders = [g \in Givers |-> "no"]
  /\ setting = [g \in Givers |-> NoSetting] /\ local = [g \in Givers |-> Off]
  /\ datagrams = <<>> /\ lit \in Colours /\ reports = 0
  /\ wanted = Off /\ told = FALSE /\ upset = FALSE /\ ordered = 0 /\ upsets = 0

-----------------------------------------------------------------------------
(* The module's thread. *)

Goes(from, to) == lpc = from /\ lpc' = to

\* createDaemonMsg has all LEDs off.
StartRecovery ==
  /\ ~initialized /\ Goes("start", "ask")
  /\ ledConf' = Off
  /\ upset' = (upset \/ orders["command"] # "no")
  /\ UNCHANGED <<initialized, recovered, orders, setting, local, datagrams, lit, reports,
                 wanted, told, ordered, upsets>>

RecoverNoMore ==
  /\ initialized /\ Goes("start", "receive")
  /\ UNCHANGED <<ledConf, initialized, recovered, orders, setting, local, datagrams,
                 lit, reports, wanted, told, upset, ordered, upsets>>

\* obtainLastValue of each LED: some value; a new gateway has none, which counts as 0.
AskLast ==
  /\ Goes("ask", "store")
  /\ recovered' \in Colours
  /\ UNCHANGED <<ledConf, initialized, orders, setting, local, datagrams, lit, reports,
                 wanted, told, upset, ordered, upsets>>

\* One is not answered.  The configuration stays off, whatever an earlier round has sent.
AskFails ==
  /\ Goes("ask", "receive")
  /\ upset' = (upset \/ told)
  /\ UNCHANGED <<ledConf, initialized, recovered, orders, setting, local, datagrams, lit,
                 reports, wanted, told, ordered, upsets>>

StoreRecovered ==
  /\ Goes("store", "send")
  /\ ledConf' = recovered /\ wanted' = recovered /\ recovered' = Off
  /\ upset' = (upset \/ orders["command"] # "no")
  /\ UNCHANGED <<initialized, orders, setting, local, datagrams, lit, reports, told,
                 ordered, upsets>>

\* sendToDaemon
SendRecovered ==
  /\ Goes("send", "receive") /\ Len(datagrams) < MaxQueued
  /\ datagrams' = Append(datagrams, ledConf) /\ told' = TRUE
  /\ UNCHANGED <<ledConf, initialized, recovered, orders, setting, local, lit, reports,
                 wanted, upset, ordered, upsets>>

\* receiveFromDaemon waits five seconds for a report, which goes to the server.
ReceiveReport ==
  /\ reports > 0 /\ reports' = reports - 1 /\ Goes("receive", "answer")
  /\ initialized' = TRUE
  /\ UNCHANGED <<ledConf, recovered, orders, setting, local, datagrams, lit, wanted,
                 told, upset, ordered, upsets>>

ReceiveNothing ==
  /\ Goes("receive", "start")
  /\ UNCHANGED <<ledConf, initialized, recovered, orders, setting, local, datagrams,
                 lit, reports, wanted, told, upset, ordered, upsets>>

EndRound ==
  /\ orders["module"] = "no" /\ Goes("answer", "start")
  /\ UNCHANGED <<ledConf, initialized, recovered, orders, setting, local, datagrams,
                 lit, reports, wanted, told, upset, ordered, upsets>>

-----------------------------------------------------------------------------
(* parseCmdFromServer with a set command, on either thread: from the server's *)
(* answer to a report, or by Aggregator::parseCmd.                            *)

\* A configuration with the command's value in it.
Changed(c, g) == [c EXCEPT ![setting[g][1]] = setting[g][2]]

Order(g) ==
  /\ g = "module" => lpc = "answer"
  /\ orders[g] = "no" /\ orders' = [orders EXCEPT ![g] = "read"]
  /\ ordered < MaxOrders /\ ordered' = ordered + 1
  /\ \E l \in Leds, n \in {0, 1} : setting' = [setting EXCEPT ![g] = <<l, n>>]
  /\ upset' = (upset \/ (\E h \in Givers : orders[h] # "no") \/ ~initialized)
  /\ UNCHANGED <<ledConf, initialized, lpc, recovered, local, datagrams, lit, reports,
                 wanted, told, upsets>>

ReadConf(g) ==
  /\ orders[g] = "read" /\ orders' = [orders EXCEPT ![g] = "write"]
  /\ local' = [local EXCEPT ![g] = Changed(ledConf, g)]
  /\ UNCHANGED <<ledConf, initialized, lpc, recovered, setting, datagrams, lit,
                 reports, wanted, told, upset, ordered, upsets>>

WriteConf(g) ==
  /\ orders[g] = "write" /\ orders' = [orders EXCEPT ![g] = "send"]
  /\ ledConf' = local[g] /\ local' = [local EXCEPT ![g] = Off]
  /\ wanted' = Changed(wanted, g)
  /\ UNCHANGED <<initialized, lpc, recovered, setting, datagrams, lit, reports,
                 told, upset, ordered, upsets>>

SendConf(g) ==
  /\ orders[g] = "send" /\ orders' = [orders EXCEPT ![g] = "no"] /\ Len(datagrams) < MaxQueued
  /\ setting' = [setting EXCEPT ![g] = NoSetting]
  /\ datagrams' = Append(datagrams, ledConf) /\ told' = TRUE
  /\ UNCHANGED <<ledConf, initialized, lpc, recovered, local, lit, reports,
                 wanted, upset, ordered, upsets>>

-----------------------------------------------------------------------------
(* IODaemon, and who else uses it. *)

Show ==
  /\ datagrams # <<>> /\ lit' = Head(datagrams) /\ datagrams' = Tail(datagrams)
  /\ reports' = 1
  /\ UNCHANGED <<threadVars, wanted, told, upset, ordered, upsets>>

LoseDatagram ==
  /\ datagrams # <<>> /\ datagrams' = Tail(datagrams)
  /\ upsets < MaxUpsets /\ upsets' = upsets + 1 /\ upset' = TRUE
  /\ UNCHANGED <<threadVars, lit, reports, wanted, told, ordered>>

OthersShow ==
  /\ upsets < MaxUpsets /\ upsets' = upsets + 1 /\ upset' = TRUE
  /\ lit' \in Colours /\ reports' = 1
  /\ UNCHANGED <<threadVars, datagrams, wanted, told, ordered>>

LedNext ==
  \/ StartRecovery \/ RecoverNoMore \/ AskLast \/ AskFails \/ StoreRecovered \/ SendRecovered
  \/ ReceiveReport \/ ReceiveNothing \/ EndRound
  \/ \E g \in Givers : Order(g) \/ ReadConf(g) \/ WriteConf(g) \/ SendConf(g)
  \/ Show \/ LoseDatagram \/ OthersShow

LedSpec == LedInit /\ [][LedNext]_ledVars

-----------------------------------------------------------------------------
\* When nothing is under way each LED shows what it was last set to, though each
\* datagram has all of them (lines 54-66, 119-146, 235-251), as long as no order came
\* before the module was initialized, or during another, and none met a recovery.
LedsFollow ==
  /\ told /\ ~upset /\ datagrams = <<>> /\ lpc # "send" /\ \A g \in Givers : orders[g] = "no"
  => lit = wanted
==============================================================================
