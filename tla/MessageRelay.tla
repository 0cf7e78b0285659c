---------------------------- MODULE MessageRelay ----------------------------
(***************************************************************************)
(* What the Aggregator promises its modules: a message it has accepted is  *)
(* held until the server has it; only a restart may drop it, and then the  *)
(* backup file may bring back messages that were delivered already.        *)
(***************************************************************************)
EXTENDS Naturals

CONSTANT Messages

VARIABLES accepted, held, delivered, epoch

relayVars == <<accepted, held, delivered, epoch>>

RelayInit == accepted = {} /\ held = {} /\ delivered = {} /\ epoch = 0

Accept(m) ==
  /\ m \notin accepted
  /\ accepted' = accepted \cup {m} /\ held' = held \cup {m}
  /\ UNCHANGED <<delivered, epoch>>

\* The server gets the message; the answer may be lost, and it stays held.
Deliver(m) ==
  /\ m \in held
  /\ delivered' = delivered \cup {m}
  /\ held' \in {held, held \ {m}}
  /\ UNCHANGED <<accepted, epoch>>

CrashAndReload ==
  /\ epoch' = epoch + 1
  /\ held' \in SUBSET (held \cup delivered)
  /\ UNCHANGED <<accepted, delivered>>

RelayNext == (\E m \in Messages : Accept(m) \/ Deliver(m)) \/ CrashAndReload

RelaySpec == RelayInit /\ [][RelayNext]_relayVars
==============================================================================
