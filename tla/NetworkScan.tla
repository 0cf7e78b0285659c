------------------------------ MODULE NetworkScan ------------------------------
(***************************************************************************)
(* The search for VPT regulators on the local network (src/HTTP.cpp,       *)
(* checkIPAddresses and detectNetworkDevices): the range of each of the    *)
(* gateway's addresses is tried one by one.  Only the last byte of an      *)
(* address is counted up, modulo 256.  Below a prefix of 24 only the first *)
(* 256 addresses of the network are tried, which need not be the gateway's *)
(* neighbours: the hosts here are those of these 256.                      *)
(***************************************************************************)
EXTENDS Integers, Sequences, SequencesExt, FiniteSets

CONSTANTS
  Bits,       \* width of the last byte: 8
  Interfaces, \* addresses of the gateway: [octet |-> last byte, prefix |-> 1 .. 32]
  Hosts       \* last bytes of the hosts that may answer, in the same 24-bit network

Size == 2^Bits

VARIABLES
  network, \* the address whose range is tried
  up,      \* hosts that answer
  tries,   \* p of the loop
  testIP,  \* the address to try
  mask,    \* help_mask, the one to try after it
  devices  \* the hosts that were found

scanVars == <<network, up, tries, testIP, mask, devices>>

\* How many of the byte's bits the prefix leaves to the hosts; a prefix below 24 counts as 24.
HostBits(i) == IF 32 - i.prefix > Bits THEN Bits ELSE 32 - i.prefix

\* ipv4_to_mask_u32: the first address of the range.
First(i) == i.octet - (i.octet % (2^HostBits(i)))

\* Faulty variant: the loop that sets the bits begins with the second one.
BroadcastShort(i) == First(i) + 2^HostBits(i) - (IF HostBits(i) > 0 THEN 2 ELSE 1)

\* ipv4_to_broadcast_u32: the last one.
Broadcast(i) == First(i) + 2^HostBits(i) - 1

ScanTypeOK ==
  /\ network \in Interfaces /\ up \subseteq Hosts /\ tries \in 0 .. Size
  /\ testIP \in 0 .. Size - 1 /\ mask \in 0 .. Size - 1
  /\ devices \in Seq(Hosts)

ScanInit ==
  /\ network \in Interfaces /\ up \in SUBSET Hosts
  /\ tries = 0 /\ testIP = First(network) /\ mask = First(network) /\ devices = <<>>

More == testIP <= Broadcast(network) /\ tries < Size

\* Try to connect.  The next address is taken from help_mask before that is counted up: the
\* first address is tried twice.
Try ==
  /\ More
  /\ devices' = IF testIP \in up THEN Append(devices, testIP) ELSE devices
  /\ tries' = tries + 1 /\ testIP' = mask /\ mask' = (mask + 1) % Size
  /\ UNCHANGED <<network, up>>

\* The next range, and other hosts are up.
NextRange ==
  /\ ~More
  /\ network' \in Interfaces /\ up' \in SUBSET Hosts
  /\ tries' = 0 /\ testIP' = First(network') /\ mask' = First(network') /\ devices' = <<>>

ScanNext == Try \/ NextRange
ScanSpec == ScanInit /\ [][ScanNext]_scanVars

-----------------------------------------------------------------------------
\* The host has the gateway's prefix.
InRange(h) == h \div (2^HostBits(network)) = network.octet \div (2^HostBits(network))

\* When a range is done, each host of it that answers has been found, once unless it is the
\* range's first address.  The host at the end of the byte (255) is exempt: a range of the
\* whole byte uses up its tries before it, one that only ends there goes on behind it and
\* begins the byte again.  Hosts outside of the range are found only then
\* (HTTP.cpp:118-190).
FindsHosts ==
  ~More =>
    /\ \A h \in up : InRange(h) /\ h # Size - 1 =>
         Cardinality({k \in DOMAIN devices : devices[k] = h}) = IF h = First(network) THEN 2 ELSE 1
    /\ \A k \in DOMAIN devices : InRange(devices[k]) \/ InRange(Size - 1)
==============================================================================
