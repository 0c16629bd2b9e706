---------------------------- MODULE CardRegistry ----------------------------
(***************************************************************************)
(* The cards of the evdi module: the sysfs registry of module/evdi.rs, its *)
(* add and remove_all files and the USB removal notifier.                  *)
(*                                                                         *)
(* Writers are concurrent writes of usb:<path> to the add file.  A card is *)
(* its index.  Its platform device is in sysfs from the moment it is       *)
(* registered, its `device' link to the dock comes a step later, and the   *)
(* /dev node some time after that.  CardClients has those who look for a   *)
(* card and open it.                                                       *)
(***************************************************************************)
EXTENDS Integers, FiniteSets, FiniteSetsExt

CONSTANTS
    MAX_CARDS,
    Indices,           \* card indices, more than the registry may hold
    Writers,           \* concurrent writes of a usb address
    MaxWrites,         \* bound: writes of a number to add, and of remove_all, by others
    MaxPlugs           \* bound: times the dock is plugged in

ASSUME RegistryAssumption ==
    /\ MAX_CARDS \in Nat /\ Indices \subseteq Nat /\ IsFiniteSet(Indices)
    /\ MaxWrites \in Nat /\ MaxPlugs \in Nat

VARIABLES
    generic, attached,   \* RegistryState.devices: cards without and with the dock's address
    dropping,            \* entries out of the list whose cards are not yet unregistered
    making,              \* per writer: the card it registered and has not listed, or -1
    wpc,                 \* per writer: idle, found, made, linked
    linked,              \* the cards with a `device' link
    plugged, sweeping,   \* the dock; its removal notifier has yet to run
    nodes,               \* cards whose node has appeared
    writes, plugs

registryVars == <<generic, attached, dropping, making, wpc, linked, plugged, sweeping, nodes, writes, plugs>>

Devices == generic \cup attached
\* The platform devices there are: listed, on their way in, on their way out.
Live == (Devices \cup dropping \cup {making[w] : w \in Writers}) \ {-1}

RegistryInit ==
    /\ generic = {} /\ attached = {} /\ dropping = {} /\ linked = {} /\ nodes = {}
    /\ making = [w \in Writers |-> -1] /\ wpc = [w \in Writers |-> "idle"]
    /\ plugged = TRUE /\ sweeping = FALSE
    /\ writes = 0 /\ plugs = 1

\* The k lowest of a set of indices.
Lowest(k, s) == {i \in s : Cardinality({j \in s : j < i}) < k}

\* A write of a number to add: refused when the cards would not fit, else that
\* many are made under the lock, at indices nothing holds.  A card that cannot
\* be made ends the write with those before it kept.
AddGeneric(count, made, taken) ==
    generic' = IF Cardinality(Devices) + count > MAX_CARDS THEN generic
               ELSE generic \cup Lowest(made, Indices \ (Live \cup taken))

StoreAdd(count, made, taken) ==
    /\ writes < MaxWrites /\ made <= count
    /\ writes' = writes + 1
    /\ AddGeneric(count, made, taken)
    /\ UNCHANGED <<attached, dropping, making, wpc, linked, plugged, sweeping, nodes, plugs>>

-----------------------------------------------------------------------------
\* add_usb_device: the dock is looked up, ...
UsbFind(w) ==
    /\ wpc[w] = "idle" /\ plugged
    /\ wpc' = [wpc EXCEPT ![w] = "found"]
    /\ UNCHANGED <<generic, attached, dropping, making, linked, plugged, sweeping, nodes, writes, plugs>>

\* ... its card registered, unless that fails, ...
UsbMake(w, taken) ==
    /\ wpc[w] = "found"
    /\ \/ /\ \E i \in Lowest(1, Indices \ (Live \cup taken)) : making' = [making EXCEPT ![w] = i]
          /\ wpc' = [wpc EXCEPT ![w] = "made"]
       \/ wpc' = [wpc EXCEPT ![w] = "idle"] /\ UNCHANGED making
    /\ UNCHANGED <<generic, attached, dropping, linked, plugged, sweeping, nodes, writes, plugs>>

\* The writer gives its card up: it is unregistered.
UsbDrop(w) ==
    /\ making' = [making EXCEPT ![w] = -1]
    /\ nodes' = nodes \ {making[w]} /\ linked' = linked \ {making[w]}
    /\ wpc' = [wpc EXCEPT ![w] = "idle"]

\* ... linked to the dock, or given up when the link cannot be made, ...
UsbLink(w) ==
    /\ wpc[w] = "made"
    /\ \/ /\ linked' = linked \cup {making[w]}
          /\ wpc' = [wpc EXCEPT ![w] = "linked"]
          /\ UNCHANGED <<making, nodes>>
       \/ UsbDrop(w)
    /\ UNCHANGED <<generic, attached, dropping, plugged, sweeping, writes, plugs>>

\* Mutant: the card is listed without another look at the limit.
UsbListUnchecked(w) ==
    /\ wpc[w] = "linked"
    /\ attached' = attached \cup {making[w]}
    /\ making' = [making EXCEPT ![w] = -1]
    /\ wpc' = [wpc EXCEPT ![w] = "idle"]
    /\ UNCHANGED <<generic, dropping, linked, plugged, sweeping, nodes, writes, plugs>>

\* ... and listed under the lock; when the list is full it is given up.
UsbList(w) ==
    /\ wpc[w] = "linked"
    /\ \/ /\ Cardinality(Devices) >= MAX_CARDS
          /\ UsbDrop(w) /\ UNCHANGED attached
       \/ /\ Cardinality(Devices) < MAX_CARDS
          /\ attached' = attached \cup {making[w]}
          /\ making' = [making EXCEPT ![w] = -1]
          /\ wpc' = [wpc EXCEPT ![w] = "idle"]
          /\ UNCHANGED <<linked, nodes>>
    /\ UNCHANGED <<generic, dropping, plugged, sweeping, writes, plugs>>

\* The dock goes; the notifier runs after it is off the bus.
Unplug ==
    /\ plugged /\ ~sweeping
    /\ plugged' = FALSE /\ sweeping' = TRUE
    /\ UNCHANGED <<generic, attached, dropping, making, wpc, linked, nodes, writes, plugs>>

Plug ==
    /\ ~plugged /\ ~sweeping /\ plugs < MaxPlugs
    /\ plugged' = TRUE /\ plugs' = plugs + 1
    /\ UNCHANGED <<generic, attached, dropping, making, wpc, linked, sweeping, nodes, writes>>

\* remove_usb: every card of the dock leaves the list under the lock ...
RemoveUsb ==
    /\ sweeping
    /\ dropping' = dropping \cup attached
    /\ attached' = {}
    /\ sweeping' = FALSE
    /\ UNCHANGED <<generic, making, wpc, linked, plugged, nodes, writes, plugs>>

\* remove_all: so does every card there is.
RemoveAll ==
    /\ writes < MaxWrites
    /\ writes' = writes + 1
    /\ dropping' = dropping \cup Devices
    /\ generic' = {} /\ attached' = {}
    /\ UNCHANGED <<making, wpc, linked, plugged, sweeping, nodes, plugs>>

\* ... and is unregistered after it is released.
DropEntries ==
    /\ dropping # {}
    /\ dropping' = {}
    /\ nodes' = nodes \ dropping /\ linked' = linked \ dropping
    /\ UNCHANGED <<generic, attached, making, wpc, plugged, sweeping, writes, plugs>>

\* udev makes the node of a registered card (external).
NodeAppears(i) ==
    /\ i \in Live \ nodes
    /\ nodes' = nodes \cup {i}
    /\ UNCHANGED <<generic, attached, dropping, making, wpc, linked, plugged, sweeping, writes, plugs>>

\* What the registry does with nobody holding a card: the writers alone.
RegistryStep(taken) ==
    \/ \E count \in 1 .. MAX_CARDS + 1, made \in 0 .. MAX_CARDS : StoreAdd(count, made, taken)
    \/ Unplug \/ Plug \/ RemoveUsb \/ RemoveAll \/ DropEntries
    \/ \E i \in Indices : NodeAppears(i)

WriterStep(w, taken) == UsbFind(w) \/ UsbMake(w, taken) \/ UsbLink(w) \/ UsbList(w)

RegistryNext == RegistryStep({}) \/ \E w \in Writers : WriterStep(w, {})

RegistrySpec == RegistryInit /\ [][RegistryNext]_registryVars

-----------------------------------------------------------------------------
\* The registry never lists more than MAX_CARDS, with several writers between
\* their look at it and their entry.
RegistryBounded == Cardinality(Devices) <= MAX_CARDS
=============================================================================
