---------------------------- MODULE CardClients -----------------------------
(***************************************************************************)
(* How a client comes by a card of the registry (library/src).             *)
(*                                                                         *)
(* Openers are the threads of a process that uses the C interface of       *)
(* lib.rs: evdi_open_attached_to looks for a card nobody in the process    *)
(* uses, asks the registry for one when there is none, looks again and     *)
(* opens what it found.  An opener's write of a usb address is the writer  *)
(* of CardRegistry with its name.  Heads are the outputs of a process that *)
(* uses Device::open_nth of safe.rs and asks for cards by position.        *)
(*                                                                         *)
(* An index belongs to its card while a file is open on it, even when the  *)
(* card is gone (external: DRM keeps the minor until the last reference).  *)
(* Who is DRM master decides how long an open waits, not which card it     *)
(* gets, and is left out.                                                  *)
(***************************************************************************)
EXTENDS CardRegistry

CONSTANTS
    Heads,             \* the positions asked for, one per output
    ADD_SETTLE_POLLS

ASSUME ClientsAssumption == Heads \subseteq Nat /\ ADD_SETTLE_POLLS \in Nat

Openers == Writers
Parents == {"generic", "usb"}

VARIABLES
    opc,           \* per opener: idle, find, write, refind, open, mark, held, closing
    parent,        \* per opener: the parent its call asked for, generic outside of one
    index,         \* per opener: the card it found or holds, or -1
    card_in_use,   \* Globals.card_in_use: the cards this process holds
    overlapped,    \* history: two calls into the library were under way at once
    card,          \* per head: the card it has open, or -1
    polls,         \* per head: turns of open_nth's loop
    first,         \* history, per head: the first card it was given, or -1
    shuffled       \* history: a card left, or a node came below an older one

openerVars == <<opc, parent, index, card_in_use, overlapped>>
headVars == <<card, polls, first>>
processVars == <<openerVars, headVars, shuffled>>

ClientsInit ==
    /\ RegistryInit
    /\ opc = [o \in Openers |-> "idle"] /\ parent = [o \in Openers |-> "generic"]
    /\ index = [o \in Openers |-> -1]
    /\ card_in_use = {} /\ overlapped = FALSE
    /\ card = [h \in Heads |-> -1] /\ polls = [h \in Heads |-> 0] /\ first = [h \in Heads |-> -1]
    /\ shuffled = FALSE

\* The indices an open file keeps from being given to another card.
Held == ({index[o] : o \in {p \in Openers : opc[p] \in {"mark", "held"}}}
          \cup {card[h] : h \in Heads}) \ {-1}

\* A step of the registry, watched for what moves a card's position: one that
\* leaves, and a node that appears below another.
Watched ==
    shuffled' = (shuffled \/ ~(nodes \subseteq nodes')
                   \/ \E i \in nodes' \ nodes, j \in nodes : i < j)

Registry == RegistryStep(Held) /\ Watched /\ UNCHANGED <<openerVars, headVars>>

-----------------------------------------------------------------------------
\* is_correct_parent_device: a generic card is one without a link.
IsCorrectParent(i, p) == IF p = "usb" THEN i \in linked ELSE i \notin linked

\* Mutant: the search does not ask which cards this process has open.
FindAnyCard(p) == {i \in Live : IsCorrectParent(i, p)}

\* find_unused_card_for: the platform devices with the parent asked for whose
\* card this process does not hold.  The directory's order is anyone's.
FindUnusedCard(p) == {i \in Live : IsCorrectParent(i, p) /\ i \notin card_in_use}

Goto(o, to) == opc' = [opc EXCEPT ![o] = to]

\* The call or the handle is done with.
Return(o) == Goto(o, "idle") /\ index' = [index EXCEPT ![o] = -1]
                             /\ parent' = [parent EXCEPT ![o] = "generic"]

\* evdi_open_attached_to.  The call may come while another is under way.
OpenAttachedTo(o, p) ==
    /\ opc[o] = "idle"
    /\ Goto(o, "find") /\ parent' = [parent EXCEPT ![o] = p]
    /\ overlapped' = (overlapped \/ \E q \in Openers \ {o} : opc[q] \notin {"idle", "held"})
    /\ UNCHANGED <<registryVars, index, card_in_use, headVars, shuffled>>

\* The search; miss is what the call does when it finds nothing.
Search(o, miss) ==
    LET cards == FindUnusedCard(parent[o])
    IN  /\ \/ cards = {} /\ miss
           \/ \E i \in cards : Goto(o, "open") /\ index' = [index EXCEPT ![o] = i] /\ UNCHANGED parent
        /\ UNCHANGED <<registryVars, card_in_use, overlapped, headVars, shuffled>>

FirstSearch(o) == opc[o] = "find" /\ Search(o, Goto(o, "write") /\ UNCHANGED <<index, parent>>)

\* get_generic_device and get_device_attached_to_usb look once more after the
\* write, whatever became of it.
SecondSearch(o) == opc[o] = "refind" /\ Search(o, Return(o))

\* write_add_device: a generic card is made in one write ...
WriteGeneric(o) ==
    /\ opc[o] = "write" /\ parent[o] = "generic"
    /\ \E made \in {0, 1} : AddGeneric(1, made, Held)
    /\ Goto(o, "refind")
    /\ UNCHANGED <<attached, dropping, making, wpc, linked, plugged, sweeping, nodes, writes, plugs,
                   parent, index, card_in_use, overlapped, headVars, shuffled>>

\* ... a dock's takes the steps of a writer, whose end is the write's; a dock
\* that is not there is refused.
WriteUsb(o) ==
    /\ opc[o] = "write" /\ parent[o] = "usb"
    /\ \/ /\ WriterStep(o, Held)
          /\ IF wpc'[o] = "idle" THEN Goto(o, "refind") ELSE UNCHANGED opc
       \/ /\ wpc[o] = "idle" /\ ~plugged
          /\ Goto(o, "refind") /\ UNCHANGED registryVars
    /\ Watched
    /\ UNCHANGED <<parent, index, card_in_use, overlapped, headVars>>

\* evdi_open: the node is opened, if it comes within the retries, ...
OpenDevice(o) ==
    /\ opc[o] = "open"
    /\ IF index[o] \in nodes THEN Goto(o, "mark") /\ UNCHANGED <<index, parent>> ELSE Return(o)
    /\ UNCHANGED <<registryVars, card_in_use, overlapped, headVars, shuffled>>

\* ... and then the card is marked as in use, under the lock.
MarkInUse(o) ==
    /\ opc[o] = "mark"
    /\ card_in_use' = card_in_use \cup {index[o]}
    /\ Goto(o, "held")
    /\ UNCHANGED <<registryVars, parent, index, overlapped, headVars, shuffled>>

\* evdi_close: the file is closed, ...
CloseFile(o) ==
    /\ opc[o] = "held"
    /\ Goto(o, "closing")
    /\ overlapped' = (overlapped \/ \E q \in Openers \ {o} : opc[q] \notin {"idle", "held"})
    /\ UNCHANGED <<registryVars, parent, index, card_in_use, headVars, shuffled>>

\* ... and then its mark taken away, whoever else has the card open.
ClearMark(o) ==
    /\ opc[o] = "closing"
    /\ card_in_use' = card_in_use \ {index[o]}
    /\ Return(o)
    /\ UNCHANGED <<registryVars, overlapped, headVars, shuffled>>

-----------------------------------------------------------------------------
\* The nth of the cards present, counted from 0.
Present(n) == CHOOSE i \in nodes : Cardinality({j \in nodes : j < i}) = n

\* Mutant: the newest card is taken for the one asked for.
NewestCard(h) == Max(nodes)

\* present_cards().get(nth)
NthCard(h) == Present(h)

\* One turn of open_nth's loop: the card is there, or one more is asked for
\* and the client sleeps.  evdi_add_device never returns less than 0.
OpenNth(h) ==
    /\ card[h] = -1 /\ polls[h] < ADD_SETTLE_POLLS
    /\ IF Cardinality(nodes) > h
       THEN /\ card' = [card EXCEPT ![h] = NthCard(h)]
            /\ first' = IF first[h] = -1 THEN [first EXCEPT ![h] = NthCard(h)] ELSE first
            /\ UNCHANGED <<generic, polls>>
       ELSE /\ \E made \in {0, 1} : AddGeneric(1, made, Held)
            /\ polls' = [polls EXCEPT ![h] = @ + 1]
            /\ UNCHANGED <<card, first>>
    /\ UNCHANGED <<attached, dropping, making, wpc, linked, plugged, sweeping, nodes, writes, plugs,
                   openerVars, shuffled>>

\* Device::drop: the output is done with the card, and may ask again.
CloseCard(h) ==
    /\ card[h] # -1
    /\ card' = [card EXCEPT ![h] = -1] /\ polls' = [polls EXCEPT ![h] = 0]
    /\ UNCHANGED <<registryVars, first, openerVars, shuffled>>

-----------------------------------------------------------------------------
ClientsNext ==
    \/ Registry
    \/ \E o \in Openers :
         \/ \E p \in Parents : OpenAttachedTo(o, p)
         \/ FirstSearch(o) \/ WriteGeneric(o) \/ WriteUsb(o) \/ SecondSearch(o)
         \/ OpenDevice(o) \/ MarkInUse(o)
         \/ CloseFile(o) \/ ClearMark(o)
    \/ \E h \in Heads : OpenNth(h) \/ CloseCard(h)

ClientsSpec == ClientsInit /\ [][ClientsNext]_<<registryVars, processVars>>

-----------------------------------------------------------------------------
\* The cards marked as in use are those of handles not closed yet: no card is
\* lost to the process.  And as long as its calls do not overlap, every card
\* it holds is marked and no two handles are the same card, whatever is
\* plugged, unplugged and removed behind its back.
HandlesAreApart ==
    LET holders == {o \in Openers : opc[o] = "held"}
    IN  /\ card_in_use \subseteq {index[o] : o \in {p \in Openers : opc[p] \in {"held", "closing"}}}
        /\ ~overlapped =>
              /\ \A o \in holders : index[o] \in card_in_use
              /\ \A o, p \in holders : index[o] = index[p] => o = p

\* Outputs that ask by position each have a card of their own, and after a
\* reconnect the one they had before, as long as no card has left and the
\* nodes have come in order.
EachItsOwnCard ==
    ~shuffled =>
        \A h \in Heads : card[h] # -1 =>
            /\ card[h] = first[h]
            /\ \A g \in Heads \ {h} : card[g] # card[h]
=============================================================================
