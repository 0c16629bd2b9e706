--------------------------- MODULE DamagePromise ----------------------------
(***************************************************************************)
(* What a Revdi card promises the client that grabs its frames: the        *)
(* rectangles of a grab hold every place the compositor changed since the  *)
(* last one, or the whole screen when it changed nothing.  They stay       *)
(* inside what the client's buffer has room for, and may hold more than    *)
(* was changed.                                                            *)
(*                                                                         *)
(* DamageList keeps the promise with a bounded list of rectangles, and     *)
(* RevdiCard with a set of regions between its locks.                      *)
(***************************************************************************)
CONSTANT Screen         \* the places a change can be

VARIABLES
    owed,       \* changed since the last grab
    held,       \* the client has a grab in its hands
    room,       \* what the buffer of that grab has room for
    told        \* what it was told has changed

promiseVars == <<owed, held, room, told>>

PromiseInit == owed = {} /\ held = FALSE /\ room = {} /\ told = {}

\* The client is done with its grab.
Returned == held' = FALSE /\ room' = {} /\ told' = {}

Change(s) ==
    /\ owed' = owed \cup s
    /\ Returned \/ UNCHANGED <<held, room, told>>

Grab ==
    /\ held' = TRUE
    /\ room' \in SUBSET Screen
    /\ told' \in SUBSET room'
    /\ (IF owed = {} THEN Screen ELSE owed) \cap room' \subseteq told'
    /\ owed' = {}

Done == Returned /\ UNCHANGED owed

PromiseNext ==
    \/ \E s \in SUBSET Screen : Change(s)
    \/ Grab
    \/ Done

PromiseSpec == PromiseInit /\ [][PromiseNext]_promiseVars
=============================================================================
