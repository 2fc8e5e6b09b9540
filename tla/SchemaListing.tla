--------------------------- MODULE SchemaListing ---------------------------
(***************************************************************************)
(* The schema store as the listing of one owner sees it: which of its      *)
(* schemas are stored and the created_at each of them is listed under.     *)
(*                                                                         *)
(* created_at is the time the create's transaction started, and the row    *)
(* appears when the transaction commits. Other transactions start and      *)
(* commit in between, so rows do not appear in the order they are listed.  *)
(***************************************************************************)
EXTENDS Integers

CONSTANTS
  Clients,    \* tasks that serve calls
  Ids,        \* the UUIDs of schemas
  MaxClock,   \* bound: the latest time NOW() returns
  NoTime      \* no row under this id, no create under way

VARIABLES
  listed,     \* created_at of each stored schema of the owner
  open,       \* created_at of the row each open create will store
  clock       \* the latest time a transaction read from NOW()

storeVars == <<listed, open, clock>>

StoreInit ==
  /\ listed = [i \in Ids |-> NoTime]
  /\ open   = [c \in Clients |-> NoTime]
  /\ clock  = 0

\* A create of this owner starts its transaction ...
Open(c) ==
  /\ open[c] = NoTime
  /\ clock' \in {clock, clock + 1} /\ clock' <= MaxClock
  /\ open' = [open EXCEPT ![c] = clock']
  /\ UNCHANGED listed

\* ... and its row appears under the time it started, ...
Appear(c) ==
  /\ open[c] # NoTime
  /\ \E i \in Ids : /\ listed[i] = NoTime
                    /\ listed' = [listed EXCEPT ![i] = open[c]]
  /\ open' = [open EXCEPT ![c] = NoTime]
  /\ UNCHANGED clock

\* ... unless it is refused or fails.
GiveUp(c) ==
  /\ open[c] # NoTime
  /\ open' = [open EXCEPT ![c] = NoTime]
  /\ UNCHANGED <<listed, clock>>

\* A schema is deleted.
Disappear(i) ==
  /\ listed[i] # NoTime
  /\ listed' = [listed EXCEPT ![i] = NoTime]
  /\ UNCHANGED <<open, clock>>

\* A transaction that lists nothing for this owner starts.
TimePasses ==
  /\ clock' = clock + 1 /\ clock' <= MaxClock
  /\ UNCHANGED <<listed, open>>

StoreNext ==
  \/ \E c \in Clients : Open(c) \/ Appear(c) \/ GiveUp(c)
  \/ \E i \in Ids : Disappear(i)
  \/ TimePasses

StoreSpec == StoreInit /\ [][StoreNext]_storeVars
=============================================================================
