---------------------------- MODULE ReleaseStore ----------------------------
(***************************************************************************)
(* What the installer cache promises to those who ask it for releases: a    *)
(* release that was handed out is stored until it is given back, whatever   *)
(* the cache does to stay small, and the cache stores nothing that nobody   *)
(* asked for.                                                               *)
(***************************************************************************)
CONSTANTS Releases, Clients

VARIABLES stored, lease
storeVars == <<stored, lease>>

Free == [pc |-> "idle", release |-> "none"]

Held(l) == {r \in Releases : \E c \in Clients : l[c] = [pc |-> "holding", release |-> r]}

\* The store may drop what nobody holds, and may add what one client asks for.
Keeps(asked) == Held(lease') \subseteq stored' /\ stored' \subseteq stored \cup asked

StoreInit == stored = {} /\ lease = [c \in Clients |-> Free]

Ask(c, r) ==
  /\ lease[c] = Free
  /\ lease' = [lease EXCEPT ![c] = [pc |-> "waiting", release |-> r]]
  /\ UNCHANGED stored

Serve(c) ==
  /\ lease[c].pc = "waiting"
  /\ lease' = [lease EXCEPT ![c].pc = "holding"]
  /\ Keeps({lease[c].release})

Refuse(c) ==
  /\ lease[c].pc = "waiting"
  /\ lease' = [lease EXCEPT ![c] = Free]
  /\ Keeps({lease[c].release})

GiveBack(c) ==
  /\ lease[c].pc = "holding"
  /\ lease' = [lease EXCEPT ![c] = Free]
  /\ UNCHANGED stored

\* A client has to wait, for which the store may make room.
MakeRoom == lease' = lease /\ Keeps({})

\* Nobody survives a restart, and nothing is kept over it.
Clear == stored' = {} /\ lease' = [c \in Clients |-> Free]

StoreNext ==
  \/ MakeRoom \/ Clear
  \/ \E c \in Clients :
       Serve(c) \/ Refuse(c) \/ GiveBack(c) \/ \E r \in Releases : Ask(c, r)

Spec == StoreInit /\ [][StoreNext]_storeVars
=============================================================================
