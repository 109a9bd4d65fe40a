--------------------------- MODULE InstallerCache ---------------------------
(***************************************************************************)
(* The cache of installer binaries on the disk of the service.  A client    *)
(* (the generation of an ignition) asks for a release and works on a hard   *)
(* link to it until it cleans up.  A mutex makes Get and Cleanup atomic; a  *)
(* client that finds no room sleeps and tries again.                        *)
(***************************************************************************)
EXTENDS Integers, FiniteSets

CONSTANTS
  Releases,
  Size,            \* the size of each release
  Clients,
  MaxCapacity,     \* INSTALLER_CACHE_CAPACITY, 0 if nothing is ever evicted
  MaxReleaseSize,  \* INSTALLER_CACHE_MAX_RELEASE_SIZE
  MaxRequests,     \* bound: requests of all clients
  MaxFaults        \* bound: failures of the file system, of oc, restarts, cancelled requests

\* What New asks of its configuration; that no release is larger than
\* MaxReleaseSize is what the operator promises by setting it.
ASSUME CacheAssumption ==
  /\ IsFiniteSet(Releases) /\ IsFiniteSet(Clients) /\ "none" \notin Releases
  /\ MaxCapacity \in Nat /\ MaxReleaseSize \in Nat /\ Size \in [Releases -> Nat]
  /\ MaxCapacity > 0 => MaxReleaseSize > 0 /\ MaxReleaseSize <= MaxCapacity
  /\ \A r \in Releases : Size[r] <= MaxReleaseSize
  /\ MaxRequests \in Nat /\ MaxFaults \in Nat

VARIABLES
  disk,      \* the releases in the cache directory
  older,     \* <<a, b>>: the mtime of a is before that of b
  leaked,    \* the releases with a hard link nobody will remove any more
  client,    \* what each client asks for or holds a hard link of
  requests,  \* requests so far
  faults     \* faults so far

vars == <<disk, older, leaked, client, requests, faults>>

Free == [pc |-> "idle", release |-> "none"]

\* New removes what an earlier process left in the directory.
Init ==
  /\ disk = {} /\ older = {} /\ leaked = {}
  /\ client = [c \in Clients |-> Free]
  /\ requests = 0 /\ faults = 0

Fault == faults < MaxFaults /\ faults' = faults + 1

\* The bytes of a set of files are told apart by their file and their place in it.
Volume(S) == Cardinality(UNION {{r} \X (1..Size[r]) : r \in S})

\* The releases with more than one link.
Linked == leaked \cup {r \in Releases : \E c \in Clients : client[c] = [pc |-> "holding", release |-> r]}

\* Mutant: the difference is taken of unsigned numbers.
ShouldEvictUnsigned(used) ==
  MaxCapacity # 0 /\ used <= MaxCapacity /\ MaxCapacity - used < MaxReleaseSize

ShouldEvict(used) == MaxCapacity # 0 /\ MaxCapacity - used < MaxReleaseSize

\* Mutant: files that are in use are evicted too.
EvictableAll == disk

\* Files with one link are not in use.
Evictable == disk \ Linked

\* Mutant: the newest files go first.
ReachedNewestFirst(failed) ==
  {f \in Evictable :
     ShouldEvict(Volume(Evictable) - Volume({g \in Evictable \ failed : <<f, g>> \in older}))}

\* evict deletes the oldest files until the rest is small enough, counting only
\* those it may evict.  A file that reports an error is not counted as deleted.
\* A file is reached if the guard of the loop holds after all older ones.
Reached(failed) ==
  {f \in Evictable :
     ShouldEvict(Volume(Evictable) - Volume({g \in Evictable \ failed : <<g, f>> \in older}))}

\* What extractReleaseIfNeeded does to make room: room is TRUE if the release may
\* be extracted.  Of the files that report an error (failed), some (gone) are
\* deleted all the same: the error came from cleaning up their directory.
MakingRoom(failed, gone) ==
  IF ShouldEvict(Volume(disk \cup Linked))
  THEN [evicted |-> (Reached(failed) \ failed) \cup (Reached(failed) \cap gone),
        room |-> Reached(failed) \ failed # {}]
  ELSE [evicted |-> {}, room |-> TRUE]

\* The files that are left, and the order of their times.
Left(evicted) ==
  /\ disk' = disk \ evicted
  /\ older' = {p \in older : p[1] \notin evicted /\ p[2] \notin evicted}

\* Mutant: a file that is used again keeps its old time as well.
TouchedTwice(r, evicted) ==
  LET rest == disk \ (evicted \cup {r}) IN
  /\ disk' = rest \cup {r}
  /\ older' = {p \in older : {p[1], p[2]} \subseteq rest \cup {r}} \cup (rest \X {r})

\* Chtimes: r is now the file that was used last.
Touched(r, evicted) ==
  LET rest == disk \ (evicted \cup {r}) IN
  /\ disk' = rest \cup {r}
  /\ older' = {p \in older : p[1] \in rest /\ p[2] \in rest} \cup (rest \X {r})

----------------------------------------------------------------------------
(* Get *)

Request(c, r) ==
  /\ client[c] = Free
  /\ requests < MaxRequests
  /\ requests' = requests + 1
  /\ client' = [client EXCEPT ![c] = [pc |-> "waiting", release |-> r]]
  /\ UNCHANGED <<disk, older, leaked, faults>>

\* The release is there, or there is room for it: the client gets a link to it.
GetSucceeds(c) ==
  /\ client[c].pc = "waiting"
  /\ LET r == client[c].release IN
       IF r \in disk THEN Touched(r, {})
       ELSE \E m \in {MakingRoom({}, {})} : m.room /\ Touched(r, m.evicted)
  /\ client' = [client EXCEPT ![c].pc = "holding"]
  /\ UNCHANGED <<leaked, requests, faults>>

\* Some files cannot be evicted; the client goes on if others were.
GetWithFailedEvictions(c) ==
  /\ client[c].pc = "waiting"
  /\ client[c].release \notin disk
  /\ Fault
  /\ \E failed \in SUBSET Evictable : \E gone \in SUBSET failed :
       \E m \in {MakingRoom(failed, gone)} :
         /\ failed # {} /\ failed \subseteq Reached(failed)
         /\ IF m.room
            THEN Touched(client[c].release, m.evicted) /\ client' = [client EXCEPT ![c].pc = "holding"]
            ELSE Left(m.evicted) /\ client' = client
  /\ UNCHANGED <<leaked, requests>>

\* oc fails to extract the release: room was made for nothing.
ExtractFails(c) ==
  /\ client[c].pc = "waiting"
  /\ client[c].release \notin disk
  /\ Fault
  /\ \E m \in {MakingRoom({}, {})} : m.room /\ Left(m.evicted)
  /\ client' = [client EXCEPT ![c] = Free]
  /\ UNCHANGED <<leaked, requests>>

\* The link cannot be made: the release stays in the cache.
LinkFails(c) ==
  /\ client[c].pc = "waiting"
  /\ Fault
  /\ LET r == client[c].release IN
       IF r \in disk THEN Touched(r, {})
       ELSE \E m \in {MakingRoom({}, {})} : m.room /\ Touched(r, m.evicted)
  /\ client' = [client EXCEPT ![c] = Free]
  /\ UNCHANGED <<leaked, requests>>

\* The context of the request is done when the client tries again.
GiveUp(c) ==
  /\ client[c].pc = "waiting"
  /\ Fault
  /\ client' = [client EXCEPT ![c] = Free]
  /\ UNCHANGED <<disk, older, leaked, requests>>

----------------------------------------------------------------------------
(* Cleanup, and restarts *)

\* Mutant: a client sleeps with the mutex locked.
CleanupBlocked(c) ==
  /\ client[c].pc = "holding"
  /\ \A d \in Clients : client[d].pc # "waiting"
  /\ client' = [client EXCEPT ![c] = Free]
  /\ UNCHANGED <<disk, older, leaked, requests, faults>>

Cleanup(c) ==
  /\ client[c].pc = "holding"
  /\ client' = [client EXCEPT ![c] = Free]
  /\ UNCHANGED <<disk, older, leaked, requests, faults>>

\* The link cannot be removed; the client only logs it.
CleanupFails(c) ==
  /\ client[c].pc = "holding"
  /\ Fault
  /\ leaked' = leaked \cup {client[c].release}
  /\ client' = [client EXCEPT ![c] = Free]
  /\ UNCHANGED <<disk, older, requests>>

\* Mutant: the directory is not removed.
RestartKeepsFiles ==
  /\ Fault
  /\ client' = [c \in Clients |-> Free]
  /\ UNCHANGED <<disk, older, leaked, requests>>

Restart ==
  /\ Fault
  /\ disk' = {} /\ older' = {} /\ leaked' = {}
  /\ client' = [c \in Clients |-> Free]
  /\ UNCHANGED requests

Next ==
  \/ Restart
  \/ \E c \in Clients :
       \/ \E r \in Releases : Request(c, r)
       \/ GetSucceeds(c) \/ GetWithFailedEvictions(c) \/ ExtractFails(c) \/ LinkFails(c) \/ GiveUp(c)
       \/ Cleanup(c) \/ CleanupFails(c)

Spec == Init /\ [][Next]_vars

\* A client that waits tries again after a sleep, one that holds a release cleans
\* up when it returns (both callers defer it).
FairSpec ==
  Spec /\ \A c \in Clients : WF_vars(GetSucceeds(c)) /\ WF_vars(Cleanup(c))

----------------------------------------------------------------------------
(* Properties *)

\* The directory, the times and the clients have the shape the code gives them;
\* the times order the files of the directory, and nothing else.
TypeOK ==
  /\ disk \subseteq Releases /\ leaked \subseteq Releases
  /\ older \subseteq disk \X disk
  /\ \A a, b \in disk : a # b => (<<a, b>> \in older <=> <<b, a>> \notin older)
  /\ \A a \in disk : <<a, a>> \notin older
  /\ client \in [Clients -> {Free} \cup [pc : {"waiting", "holding"}, release : Releases]]
  /\ requests \in 0..MaxRequests /\ faults \in 0..MaxFaults

\* A release that has links is never evicted, so that it is never extracted a
\* second time beside them and its bytes are never counted for less than they are.
LinkedReleasesStay == Linked \subseteq disk

\* Eviction ignores the bytes of releases in use, so the directory may outgrow
\* its capacity, but only by what the other clients hold at the same time and by
\* what faults pin: a lost link, or a file that could not be deleted.
OvershootIsBounded ==
  MaxCapacity > 0 =>
    Volume(disk) <= MaxCapacity + (Cardinality(Clients) - 1 + faults) * MaxReleaseSize

\* What is not in use and is evicted is needed no more urgently than what
\* stays: evicting ends as soon as one more release fits beside the files it
\* counts, and what goes is older than what stays.
EvictsOldestAndNoMore ==
  [][\A r \in disk \ disk' :
       \/ faults' # faults
       \/ /\ \A s \in Evictable \cap disk' : <<r, s>> \in older
          /\ Volume(disk \cup Linked) + MaxReleaseSize > MaxCapacity
          /\ Volume({s \in Evictable : s = r \/ <<r, s>> \in older}) + MaxReleaseSize > MaxCapacity]_vars

\* A client that waits for room is served or given an error: nobody waits on
\* everybody.  Only a link that leaked can hold the room for ever.
WaitingEnds ==
  \A c \in Clients : (client[c].pc = "waiting") ~> (client[c].pc # "waiting" \/ leaked # {})

\* The cache implements the store: what clients hold is there until they give
\* it back, and restarts leave nobody with a release that is gone.
Store == INSTANCE ReleaseStore WITH stored <- disk, lease <- client
ImplementsReleaseStore == Store!Spec
=============================================================================
