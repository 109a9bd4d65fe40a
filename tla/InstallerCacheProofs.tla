------------------------ MODULE InstallerCacheProofs ------------------------
(***************************************************************************)
(* Safety of InstallerCache for any releases, sizes, clients, capacity and  *)
(* faults: what is in use stays, what is evicted is the oldest and no more  *)
(* than needed, the directory outgrows its capacity by no more than is in   *)
(* use, and the cache implements ReleaseStore.                              *)
(***************************************************************************)
EXTENDS InstallerCache, FiniteSetTheorems, TLAPS

USE CacheAssumption

----------------------------------------------------------------------------
(* Arithmetic and sets *)

\* Products are monotone.
LEMMA ProductMonotone ==
  ASSUME NEW a \in Int, NEW b \in Int, NEW m \in Nat, a <= b
  PROVE  a * m <= b * m
  OBVIOUS

\* So are sums in products.
LEMMA SumMonotone ==
  ASSUME NEW n \in Int, NEW a \in Nat, NEW b \in Nat, NEW m \in Nat, a <= b
  PROVE  (n + a) * m <= (n + b) * m
  BY ProductMonotone

\* One more factor adds the other one.
LEMMA ProductStep ==
  ASSUME NEW a \in Int, NEW m \in Nat
  PROVE  (a + 1) * m = a * m + m /\ a * m \in Int
  OBVIOUS

----------------------------------------------------------------------------
(* The volume of a set of files *)

Bytes(S) == UNION {{r} \X (1..Size[r]) : r \in S}

\* A byte belongs to one file.
LEMMA BytesOf ==
  ASSUME NEW S, NEW b
  PROVE  b \in Bytes(S) <=> \E r \in S : \E i \in 1..Size[r] : b = <<r, i>>
  BY DEF Bytes

\* A set of releases has finitely many bytes, no more than if all were of the
\* largest size.
LEMMA BytesFinite ==
  ASSUME NEW S, S \subseteq Releases
  PROVE  /\ IsFiniteSet(S) /\ IsFiniteSet(Bytes(S)) /\ Cardinality(S) \in Nat /\ Volume(S) \in Nat
         /\ Volume(S) <= Cardinality(S) * MaxReleaseSize
<1>1. IsFiniteSet(S) /\ Cardinality(S) \in Nat
  BY FS_Subset, FS_CardinalityType
<1>2. IsFiniteSet(1..MaxReleaseSize) /\ Cardinality(1..MaxReleaseSize) = MaxReleaseSize
  BY FS_Interval
<1>3. /\ IsFiniteSet(S \X (1..MaxReleaseSize))
      /\ Cardinality(S \X (1..MaxReleaseSize)) = Cardinality(S) * MaxReleaseSize
  BY <1>1, <1>2, FS_Product
<1>4. Bytes(S) \subseteq S \X (1..MaxReleaseSize)
  <2>1. SUFFICES ASSUME NEW b \in Bytes(S) PROVE b \in S \X (1..MaxReleaseSize)
    OBVIOUS
  <2>2. PICK r \in S : \E i \in 1..Size[r] : b = <<r, i>>
    BY BytesOf
  <2>3. PICK i \in 1..Size[r] : b = <<r, i>>
    BY <2>2
  <2>4. Size[r] \in Nat /\ Size[r] <= MaxReleaseSize
    OBVIOUS
  <2>5. i \in 1..MaxReleaseSize
    BY <2>4
  <2>. QED BY <2>3, <2>5
<1>5. IsFiniteSet(Bytes(S)) /\ Cardinality(Bytes(S)) <= Cardinality(S) * MaxReleaseSize
  BY <1>3, <1>4, FS_Subset
<1>6. Volume(S) = Cardinality(Bytes(S))
  BY DEF Volume, Bytes
<1>. QED BY <1>1, <1>5, <1>6, FS_CardinalityType

\* Nothing has no volume.
LEMMA VolumeOfNothing == Volume({}) = 0
<1>1. Bytes({}) = {}
  BY DEF Bytes
<1>. QED BY <1>1, FS_EmptySet DEF Volume, Bytes

\* More files have more volume.
LEMMA VolumeMonotone ==
  ASSUME NEW S, NEW T, T \subseteq Releases, S \subseteq T
  PROVE  Volume(S) <= Volume(T)
<1>1. Bytes(S) \subseteq Bytes(T)
  BY BytesOf
<1>. QED BY <1>1, BytesFinite, FS_Subset DEF Volume, Bytes

\* The volume of two sets of files is the sum of their volumes, if they share none,
\* and never more.
LEMMA VolumeOfUnion ==
  ASSUME NEW S, NEW T, S \subseteq Releases, T \subseteq Releases
  PROVE  /\ Volume(S \cup T) <= Volume(S) + Volume(T)
         /\ S \cap T = {} => Volume(S \cup T) = Volume(S) + Volume(T)
<1>1. Bytes(S \cup T) = Bytes(S) \cup Bytes(T)
  BY BytesOf
<1>2. S \cap T = {} => Bytes(S) \cap Bytes(T) = {}
  <2>1. ASSUME NEW b, b \in Bytes(S), b \in Bytes(T) PROVE S \cap T # {}
    <3>1. PICK r \in S : \E i \in 1..Size[r] : b = <<r, i>>
      BY <2>1, BytesOf
    <3>2. PICK s \in T : \E i \in 1..Size[s] : b = <<s, i>>
      BY <2>1, BytesOf
    <3>3. r = s
      BY <3>1, <3>2
    <3>. QED BY <3>3
  <2>. QED BY <2>1
<1>. DEFINE bs == Bytes(S)
            bt == Bytes(T)
<1>3. Volume(S) = Cardinality(bs) /\ Volume(T) = Cardinality(bt) /\ Volume(S \cup T) = Cardinality(bs \cup bt)
  BY <1>1 DEF Volume, Bytes
<1>4. IsFiniteSet(bs) /\ IsFiniteSet(bt)
  BY BytesFinite
<1>. HIDE DEF bs, bt
<1>5. Cardinality(bs \cup bt) = Cardinality(bs) + Cardinality(bt) - Cardinality(bs \cap bt)
  BY <1>4, FS_Union
<1>6. IsFiniteSet(bs \cap bt) /\ Cardinality(bs \cap bt) \in Nat /\ Cardinality(bs) \in Nat /\ Cardinality(bt) \in Nat
  BY <1>4, FS_Intersection, FS_CardinalityType
<1>7. S \cap T = {} => Cardinality(bs \cap bt) = 0
  BY <1>2, FS_EmptySet DEF bs, bt
<1>. QED BY <1>3, <1>5, <1>6, <1>7

\* One more file adds at most the largest size.
LEMMA VolumeOfOneMore ==
  ASSUME NEW S, S \subseteq Releases, NEW r \in Releases
  PROVE  Volume(S \cup {r}) <= Volume(S) + MaxReleaseSize
<1>1. Volume({r}) <= Cardinality({r}) * MaxReleaseSize /\ Cardinality({r}) = 1 /\ {r} \subseteq Releases
  BY BytesFinite, FS_Singleton
<1>2. Volume(S \cup {r}) <= Volume(S) + Volume({r})
  BY <1>1, VolumeOfUnion
<1>3. Volume({r}) \in Nat /\ Volume(S) \in Nat /\ Volume(S \cup {r}) \in Nat
  BY <1>1, BytesFinite
<1>. QED BY <1>1, <1>2, <1>3

----------------------------------------------------------------------------
(* The order of the files *)

\* older is a strict total order of the files in the directory.
InOrder(files, before) ==
  /\ files \subseteq Releases
  /\ before \subseteq files \X files
  /\ \A a, b \in files : a # b => (<<a, b>> \in before <=> <<b, a>> \notin before)
  /\ \A a \in files : <<a, a>> \notin before
  /\ \A a, b, c \in files : <<a, b>> \in before /\ <<b, c>> \in before => <<a, c>> \in before

\* Among some files there is an oldest one.
LEMMA OldestExists ==
  ASSUME InOrder(disk, older), NEW S, S \subseteq disk, S # {}
  PROVE  \E f \in S : \A g \in S : <<g, f>> \notin older
<1>. DEFINE Before(f) == {g \in S : <<g, f>> \in older}
            T == {Before(f) : f \in S}
<1>1. IsFiniteSet(S)
  BY FS_Subset DEF InOrder
<1>2. IsWellFoundedOn(StrictSubsetOrdering(S), FiniteSubsetsOf(S)) /\ FiniteSubsetsOf(S) = SUBSET S
  BY <1>1, FS_StrictSubsetOrderingWellFounded, FS_FiniteSubsetsOfFinite
<1>3. T \subseteq SUBSET S /\ T # {}
  <2>1. \A f \in S : Before(f) \subseteq S /\ Before(f) \in T
    OBVIOUS
  <2>. QED BY <2>1
<1>4. PICK B \in T : \A C \in T : <<C, B>> \notin StrictSubsetOrdering(S)
  <2>. HIDE DEF T
  <2>. QED BY <1>2, <1>3, WFMin
<1>5. PICK f \in S : B = Before(f)
  BY <1>4
<1>6. ASSUME NEW g \in S, <<g, f>> \in older PROVE FALSE
  <2>1. Before(g) \subseteq Before(f)
    BY <1>6 DEF InOrder
  <2>2. g \in Before(f) /\ g \notin Before(g)
    BY <1>6 DEF InOrder
  <2>3. <<Before(g), Before(f)>> \in StrictSubsetOrdering(S)
    BY <2>1, <2>2 DEF StrictSubsetOrdering
  <2>. QED BY <1>4, <1>5, <2>3
<1>. QED BY <1>5, <1>6

\* A file that is used becomes the newest; others may go.
LEMMA TouchedInOrder ==
  ASSUME InOrder(disk, older), NEW r \in Releases, NEW evicted, Touched(r, evicted)
  PROVE  InOrder(disk', older') /\ disk' = (disk \ evicted) \cup {r}
<1>. DEFINE rest == disk \ (evicted \cup {r})
<1>1. /\ disk' = rest \cup {r} /\ rest \subseteq disk /\ r \notin rest
      /\ older' = {p \in older : p[1] \in rest /\ p[2] \in rest} \cup (rest \X {r})
      /\ disk' = (disk \ evicted) \cup {r}
  BY DEF Touched
<1>. HIDE DEF rest
<1>2. \A a, b : <<a, b>> \in older' <=> (\/ <<a, b>> \in older /\ a \in rest /\ b \in rest
                                         \/ a \in rest /\ b = r)
  BY <1>1
<1>3. disk' \subseteq Releases
  BY <1>1 DEF InOrder
<1>4. older' \subseteq disk' \X disk'
  BY <1>1 DEF InOrder
<1>5. \A a, b \in disk' : a # b => (<<a, b>> \in older' <=> <<b, a>> \notin older')
  BY <1>1, <1>2 DEF InOrder
<1>6. \A a \in disk' : <<a, a>> \notin older'
  BY <1>1, <1>2 DEF InOrder
<1>7. \A a, b, c \in disk' : <<a, b>> \in older' /\ <<b, c>> \in older' => <<a, c>> \in older'
  BY <1>1, <1>2 DEF InOrder
<1>. QED BY <1>1, <1>3, <1>4, <1>5, <1>6, <1>7 DEF InOrder

\* Files that go leave the others in order.
LEMMA LeftInOrder ==
  ASSUME InOrder(disk, older), NEW evicted, Left(evicted)
  PROVE  InOrder(disk', older') /\ disk' = disk \ evicted
<1>1. /\ disk' = disk \ evicted
      /\ older' = {p \in older : p[1] \notin evicted /\ p[2] \notin evicted}
  BY DEF Left
<1>2. \A a, b : <<a, b>> \in older' <=> <<a, b>> \in older /\ a \notin evicted /\ b \notin evicted
  BY <1>1
<1>3. older' \subseteq disk' \X disk'
  BY <1>1 DEF InOrder
<1>. QED BY <1>1, <1>2, <1>3 DEF InOrder

----------------------------------------------------------------------------
(* Making room *)

\* Only files that are not in use are evicted.
LEMMA EvictedIsEvictable ==
  ASSUME NEW failed, NEW gone
  PROVE  MakingRoom(failed, gone).evicted \subseteq Evictable
<1>1. Reached(failed) \subseteq Evictable
  BY DEF Reached
<1>. QED BY <1>1 DEF MakingRoom

\* What is evicted without errors is what was reached.
LEMMA EvictedIsReached ==
  /\ ShouldEvict(Volume(disk \cup Linked)) => MakingRoom({}, {}).evicted = Reached({})
  /\ ~ShouldEvict(Volume(disk \cup Linked)) => MakingRoom({}, {}).evicted = {}
  BY DEF MakingRoom

\* The volume of the files from f on.
LEMMA VolumeFrom ==
  ASSUME InOrder(disk, older), NEW f \in Evictable
  PROVE  /\ Volume(Evictable) - Volume({g \in Evictable : <<g, f>> \in older}) =
              Volume({g \in Evictable : <<g, f>> \notin older})
         /\ Volume({g \in Evictable : <<g, f>> \notin older}) \in Nat
<1>. DEFINE A == {g \in Evictable : <<g, f>> \in older}
            B == {g \in Evictable : <<g, f>> \notin older}
<1>1. A \cup B = Evictable /\ A \cap B = {} /\ A \subseteq Releases /\ B \subseteq Releases
  BY DEF Evictable, InOrder
<1>. HIDE DEF A, B
<1>2. Volume(A \cup B) = Volume(A) + Volume(B) /\ Volume(A) \in Nat /\ Volume(B) \in Nat
  BY <1>1, VolumeOfUnion, BytesFinite
<1>3. Volume(Evictable) = Volume(A \cup B)
  BY <1>1
<1>4. Volume(Evictable) - Volume(A) = Volume(B)
  BY <1>2, <1>3
<1>. QED BY <1>2, <1>4 DEF A, B

\* Whatever is in use, what is not and stays fits in with one more release.
LEMMA RoomIsMade ==
  ASSUME InOrder(disk, older), Linked \subseteq disk, MaxCapacity > 0
  PROVE  Volume(disk \ MakingRoom({}, {}).evicted) + MaxReleaseSize <= MaxCapacity + Volume(Linked)
<1>. DEFINE left == disk \ MakingRoom({}, {}).evicted
<1>0. Linked \subseteq Releases /\ Volume(Linked) \in Nat /\ Volume(disk) \in Nat
  BY BytesFinite DEF InOrder
<1>3. Volume(disk \cup Linked) = Volume(disk)
  <2>1. disk \cup Linked = disk
    OBVIOUS
  <2>. QED BY <2>1
<1>1. CASE ~ShouldEvict(Volume(disk \cup Linked))
  <2>1. Volume(left) = Volume(disk)
    <3>1. left = disk
      BY <1>1, EvictedIsReached
    <3>. QED BY <3>1
  <2>. HIDE DEF left
  <2>2. Volume(disk) + MaxReleaseSize <= MaxCapacity
    BY <1>0, <1>1, <1>3 DEF ShouldEvict
  <2>3. Volume(left) + MaxReleaseSize <= MaxCapacity + Volume(Linked)
    BY <1>0, <2>1, <2>2
  <2>. QED BY <2>3 DEF left
<1>2. CASE ShouldEvict(Volume(disk \cup Linked))
  <2>. DEFINE rest == Evictable \ Reached({})
  <2>1. Volume(left) = Volume(rest \cup Linked)
    <3>1. left = rest \cup Linked
      BY <1>0, <1>2, EvictedIsReached DEF Evictable, Reached
    <3>. QED BY <3>1
  <2>2. rest \subseteq Releases /\ rest \subseteq disk /\ Volume(rest) \in Nat
    BY BytesFinite DEF Evictable, InOrder
  <2>3. Volume(rest) + MaxReleaseSize <= MaxCapacity
    <3>1. CASE rest = {}
      <4>1. Volume(rest) = 0
        BY <3>1, VolumeOfNothing
      <4>. HIDE DEF rest
      <4>. QED BY <4>1
    <3>2. CASE rest # {}
      <4>1. PICK f \in rest : \A g \in rest : <<g, f>> \notin older
        <5>. HIDE DEF rest
        <5>. QED BY <2>2, <3>2, OldestExists
      <4>. DEFINE from == {g \in Evictable : <<g, f>> \notin older}
      <4>2. f \in Evictable /\ f \notin Reached({})
        OBVIOUS
      <4>3. ~ShouldEvict(Volume(Evictable) - Volume({g \in Evictable : <<g, f>> \in older}))
        <5>1. {g \in Evictable \ {} : <<g, f>> \in older} = {g \in Evictable : <<g, f>> \in older}
          OBVIOUS
        <5>. QED BY <4>2, <5>1 DEF Reached
      <4>4. ~ShouldEvict(Volume(from)) /\ Volume(from) \in Nat
        BY <4>2, <4>3, VolumeFrom
      <4>5. rest \subseteq from /\ from \subseteq Releases
        BY <4>1, <2>2 DEF Evictable, InOrder
      <4>. HIDE DEF from, rest
      <4>6. Volume(rest) <= Volume(from)
        BY <4>5, VolumeMonotone
      <4>7. Volume(from) + MaxReleaseSize <= MaxCapacity
        BY <4>4 DEF ShouldEvict
      <4>. QED BY <2>2, <4>4, <4>6, <4>7
    <3>. QED BY <3>1, <3>2
  <2>. HIDE DEF rest, left
  <2>4. Volume(rest \cup Linked) <= Volume(rest) + Volume(Linked)
    BY <1>0, <2>2, VolumeOfUnion
  <2>5. Volume(rest \cup Linked) \in Nat
    BY <1>0, <2>2, BytesFinite
  <2>6. Volume(left) + MaxReleaseSize <= MaxCapacity + Volume(Linked)
    BY <1>0, <2>1, <2>2, <2>3, <2>4, <2>5
  <2>. QED BY <2>6 DEF left
<1>. QED BY <1>1, <1>2

----------------------------------------------------------------------------
(* The inductive invariant *)

ClientState == {Free} \cup [pc : {"waiting", "holding"}, release : Releases]

Counts ==
  /\ client \in [Clients -> ClientState]
  /\ requests \in 0..MaxRequests /\ faults \in 0..MaxFaults

\* A link is lost by a fault.
LeaksAreFaults == leaked \subseteq Releases /\ Cardinality(leaked) <= faults

CacheInv == InOrder(disk, older) /\ Counts /\ LeaksAreFaults /\ LinkedReleasesStay /\ OvershootIsBounded

\* It implies the type invariant.
LEMMA CacheInvImplies == CacheInv => TypeOK /\ LinkedReleasesStay /\ OvershootIsBounded
  BY DEF CacheInv, TypeOK, InOrder, Counts, LeaksAreFaults, ClientState

\* A client that is not idle asks for, or holds, a release.
LEMMA BusyClient ==
  ASSUME Counts, NEW c \in Clients, client[c].pc # "idle"
  PROVE  /\ client[c] \in [pc : {"waiting", "holding"}, release : Releases]
         /\ client[c].release \in Releases
         /\ [client EXCEPT ![c].pc = "holding"] =
              [client EXCEPT ![c] = [pc |-> "holding", release |-> client[c].release]]
<1>1. client[c] \in ClientState /\ client \in [Clients -> ClientState]
  BY DEF Counts
<1>2. client[c] \in [pc : {"waiting", "holding"}, release : Releases]
  BY <1>1 DEF ClientState, Free
<1>3. [client[c] EXCEPT !.pc = "holding"] = [pc |-> "holding", release |-> client[c].release]
  BY <1>2
<1>4. [client EXCEPT ![c].pc = "holding"] = [client EXCEPT ![c] = [client[c] EXCEPT !.pc = "holding"]]
  BY <1>1
<1>. QED BY <1>2, <1>3, <1>4

\* What a client does adds a link at most to the release it holds afterwards.
LEMMA ClientWritten ==
  ASSUME Counts, NEW c \in Clients, NEW x \in ClientState, client' = [client EXCEPT ![c] = x]
  PROVE  /\ client' \in [Clients -> ClientState]
         /\ Linked' \subseteq leaked' \cup Linked \cup {r \in Releases : x = [pc |-> "holding", release |-> r]}
<1>1. client' \in [Clients -> ClientState] /\ \A d \in Clients : client'[d] = IF d = c THEN x ELSE client[d]
  BY DEF Counts
<1>2. ASSUME NEW r \in Linked', r \notin leaked'
      PROVE  r \in Linked \cup {q \in Releases : x = [pc |-> "holding", release |-> q]}
  <2>1. PICK d \in Clients : client'[d] = [pc |-> "holding", release |-> r] /\ r \in Releases
    BY <1>2 DEF Linked
  <2>2. CASE d = c
    BY <1>1, <2>1, <2>2
  <2>3. CASE d # c
    <3>1. client[d] = [pc |-> "holding", release |-> r]
      BY <1>1, <2>1, <2>3
    <3>. QED BY <2>1, <3>1 DEF Linked
  <2>. QED BY <2>2, <2>3
<1>. QED BY <1>1, <1>2

\* While a client waits, the releases in use are those of the other clients and those
\* whose link was lost.
LEMMA LinkedBound ==
  ASSUME Counts, LeaksAreFaults, NEW c \in Clients, client[c].pc = "waiting"
  PROVE  /\ Linked \subseteq Releases /\ Cardinality(Linked) \in Nat /\ Cardinality(Clients) \in Nat
         /\ Cardinality(Linked) <= Cardinality(Clients) - 1 + faults
<1>. DEFINE holders == {d \in Clients : \E r \in Releases : client[d] = [pc |-> "holding", release |-> r]}
            held == {r \in Releases : \E d \in Clients : client[d] = [pc |-> "holding", release |-> r]}
            f == [d \in holders |-> client[d].release]
<1>1. holders \subseteq Clients \ {c}
  <2>1. ASSUME NEW d \in holders PROVE d # c
    <3>1. PICK r \in Releases : client[d] = [pc |-> "holding", release |-> r]
      OBVIOUS
    <3>2. client[d].pc = "holding"
      BY <3>1
    <3>. QED BY <3>2
  <2>. QED BY <2>1
<1>2. /\ IsFiniteSet(Clients \ {c}) /\ Cardinality(Clients \ {c}) = Cardinality(Clients) - 1
      /\ Cardinality(Clients) \in Nat
  BY FS_RemoveElement, FS_CardinalityType
<1>3. IsFiniteSet(holders) /\ Cardinality(holders) <= Cardinality(Clients) - 1 /\ Cardinality(holders) \in Nat
  <2>. HIDE DEF holders
  <2>. QED BY <1>1, <1>2, FS_Subset, FS_CardinalityType
<1>4. f \in Surjection(holders, held)
  <2>1. ASSUME NEW d \in holders PROVE client[d].release \in held
    <3>1. PICK r \in Releases : client[d] = [pc |-> "holding", release |-> r]
      OBVIOUS
    <3>2. client[d].release = r /\ r \in held
      BY <3>1
    <3>. QED BY <3>2
  <2>2. ASSUME NEW r \in held PROVE \E d \in holders : client[d].release = r
    <3>1. PICK d \in Clients : client[d] = [pc |-> "holding", release |-> r] /\ r \in Releases
      OBVIOUS
    <3>2. d \in holders /\ client[d].release = r
      BY <3>1
    <3>. QED BY <3>2
  <2>. HIDE DEF holders, held
  <2>3. f \in [holders -> held]
    BY <2>1
  <2>4. \A r \in held : \E d \in holders : f[d] = r
    BY <2>2
  <2>. HIDE DEF f
  <2>. QED BY <2>3, <2>4 DEF Surjection
<1>5. IsFiniteSet(held) /\ Cardinality(held) <= Cardinality(holders) /\ Cardinality(held) \in Nat
  <2>. HIDE DEF holders, held, f
  <2>. QED BY <1>3, <1>4, FS_Surjection, FS_CardinalityType
<1>6. Linked = leaked \cup held /\ held \subseteq Releases
  BY DEF Linked
<1>7. IsFiniteSet(leaked) /\ Cardinality(leaked) \in Nat /\ leaked \subseteq Releases /\ Cardinality(leaked) <= faults
  BY FS_Subset, FS_CardinalityType DEF LeaksAreFaults
<1>. HIDE DEF held, holders, f
<1>8. /\ IsFiniteSet(leaked \cup held) /\ Cardinality(leaked \cup held) \in Nat
      /\ Cardinality(leaked \cup held) = Cardinality(leaked) + Cardinality(held) - Cardinality(leaked \cap held)
      /\ Cardinality(leaked \cap held) \in Nat
  BY <1>5, <1>7, FS_Union, FS_Intersection, FS_CardinalityType
<1>9. Cardinality(Linked) = Cardinality(leaked \cup held)
  BY <1>6
<1>. QED BY <1>2, <1>3, <1>5, <1>6, <1>7, <1>8, <1>9 DEF Counts

----------------------------------------------------------------------------
(* The capacity *)

\* A step that adds no file, or one at the price of a fault, stays within the bound.
LEMMA FaultPays ==
  ASSUME CacheInv, faults' \in Nat,
         \/ disk' \subseteq disk /\ faults <= faults'
         \/ \E r \in Releases : disk' \subseteq disk \cup {r} /\ faults' = faults + 1
  PROVE  OvershootIsBounded'
<1>. DEFINE n == Cardinality(Clients) - 1
<1>0. SUFFICES ASSUME MaxCapacity > 0
               PROVE  Volume(disk') <= MaxCapacity + (n + faults') * MaxReleaseSize
  BY DEF OvershootIsBounded, Volume
<1>1. n \in Int /\ faults \in Nat /\ disk \subseteq Releases
  BY FS_CardinalityType DEF CacheInv, Counts, InOrder
<1>2. Volume(disk) <= MaxCapacity + (n + faults) * MaxReleaseSize /\ Volume(disk) \in Nat
  BY <1>0, <1>1, BytesFinite DEF CacheInv, OvershootIsBounded
<1>. HIDE DEF n
<1>3. CASE disk' \subseteq disk /\ faults <= faults'
  <2>1. Volume(disk') <= Volume(disk) /\ Volume(disk') \in Nat
    BY <1>1, <1>3, VolumeMonotone, BytesFinite
  <2>2. (n + faults) * MaxReleaseSize <= (n + faults') * MaxReleaseSize
    BY <1>1, <1>3, SumMonotone
  <2>3. (n + faults) * MaxReleaseSize \in Int /\ (n + faults') * MaxReleaseSize \in Int
    BY <1>1
  <2>. QED BY <1>2, <2>1, <2>2, <2>3
<1>4. ASSUME NEW r \in Releases, disk' \subseteq disk \cup {r}, faults' = faults + 1
      PROVE  Volume(disk') <= MaxCapacity + (n + faults') * MaxReleaseSize
  <2>1. disk \cup {r} \subseteq Releases
    BY <1>1
  <2>2. /\ Volume(disk') <= Volume(disk \cup {r}) /\ Volume(disk') \in Nat
        /\ Volume(disk \cup {r}) <= Volume(disk) + MaxReleaseSize /\ Volume(disk \cup {r}) \in Nat
    BY <1>1, <1>4, <2>1, VolumeMonotone, VolumeOfOneMore, BytesFinite
  <2>3. (n + faults + 1) * MaxReleaseSize = (n + faults) * MaxReleaseSize + MaxReleaseSize
        /\ (n + faults) * MaxReleaseSize \in Int
    BY <1>1, ProductStep
  <2>4. n + faults' = n + faults + 1
    BY <1>1, <1>4
  <2>. QED BY <1>2, <2>2, <2>3, <2>4
<1>. QED BY <1>3, <1>4

\* A release that is extracted stays within the bound although what is in use does
\* not count.
LEMMA ExtractedFits ==
  ASSUME CacheInv, NEW c \in Clients, client[c].pc = "waiting", NEW r \in Releases,
         disk' = (disk \ MakingRoom({}, {}).evicted) \cup {r}, UNCHANGED faults
  PROVE  OvershootIsBounded'
<1>. DEFINE n == Cardinality(Clients) - 1
            left == disk \ MakingRoom({}, {}).evicted
<1>0. SUFFICES ASSUME MaxCapacity > 0
               PROVE  Volume(disk') <= MaxCapacity + (n + faults) * MaxReleaseSize
  BY DEF OvershootIsBounded, Volume
<1>1. InOrder(disk, older) /\ Linked \subseteq disk /\ Counts /\ LeaksAreFaults
  BY DEF CacheInv, LinkedReleasesStay
<1>2. Volume(left) + MaxReleaseSize <= MaxCapacity + Volume(Linked)
  BY <1>0, <1>1, RoomIsMade
<1>3. left \subseteq Releases /\ disk' = left \cup {r}
  BY <1>1 DEF InOrder
<1>4. /\ Linked \subseteq Releases /\ Cardinality(Linked) \in Nat /\ n \in Int /\ faults \in Nat
      /\ Cardinality(Linked) <= n + faults
  BY <1>1, LinkedBound DEF Counts
<1>. HIDE DEF n, left
<1>5. Volume(left) \in Nat /\ Volume(Linked) \in Nat /\ Volume(Linked) <= Cardinality(Linked) * MaxReleaseSize
  BY <1>3, <1>4, BytesFinite
<1>6. /\ Cardinality(Linked) * MaxReleaseSize <= (n + faults) * MaxReleaseSize
      /\ Cardinality(Linked) * MaxReleaseSize \in Int /\ (n + faults) * MaxReleaseSize \in Int
  BY <1>4, ProductMonotone
<1>7. Volume(left \cup {r}) <= Volume(left) + MaxReleaseSize
  BY <1>3, VolumeOfOneMore
<1>8. Volume(disk') = Volume(left \cup {r}) /\ Volume(left \cup {r}) \in Nat
  <2>1. left \cup {r} \subseteq Releases
    BY <1>3
  <2>. QED BY <1>3, <2>1, BytesFinite
<1>. QED BY <1>2, <1>5, <1>6, <1>7, <1>8

----------------------------------------------------------------------------
(* The steps *)

\* The invariant, of a step that loses no link.
LEMMA StepKept ==
  ASSUME CacheInv, NEW c \in Clients, NEW x \in ClientState, client' = [client EXCEPT ![c] = x],
         UNCHANGED leaked, faults <= faults', faults' \in 0..MaxFaults, requests' \in 0..MaxRequests,
         InOrder(disk', older'), Linked \subseteq disk',
         x.pc = "holding" => x.release \in disk',
         OvershootIsBounded'
  PROVE  CacheInv'
<1>1. client' \in [Clients -> ClientState]
  BY ClientWritten DEF CacheInv
<1>2. Linked' \subseteq leaked' \cup Linked \cup {r \in Releases : x = [pc |-> "holding", release |-> r]}
  BY ClientWritten DEF CacheInv
<1>3. leaked' \subseteq Linked
  BY DEF Linked
<1>4. \A r \in Releases : x = [pc |-> "holding", release |-> r] => r \in disk'
  OBVIOUS
<1>5. Linked' \subseteq disk'
  BY <1>2, <1>3, <1>4
<1>6. LinkedReleasesStay'
  BY <1>5 DEF LinkedReleasesStay
<1>7. Cardinality(leaked) \in Nat /\ faults \in Nat /\ Cardinality(leaked) <= faults /\ leaked \subseteq Releases
  BY FS_Subset, FS_CardinalityType DEF CacheInv, Counts, LeaksAreFaults
<1>8. LeaksAreFaults'
  <2>1. Cardinality(leaked) <= faults'
    BY <1>7
  <2>. QED BY <1>7, <2>1 DEF LeaksAreFaults
<1>9. Counts'
  BY <1>1 DEF Counts
<1>10. InOrder(disk, older)'
  BY DEF InOrder
<1>. QED BY <1>6, <1>8, <1>9, <1>10 DEF CacheInv

\* An empty directory is in order and holds nothing.
LEMMA CacheEmpty ==
  /\ InOrder({}, {})
  /\ \A k \in Nat :
       MaxCapacity > 0 => 0 <= MaxCapacity + (Cardinality(Clients) - 1 + k) * MaxReleaseSize
<1>1. InOrder({}, {})
  BY DEF InOrder
<1>2. ASSUME MaxCapacity > 0, NEW k \in Nat
      PROVE  0 <= MaxCapacity + (Cardinality(Clients) - 1 + k) * MaxReleaseSize
  <2>. DEFINE n == Cardinality(Clients) - 1 + k
  <2>1. n \in Int /\ -1 <= n
    BY FS_CardinalityType
  <2>. HIDE DEF n
  <2>2. (-1) * MaxReleaseSize <= n * MaxReleaseSize /\ n * MaxReleaseSize \in Int
    BY <2>1, ProductMonotone
  <2>3. (-1) * MaxReleaseSize = -MaxReleaseSize
    OBVIOUS
  <2>4. 0 <= MaxCapacity + n * MaxReleaseSize
    BY <1>2, <2>2, <2>3
  <2>. QED BY <2>4 DEF n
<1>. QED BY <1>1, <1>2

\* The directory is empty when the service starts.
LEMMA CacheInit == Init => CacheInv
<1>. SUFFICES ASSUME Init PROVE CacheInv
  OBVIOUS
<1>1. InOrder(disk, older)
  BY CacheEmpty DEF Init
<1>2. Counts
  BY DEF Init, Counts, ClientState
<1>3. LeaksAreFaults
  BY FS_EmptySet DEF Init, LeaksAreFaults
<1>4. Linked = {}
  BY DEF Init, Linked, Free
<1>5. LinkedReleasesStay
  BY <1>4 DEF LinkedReleasesStay
<1>6. OvershootIsBounded
  <2>1. Volume(disk) = 0 /\ faults \in Nat
    BY VolumeOfNothing DEF Init
  <2>. QED BY <2>1, CacheEmpty DEF OvershootIsBounded
<1>. QED BY <1>1, <1>2, <1>3, <1>5, <1>6 DEF CacheInv

\* A restart empties it again.
LEMMA RestartStep ==
  ASSUME CacheInv, Restart
  PROVE  CacheInv'
<1>1. InOrder(disk, older)'
  BY CacheEmpty DEF Restart, InOrder
<1>2. Counts'
  BY DEF CacheInv, Restart, Fault, Counts, ClientState
<1>3. LeaksAreFaults'
  BY FS_EmptySet, <1>2 DEF Restart, LeaksAreFaults, Counts
<1>4. Linked' = {}
  BY DEF Restart, Linked, Free
<1>5. LinkedReleasesStay'
  BY <1>4 DEF LinkedReleasesStay
<1>6. OvershootIsBounded'
  BY <1>2, FaultPays DEF Restart, Fault, CacheInv, Counts
<1>. QED BY <1>1, <1>2, <1>3, <1>5, <1>6 DEF CacheInv

\* What a client that waits for a release does keeps the invariant.
LEMMA GetStep ==
  ASSUME CacheInv, NEW c \in Clients,
         GetSucceeds(c) \/ GetWithFailedEvictions(c) \/ ExtractFails(c) \/ LinkFails(c) \/ GiveUp(c)
  PROVE  CacheInv'
<1>. DEFINE r == client[c].release
            holding == [pc |-> "holding", release |-> r]
            evicted == MakingRoom({}, {}).evicted
<1>0. /\ InOrder(disk, older) /\ Counts /\ Linked \subseteq disk
      /\ faults \in 0..MaxFaults /\ requests \in 0..MaxRequests
  BY DEF CacheInv, LinkedReleasesStay, Counts
<1>1. client[c].pc = "waiting"
  BY DEF GetSucceeds, GetWithFailedEvictions, ExtractFails, LinkFails, GiveUp
<1>2. r \in Releases /\ client[c] \in ClientState /\ holding \in ClientState /\ Free \in ClientState
  BY <1>0, <1>1, BusyClient DEF ClientState
<1>3. [client EXCEPT ![c].pc = "holding"] = [client EXCEPT ![c] = holding]
  BY <1>0, <1>1, BusyClient
<1>4. evicted \cap Linked = {}
  BY EvictedIsEvictable DEF Evictable
<1>5. ASSUME Touched(r, {}) \/ Touched(r, evicted)
      PROVE  InOrder(disk', older') /\ Linked \subseteq disk' /\ r \in disk' /\ disk' \subseteq disk \cup {r}
  <2>1. PICK e \in {{}, evicted} : Touched(r, e)
    BY <1>5
  <2>2. InOrder(disk', older') /\ disk' = (disk \ e) \cup {r}
    BY <1>0, <1>2, <2>1, TouchedInOrder
  <2>3. e \cap Linked = {}
    BY <1>4
  <2>. QED BY <1>0, <2>2, <2>3
<1>6. CASE GetSucceeds(c)
  <2>1. IF r \in disk THEN Touched(r, {}) ELSE Touched(r, evicted)
    BY <1>6 DEF GetSucceeds
  <2>2. client' = [client EXCEPT ![c] = holding] /\ UNCHANGED <<leaked, requests, faults>>
    BY <1>3, <1>6 DEF GetSucceeds
  <2>3. OvershootIsBounded'
    <3>1. CASE r \in disk
      <4>1. disk' \subseteq disk /\ faults' \in Nat /\ faults <= faults'
        BY <1>0, <1>2, <2>1, <2>2, <3>1, <1>5
      <4>. QED BY <4>1, FaultPays
    <3>2. CASE r \notin disk
      <4>1. disk' = (disk \ evicted) \cup {r}
        BY <1>0, <1>2, <2>1, <3>2, TouchedInOrder
      <4>. QED BY <1>1, <1>2, <2>2, <4>1, ExtractedFits
    <3>. QED BY <3>1, <3>2
  <2>4. InOrder(disk', older') /\ Linked \subseteq disk' /\ r \in disk'
    BY <1>5, <2>1
  <2>5. faults <= faults' /\ faults' \in 0..MaxFaults /\ requests' \in 0..MaxRequests
    BY <1>0, <2>2
  <2>. QED BY <1>2, <2>2, <2>3, <2>4, <2>5, StepKept
<1>7. ASSUME Fault PROVE faults' = faults + 1 /\ faults' \in Nat /\ faults <= faults' /\ faults' \in 0..MaxFaults
  BY <1>0, <1>7 DEF Fault
<1>8. CASE GetWithFailedEvictions(c)
  <2>1. PICK failed, gone :
          IF MakingRoom(failed, gone).room
          THEN Touched(r, MakingRoom(failed, gone).evicted) /\ client' = [client EXCEPT ![c].pc = "holding"]
          ELSE Left(MakingRoom(failed, gone).evicted) /\ client' = client
    BY <1>8 DEF GetWithFailedEvictions
  <2>. DEFINE e == MakingRoom(failed, gone).evicted
              room == MakingRoom(failed, gone).room
  <2>2. e \cap Linked = {}
    BY EvictedIsEvictable DEF Evictable
  <2>3. \/ room /\ Touched(r, e) /\ client' = [client EXCEPT ![c] = holding]
        \/ ~room /\ Left(e) /\ client' = [client EXCEPT ![c] = client[c]]
    <3>1. [client EXCEPT ![c] = client[c]] = client
      BY <1>0 DEF Counts
    <3>. QED BY <1>3, <2>1, <3>1
  <2>. HIDE DEF e, room
  <2>4. UNCHANGED <<leaked, requests>> /\ Fault
    BY <1>8 DEF GetWithFailedEvictions
  <2>5. CASE Touched(r, e) /\ client' = [client EXCEPT ![c] = holding]
    <3>1. InOrder(disk', older') /\ disk' = (disk \ e) \cup {r}
      BY <1>0, <1>2, <2>5, TouchedInOrder
    <3>2. Linked \subseteq disk' /\ disk' \subseteq disk \cup {r} /\ r \in disk'
      BY <1>0, <2>2, <3>1
    <3>3. OvershootIsBounded'
      BY <1>2, <1>7, <2>4, <3>2, FaultPays
    <3>. QED BY <1>0, <1>2, <1>7, <2>4, <2>5, <3>1, <3>2, <3>3, StepKept
  <2>6. CASE Left(e) /\ client' = [client EXCEPT ![c] = client[c]]
    <3>1. InOrder(disk', older') /\ disk' = disk \ e
      BY <1>0, <2>6, LeftInOrder
    <3>2. Linked \subseteq disk' /\ disk' \subseteq disk
      BY <1>0, <2>2, <3>1
    <3>3. OvershootIsBounded'
      BY <1>7, <2>4, <3>2, FaultPays
    <3>. QED BY <1>0, <1>1, <1>2, <1>7, <2>4, <2>6, <3>1, <3>2, <3>3, StepKept
  <2>. QED BY <2>3, <2>5, <2>6
<1>9. CASE ExtractFails(c)
  <2>1. Left(evicted) /\ client' = [client EXCEPT ![c] = Free] /\ UNCHANGED <<leaked, requests>> /\ Fault
    BY <1>9 DEF ExtractFails
  <2>2. InOrder(disk', older') /\ disk' = disk \ evicted
    BY <1>0, <2>1, LeftInOrder
  <2>3. Linked \subseteq disk' /\ disk' \subseteq disk
    BY <1>0, <1>4, <2>2
  <2>4. OvershootIsBounded'
    BY <1>7, <2>1, <2>3, FaultPays
  <2>5. Free.pc # "holding"
    BY DEF Free
  <2>. QED BY <1>0, <1>2, <1>7, <2>1, <2>2, <2>3, <2>4, <2>5, StepKept
<1>10. CASE LinkFails(c)
  <2>1. Touched(r, {}) \/ Touched(r, evicted)
    BY <1>10 DEF LinkFails
  <2>2. client' = [client EXCEPT ![c] = Free] /\ UNCHANGED <<leaked, requests>> /\ Fault
    BY <1>10 DEF LinkFails
  <2>3. InOrder(disk', older') /\ Linked \subseteq disk' /\ disk' \subseteq disk \cup {r}
    BY <1>5, <2>1
  <2>4. OvershootIsBounded'
    BY <1>2, <1>7, <2>2, <2>3, FaultPays
  <2>5. Free.pc # "holding"
    BY DEF Free
  <2>. QED BY <1>0, <1>2, <1>7, <2>2, <2>3, <2>4, <2>5, StepKept
<1>11. CASE GiveUp(c)
  <2>1. client' = [client EXCEPT ![c] = Free] /\ UNCHANGED <<disk, older, leaked, requests>> /\ Fault
    BY <1>11 DEF GiveUp
  <2>2. InOrder(disk', older') /\ Linked \subseteq disk' /\ disk' \subseteq disk
    BY <1>0, <2>1
  <2>3. OvershootIsBounded'
    BY <1>7, <2>1, <2>2, FaultPays
  <2>4. Free.pc # "holding"
    BY DEF Free
  <2>. QED BY <1>0, <1>2, <1>7, <2>1, <2>2, <2>3, <2>4, StepKept
<1>. QED BY <1>6, <1>8, <1>9, <1>10, <1>11

\* So does what an idle client, or one that holds a release, does.
LEMMA ClientStep ==
  ASSUME CacheInv, NEW c \in Clients,
         (\E r \in Releases : Request(c, r)) \/ Cleanup(c) \/ CleanupFails(c)
  PROVE  CacheInv'
<1>0. /\ InOrder(disk, older) /\ Counts /\ Linked \subseteq disk
      /\ faults \in 0..MaxFaults /\ requests \in 0..MaxRequests /\ Free \in ClientState
  BY DEF CacheInv, LinkedReleasesStay, Counts, ClientState
<1>1. UNCHANGED <<disk, older>>
  BY DEF Request, Cleanup, CleanupFails
<1>2. InOrder(disk', older') /\ Linked \subseteq disk' /\ disk' \subseteq disk
  BY <1>0, <1>1
<1>3. Free.pc # "holding"
  BY DEF Free
<1>4. faults' \in Nat /\ faults <= faults' /\ faults' \in 0..MaxFaults /\ requests' \in 0..MaxRequests
  BY <1>0 DEF Request, Cleanup, CleanupFails, Fault
<1>5. OvershootIsBounded'
  BY <1>2, <1>4, FaultPays
<1>6. ASSUME NEW r \in Releases, Request(c, r) PROVE CacheInv'
  <2>. DEFINE x == [pc |-> "waiting", release |-> r]
  <2>1. x \in ClientState /\ x.pc # "holding"
    BY DEF ClientState
  <2>2. client' = [client EXCEPT ![c] = x] /\ UNCHANGED leaked
    BY <1>6 DEF Request
  <2>. HIDE DEF x
  <2>. QED BY <1>2, <1>4, <1>5, <2>1, <2>2, StepKept
<1>7. CASE Cleanup(c)
  <2>1. client' = [client EXCEPT ![c] = Free] /\ UNCHANGED leaked
    BY <1>7 DEF Cleanup
  <2>. QED BY <1>0, <1>2, <1>3, <1>4, <1>5, <2>1, StepKept
<1>8. CASE CleanupFails(c)
  <2>. DEFINE r == client[c].release
  <2>1. client' = [client EXCEPT ![c] = Free] /\ leaked' = leaked \cup {r} /\ faults' = faults + 1
    BY <1>8 DEF CleanupFails, Fault
  <2>2. client[c].pc = "holding" /\ r \in Releases /\ client[c] \in [pc : {"waiting", "holding"}, release : Releases]
    BY <1>0, <1>8, BusyClient DEF CleanupFails
  <2>3. r \in Linked /\ leaked \subseteq Linked
    <3>1. client[c] = [pc |-> "holding", release |-> r]
      BY <2>2
    <3>. QED BY <2>2, <3>1 DEF Linked
  <2>4. client' \in [Clients -> ClientState] /\ Linked' \subseteq leaked' \cup Linked
    <3>1. /\ client' \in [Clients -> ClientState]
          /\ Linked' \subseteq leaked' \cup Linked \cup {q \in Releases : Free = [pc |-> "holding", release |-> q]}
      BY <1>0, <2>1, ClientWritten
    <3>2. \A q \in Releases : Free # [pc |-> "holding", release |-> q]
      BY <1>3
    <3>. QED BY <3>1, <3>2
  <2>5. LinkedReleasesStay'
    <3>1. Linked' \subseteq disk'
      BY <1>2, <2>1, <2>3, <2>4
    <3>. QED BY <3>1 DEF LinkedReleasesStay
  <2>6. LeaksAreFaults'
    <3>1. leaked \subseteq Releases /\ Cardinality(leaked) <= faults /\ IsFiniteSet(leaked) /\ Cardinality(leaked) \in Nat
      BY FS_Subset, FS_CardinalityType DEF CacheInv, LeaksAreFaults
    <3>2. Cardinality(leaked \cup {r}) <= Cardinality(leaked) + 1 /\ Cardinality(leaked \cup {r}) \in Nat
      <4>1. Cardinality(leaked \cup {r}) = IF r \in leaked THEN Cardinality(leaked) ELSE Cardinality(leaked) + 1
        BY <3>1, FS_AddElement
      <4>. QED BY <3>1, <4>1
    <3>3. Cardinality(leaked') = Cardinality(leaked \cup {r})
      BY <2>1
    <3>4. Cardinality(leaked') <= faults'
      BY <1>0, <2>1, <3>1, <3>2, <3>3
    <3>. QED BY <2>1, <2>2, <3>1, <3>4 DEF LeaksAreFaults
  <2>7. Counts'
    BY <1>4, <2>4 DEF Counts
  <2>8. InOrder(disk, older)'
    BY <1>2 DEF InOrder
  <2>. QED BY <1>5, <2>5, <2>6, <2>7, <2>8 DEF CacheInv
<1>. QED BY <1>6, <1>7, <1>8

\* The invariant is inductive.
LEMMA CacheStep == CacheInv /\ [Next]_vars => CacheInv'
<1>. SUFFICES ASSUME CacheInv, [Next]_vars PROVE CacheInv'
  OBVIOUS
<1>1. CASE UNCHANGED vars
  BY <1>1 DEF vars, CacheInv, InOrder, Counts, LeaksAreFaults, LinkedReleasesStay, Linked,
              OvershootIsBounded, Volume
<1>2. CASE Next
  BY <1>2, RestartStep, GetStep, ClientStep DEF Next
<1>. QED BY <1>1, <1>2

\* So it holds always.
LEMMA CacheAlways == Spec => []CacheInv
  BY CacheInit, CacheStep, PTL DEF Spec

----------------------------------------------------------------------------
(* The theorems *)

\* The times of the files are a strict order of the directory, whatever is
\* evicted, used again or lost with a restart.
THEOREM CacheTypeCorrect == Spec => []TypeOK
  BY CacheAlways, CacheInvImplies, PTL

\* A release that some client works on, or whose link was lost, is never evicted.
THEOREM LinkedReleasesStayAlways == Spec => []LinkedReleasesStay
  BY CacheAlways, CacheInvImplies, PTL

\* The directory outgrows its capacity by no more than what the other clients hold
\* and one release for each fault.
THEOREM OvershootIsAlwaysBounded == Spec => []OvershootIsBounded
  BY CacheAlways, CacheInvImplies, PTL

\* What a file's eviction says of the volume from that file on.
LEMMA ReachedMeans ==
  ASSUME InOrder(disk, older), NEW f \in Evictable, MaxCapacity > 0
  PROVE  /\ f \in Reached({}) <=>
              Volume({g \in Evictable : <<g, f>> \notin older}) + MaxReleaseSize > MaxCapacity
         /\ Volume({g \in Evictable : <<g, f>> \notin older}) \in Nat
<1>1. {g \in Evictable \ {} : <<g, f>> \in older} = {g \in Evictable : <<g, f>> \in older}
  OBVIOUS
<1>2. f \in Reached({}) <=> ShouldEvict(Volume(Evictable) - Volume({g \in Evictable : <<g, f>> \in older}))
  BY <1>1 DEF Reached
<1>3. f \in Reached({}) <=> ShouldEvict(Volume({g \in Evictable : <<g, f>> \notin older}))
  BY <1>2, VolumeFrom
<1>. DEFINE v == Volume({g \in Evictable : <<g, f>> \notin older})
<1>4. v \in Nat
  BY VolumeFrom
<1>. HIDE DEF v
<1>5. ShouldEvict(v) <=> v + MaxReleaseSize > MaxCapacity
  BY <1>4 DEF ShouldEvict
<1>. QED BY <1>3, <1>4, <1>5 DEF v

\* What an eviction without errors takes is the oldest, and not more than is needed.
LEMMA EvictionIsFrugal ==
  ASSUME CacheInv, ShouldEvict(Volume(disk \cup Linked)), NEW r \in Reached({})
  PROVE  /\ \A s \in Evictable \ Reached({}) : <<r, s>> \in older
         /\ Volume(disk \cup Linked) + MaxReleaseSize > MaxCapacity
         /\ Volume({s \in Evictable : s = r \/ <<r, s>> \in older}) + MaxReleaseSize > MaxCapacity
<1>. DEFINE From(f) == {g \in Evictable : <<g, f>> \notin older}
<1>0. InOrder(disk, older) /\ Linked \subseteq disk /\ MaxCapacity > 0
  BY DEF CacheInv, LinkedReleasesStay, ShouldEvict
<1>1. r \in Evictable /\ Evictable \subseteq disk /\ Evictable \subseteq Releases
  BY <1>0 DEF Reached, Evictable, InOrder
<1>2. Volume(From(r)) + MaxReleaseSize > MaxCapacity /\ Volume(From(r)) \in Nat
  BY <1>0, <1>1, ReachedMeans
<1>3. Volume(disk \cup Linked) + MaxReleaseSize > MaxCapacity
  <2>1. disk \cup Linked \subseteq Releases
    BY <1>0 DEF InOrder
  <2>2. Volume(disk \cup Linked) \in Nat
    BY <2>1, BytesFinite
  <2>. QED BY <2>2 DEF ShouldEvict
<1>4. From(r) = {s \in Evictable : s = r \/ <<r, s>> \in older}
  BY <1>0, <1>1 DEF InOrder
<1>5. ASSUME NEW s \in Evictable \ Reached({}) PROVE <<r, s>> \in older
  <2>1. ~(Volume(From(s)) + MaxReleaseSize > MaxCapacity) /\ Volume(From(s)) \in Nat
    BY <1>0, ReachedMeans
  <2>2. ASSUME <<s, r>> \in older PROVE FALSE
    <3>1. From(r) \subseteq From(s)
      BY <1>0, <1>1, <2>2 DEF InOrder
    <3>2. From(s) \subseteq Releases
      BY <1>1
    <3>3. Volume(From(r)) <= Volume(From(s))
      <4>. HIDE DEF From
      <4>. QED BY <3>1, <3>2, VolumeMonotone
    <3>. HIDE DEF From
    <3>. QED BY <1>2, <2>1, <3>3
  <2>3. r # s
    OBVIOUS
  <2>. QED BY <1>0, <1>1, <2>2, <2>3 DEF InOrder
<1>. QED BY <1>2, <1>3, <1>4, <1>5

\* What is evicted without errors is older than all that stays and is not in use, and
\* one more release did not fit beside it and the newer files.
THEOREM EvictionTakesOldest == Spec => EvictsOldestAndNoMore
<1>. DEFINE Frugal ==
       \A r \in disk \ disk' :
         \/ faults' # faults
         \/ /\ \A s \in Evictable \cap disk' : <<r, s>> \in older
            /\ Volume(disk \cup Linked) + MaxReleaseSize > MaxCapacity
            /\ Volume({s \in Evictable : s = r \/ <<r, s>> \in older}) + MaxReleaseSize > MaxCapacity
<1>1. CacheInv /\ [Next]_vars => [Frugal]_vars
  <2>. SUFFICES ASSUME CacheInv, Next, NEW r \in disk, r \notin disk', faults' = faults
                PROVE  /\ \A s \in Evictable \cap disk' : <<r, s>> \in older
                       /\ Volume(disk \cup Linked) + MaxReleaseSize > MaxCapacity
                       /\ Volume({s \in Evictable : s = r \/ <<r, s>> \in older}) + MaxReleaseSize > MaxCapacity
    OBVIOUS
  <2>0. faults \in Nat /\ InOrder(disk, older) /\ Counts
    BY DEF CacheInv, Counts
  <2>1. ~Fault
    BY <2>0 DEF Fault
  <2>2. PICK c \in Clients : GetSucceeds(c)
    BY <2>1 DEF Next, Restart, Request, GetWithFailedEvictions, ExtractFails, LinkFails, GiveUp, Cleanup, CleanupFails
  <2>. DEFINE q == client[c].release
              evicted == MakingRoom({}, {}).evicted
  <2>3. q \in Releases
    BY <2>0, <2>2, BusyClient DEF GetSucceeds
  <2>4. q \notin disk /\ Touched(q, evicted)
    <3>1. IF q \in disk THEN Touched(q, {}) ELSE Touched(q, evicted)
      BY <2>2 DEF GetSucceeds
    <3>2. Touched(q, {}) => disk' = (disk \ {}) \cup {q}
      BY <2>0, <2>3, TouchedInOrder
    <3>. QED BY <3>1, <3>2
  <2>5. disk' = (disk \ evicted) \cup {q}
    BY <2>0, <2>3, <2>4, TouchedInOrder
  <2>6. r \in evicted
    BY <2>5
  <2>7. ShouldEvict(Volume(disk \cup Linked)) /\ evicted = Reached({})
    BY <2>6, EvictedIsReached
  <2>8. Evictable \cap disk' \subseteq Evictable \ Reached({})
    BY <2>4, <2>5, <2>7 DEF Evictable
  <2>. QED BY <2>6, <2>7, <2>8, EvictionIsFrugal
<1>. QED BY <1>1, CacheAlways, PTL DEF Spec, EvictsOldestAndNoMore

----------------------------------------------------------------------------
(* The refinement *)

\* What clients hold after a step is in the directory after it.
LEMMA HeldStays ==
  ASSUME CacheInv'
  PROVE  Store!Held(client') \subseteq disk'
<1>1. Linked' \subseteq disk'
  BY DEF CacheInv, LinkedReleasesStay
<1>. QED BY <1>1 DEF Linked, Store!Held

\* Whatever was done to make room, the directory is left with no more than before
\* and the release that was asked for.
LEMMA StoreGrowth ==
  ASSUME CacheInv, NEW c \in Clients, client[c].pc = "waiting", NEW e,
         Touched(client[c].release, e) \/ Left(e)
  PROVE  disk' \subseteq disk \cup {client[c].release} /\ (Left(e) => disk' \subseteq disk)
<1>1. InOrder(disk, older) /\ client[c].release \in Releases
  BY BusyClient DEF CacheInv
<1>2. Touched(client[c].release, e) => disk' = (disk \ e) \cup {client[c].release}
  BY <1>1, TouchedInOrder
<1>3. Left(e) => disk' = disk \ e
  BY <1>1, LeftInOrder
<1>. QED BY <1>2, <1>3

\* Every step of the cache is a step of the store, or changes nothing of it.
LEMMA StoreStep ==
  ASSUME CacheInv, CacheInv', Next
  PROVE  Store!StoreNext
<1>1. CASE Restart
  BY <1>1 DEF Restart, Store!StoreNext, Store!Clear, Store!Free, Free
<1>2. ASSUME NEW c \in Clients, NEW r \in Releases, Request(c, r) PROVE Store!StoreNext
  <2>1. Store!Ask(c, r)
    BY <1>2 DEF Request, Store!Ask, Store!Free, Free
  <2>. QED BY <2>1 DEF Store!StoreNext
<1>3. ASSUME NEW c \in Clients, GetSucceeds(c) PROVE Store!StoreNext
  <2>1. \E e : Touched(client[c].release, e)
    BY <1>3 DEF GetSucceeds
  <2>2. disk' \subseteq disk \cup {client[c].release}
    BY <1>3, <2>1, StoreGrowth DEF GetSucceeds
  <2>3. Store!Serve(c)
    BY <1>3, <2>2, HeldStays DEF GetSucceeds, Store!Serve, Store!Keeps
  <2>. QED BY <2>3 DEF Store!StoreNext
<1>4. ASSUME NEW c \in Clients, GetWithFailedEvictions(c) PROVE Store!StoreNext
  <2>1. PICK e : \/ Touched(client[c].release, e) /\ client' = [client EXCEPT ![c].pc = "holding"]
                 \/ Left(e) /\ client' = client
    BY <1>4 DEF GetWithFailedEvictions
  <2>2. disk' \subseteq disk \cup {client[c].release} /\ (Left(e) => disk' \subseteq disk)
    BY <1>4, <2>1, StoreGrowth DEF GetWithFailedEvictions
  <2>3. Store!Serve(c) \/ Store!MakeRoom
    BY <1>4, <2>1, <2>2, HeldStays DEF GetWithFailedEvictions, Store!Serve, Store!MakeRoom, Store!Keeps
  <2>. QED BY <2>3 DEF Store!StoreNext
<1>5. ASSUME NEW c \in Clients, ExtractFails(c) \/ LinkFails(c) \/ GiveUp(c) PROVE Store!StoreNext
  <2>1. \/ UNCHANGED disk
        \/ \E e : Touched(client[c].release, e) \/ Left(e)
    BY <1>5 DEF ExtractFails, LinkFails, GiveUp
  <2>2. client[c].pc = "waiting" /\ client' = [client EXCEPT ![c] = Free]
    BY <1>5 DEF ExtractFails, LinkFails, GiveUp
  <2>3. disk' \subseteq disk \cup {client[c].release}
    BY <2>1, <2>2, StoreGrowth
  <2>4. Store!Refuse(c)
    BY <2>2, <2>3, HeldStays DEF Store!Refuse, Store!Keeps, Store!Free, Free
  <2>. QED BY <2>4 DEF Store!StoreNext
<1>6. ASSUME NEW c \in Clients, Cleanup(c) \/ CleanupFails(c) PROVE Store!StoreNext
  <2>1. Store!GiveBack(c)
    BY <1>6 DEF Cleanup, CleanupFails, Store!GiveBack, Store!Free, Free
  <2>. QED BY <2>1 DEF Store!StoreNext
<1>. QED BY <1>1, <1>2, <1>3, <1>4, <1>5, <1>6 DEF Next

\* The cache implements the store of ReleaseStore: what a client was given is there
\* until it gives it back, whatever is evicted, fails or is restarted meanwhile.
THEOREM CacheImplementsStore == Spec => ImplementsReleaseStore
<1>1. Init => Store!StoreInit
  BY DEF Init, Store!StoreInit, Store!Free, Free
<1>2. CacheInv /\ CacheInv' /\ [Next]_vars => [Store!StoreNext]_(Store!storeVars)
  BY StoreStep DEF vars, Store!storeVars
<1>. QED BY <1>1, <1>2, CacheAlways, PTL DEF Spec, ImplementsReleaseStore, Store!Spec
=============================================================================
