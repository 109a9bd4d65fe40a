------------------------- MODULE MonitorLoopProofs -------------------------
(***************************************************************************)
(* Safety of MonitorLoop for any number of replicas, clusters, changes and  *)
(* faults.                                                                  *)
(***************************************************************************)
EXTENDS MonitorLoop, TLAPS

USE MonitorAssumption

----------------------------------------------------------------------------
(* The inductive invariant *)

\* What a cycle goes by of a row is a transition that some rule allows, or none.
SeenRow ==
  {seen \in [status : Status, to : Status, overdue : BOOLEAN, skip : BOOLEAN] :
     seen.to = seen.status \/ seen.to \in Leads[seen.status]}

MemRow == [full : BOOLEAN, cursor : Clusters \cup {None}, blacklist : [Clusters -> 0..BlacklistFor]]

IsBatch(b) ==
  /\ DOMAIN b \subseteq Clusters
  /\ b = [c \in DOMAIN b |-> b[c]]
  /\ \A c \in DOMAIN b : b[c] \in SeenRow

\* A cycle is at a row that it loaded.
IsCycle(cy) ==
  /\ cy = [pc |-> cy.pc, full |-> cy.full, ids |-> cy.ids, batch |-> cy.batch, skipping |-> cy.skipping,
           last |-> cy.last, late |-> cy.late]
  /\ cy.pc \in {"idle", "load", "rows", "process"}
  /\ cy.ids \subseteq Clusters
  /\ IsBatch(cy.batch)
  /\ cy.last \in Clusters \cup {None}
  /\ cy.pc = "process" => cy.last \in DOMAIN cy.batch

Rows == row \in [Clusters -> Row]

Cycles ==
  /\ cycle = [p \in Replicas |-> cycle[p]]
  /\ \A p \in Replicas : IsCycle(cycle[p])

Others ==
  /\ lease \in Replicas \cup {"nobody"} /\ leading \subseteq Replicas
  /\ mem \in [Replicas -> MemRow]
  /\ faults \in 0..MaxFaults /\ overruns \in 0..MaxOverruns

MonitorInv == Rows /\ Cycles /\ Others

\* It implies the type invariant.
LEMMA MonitorInvImplies == MonitorInv => TypeOK
  BY DEF MonitorInv, Rows, Cycles, Others, TypeOK, MemRow, IsCycle, IsBatch, SeenRow

----------------------------------------------------------------------------
(* The operators of the model *)

\* A batch is a part of the rows it was taken from.
LEMMA FirstSubset == \A S, n : First(S, n) \subseteq S
  BY DEF First

\* The statuses a refresh leads to are statuses, and none follows an end.
LEMMA LeadsToStatus ==
  /\ \A s \in Status : Leads[s] \subseteq Status
  /\ \A s \in {"error", "installed", "deleted"} : s \in Status /\ Leads[s] = {}
  BY DEF Leads, Status

\* What is seen of a row is a transition that is due, or none.
LEMMA SeenType ==
  ASSUME NEW r \in Row
  PROVE  Seen(r) \in SeenRow
<1>1. r.status \in Status /\ r.asks \in Status
  BY DEF Row
<1>2. (r.logs = "overdue") \in BOOLEAN /\ SkipMonitoring(r) \in BOOLEAN
  BY DEF SkipMonitoring
<1>. QED BY <1>1, <1>2 DEF Seen, SeenRow, IsDue

\* The cycle no replica is in.
LEMMA IdleIsCycle == IsCycle(Idle) /\ Idle.batch = << >>
  BY DEF Idle, IsCycle, IsBatch

\* What a cycle becomes when its fields are written: at its start,
LEMMA StartFields ==
  ASSUME NEW cy, IsCycle(cy), NEW pc, NEW full, NEW skipping, NEW ids
  PROVE  [cy EXCEPT !.pc = pc, !.full = full, !.skipping = skipping, !.ids = ids] =
           [pc |-> pc, full |-> full, ids |-> ids, batch |-> cy.batch, skipping |-> skipping,
            last |-> cy.last, late |-> cy.late]
<1>. DEFINE c1 == [cy EXCEPT !.pc = pc]
<1>1. c1 = [pc |-> pc, full |-> cy.full, ids |-> cy.ids, batch |-> cy.batch, skipping |-> cy.skipping,
            last |-> cy.last, late |-> cy.late]
  BY DEF IsCycle
<1>. HIDE DEF c1
<1>. DEFINE c2 == [c1 EXCEPT !.full = full]
<1>2. c2 = [pc |-> pc, full |-> full, ids |-> cy.ids, batch |-> cy.batch, skipping |-> cy.skipping,
            last |-> cy.last, late |-> cy.late]
  BY <1>1
<1>. HIDE DEF c2
<1>. DEFINE c3 == [c2 EXCEPT !.skipping = skipping]
<1>3. c3 = [pc |-> pc, full |-> full, ids |-> cy.ids, batch |-> cy.batch, skipping |-> skipping,
            last |-> cy.last, late |-> cy.late]
  BY <1>2
<1>. HIDE DEF c3
<1>. DEFINE c4 == [c3 EXCEPT !.ids = ids]
<1>4. c4 = [pc |-> pc, full |-> full, ids |-> ids, batch |-> cy.batch, skipping |-> skipping,
            last |-> cy.last, late |-> cy.late]
  BY <1>3
<1>5. c4 = [cy EXCEPT !.pc = pc, !.full = full, !.skipping = skipping, !.ids = ids]
  BY DEF c1, c2, c3
<1>. QED BY <1>4, <1>5

\* when a batch is loaded,
LEMMA LoadFields ==
  ASSUME NEW cy, IsCycle(cy), NEW pc, NEW batch, NEW ids
  PROVE  [cy EXCEPT !.pc = pc, !.batch = batch, !.ids = ids] =
           [pc |-> pc, full |-> cy.full, ids |-> ids, batch |-> batch, skipping |-> cy.skipping,
            last |-> cy.last, late |-> cy.late]
<1>. DEFINE c1 == [cy EXCEPT !.pc = pc]
<1>1. c1 = [pc |-> pc, full |-> cy.full, ids |-> cy.ids, batch |-> cy.batch, skipping |-> cy.skipping,
            last |-> cy.last, late |-> cy.late]
  BY DEF IsCycle
<1>. HIDE DEF c1
<1>. DEFINE c2 == [c1 EXCEPT !.batch = batch]
<1>2. c2 = [pc |-> pc, full |-> cy.full, ids |-> cy.ids, batch |-> batch, skipping |-> cy.skipping,
            last |-> cy.last, late |-> cy.late]
  BY <1>1
<1>. HIDE DEF c2
<1>. DEFINE c3 == [c2 EXCEPT !.ids = ids]
<1>3. c3 = [pc |-> pc, full |-> cy.full, ids |-> ids, batch |-> batch, skipping |-> cy.skipping,
            last |-> cy.last, late |-> cy.late]
  BY <1>2
<1>4. c3 = [cy EXCEPT !.pc = pc, !.batch = batch, !.ids = ids]
  BY DEF c1, c2
<1>. QED BY <1>3, <1>4

\* when it is at a row,
LEMMA RowFields ==
  ASSUME NEW cy, IsCycle(cy), NEW pc, NEW last
  PROVE  [cy EXCEPT !.pc = pc, !.last = last] =
           [pc |-> pc, full |-> cy.full, ids |-> cy.ids, batch |-> cy.batch, skipping |-> cy.skipping,
            last |-> last, late |-> cy.late]
<1>. DEFINE c1 == [cy EXCEPT !.pc = pc]
<1>1. c1 = [pc |-> pc, full |-> cy.full, ids |-> cy.ids, batch |-> cy.batch, skipping |-> cy.skipping,
            last |-> cy.last, late |-> cy.late]
  BY DEF IsCycle
<1>. HIDE DEF c1
<1>. DEFINE c2 == [c1 EXCEPT !.last = last]
<1>2. c2 = [pc |-> pc, full |-> cy.full, ids |-> cy.ids, batch |-> cy.batch, skipping |-> cy.skipping,
            last |-> last, late |-> cy.late]
  BY <1>1
<1>3. c2 = [cy EXCEPT !.pc = pc, !.last = last]
  BY DEF c1
<1>. QED BY <1>2, <1>3

\* and when its deadline passes.
LEMMA LateFields ==
  ASSUME NEW cy, IsCycle(cy), NEW late
  PROVE  [cy EXCEPT !.late = late] =
           [pc |-> cy.pc, full |-> cy.full, ids |-> cy.ids, batch |-> cy.batch, skipping |-> cy.skipping,
            last |-> cy.last, late |-> late]
  BY DEF IsCycle

\* A row that was looked at is taken out of the batch.
LEMMA DroppedIsCycle ==
  ASSUME NEW cy, IsCycle(cy), NEW c
  PROVE  IsCycle(Dropped(cy, c)) /\ Dropped(cy, c).pc \in {"load", "rows"}
<1>. DEFINE b == [d \in DOMAIN cy.batch \ {c} |-> cy.batch[d]]
            pc == IF DOMAIN cy.batch = {c} THEN "load" ELSE "rows"
<1>1. DOMAIN b \subseteq DOMAIN cy.batch /\ \A d \in DOMAIN b : b[d] = cy.batch[d]
  OBVIOUS
<1>2. IsBatch(b)
  BY <1>1 DEF IsCycle, IsBatch
<1>3. Dropped(cy, c) = [cy EXCEPT !.batch = b, !.pc = pc] /\ pc \in {"load", "rows"}
  BY DEF Dropped
<1>. HIDE DEF b, pc
<1>4. Dropped(cy, c) = [pc |-> pc, full |-> cy.full, ids |-> cy.ids, batch |-> b, skipping |-> cy.skipping,
                        last |-> cy.last, late |-> cy.late]
  BY <1>3 DEF IsCycle
<1>. QED BY <1>1, <1>2, <1>3, <1>4 DEF IsCycle

----------------------------------------------------------------------------
(* Writes *)

\* A replica goes on with its cycle.
LEMMA CycleWritten ==
  ASSUME Cycles, NEW p \in Replicas, NEW cy, IsCycle(cy), cycle' = [cycle EXCEPT ![p] = cy]
  PROVE  Cycles'
<1>1. \A q \in Replicas : cycle'[q] = IF q = p THEN cy ELSE cycle[q]
  BY DEF Cycles
<1>2. cycle' = [q \in Replicas |-> cycle'[q]]
  BY DEF Cycles
<1>3. \A q \in Replicas : IsCycle(cycle'[q])
  BY <1>1 DEF Cycles
<1>. QED BY <1>2, <1>3 DEF Cycles, IsCycle, IsBatch

\* The cycles are where they were.
LEMMA CyclesKept ==
  ASSUME Cycles, UNCHANGED cycle
  PROVE  Cycles'
  BY DEF Cycles, IsCycle, IsBatch

\* Neither rows nor cycles are touched.
LEMMA Untouched ==
  ASSUME Cycles, Rows, UNCHANGED <<row, cycle>>
  PROVE  Cycles' /\ Rows'
  BY CyclesKept DEF Rows

\* No cycle has begun.
LEMMA MonitorInit == Init => MonitorInv
<1>. SUFFICES ASSUME Init PROVE MonitorInv
  OBVIOUS
<1>1. \A s \in Existing : NewRow(s) \in Row
  BY DEF NewRow, Row
<1>2. Rows
  BY <1>1 DEF Init, Rows
<1>3. Others
  BY DEF Init, Others, Forgotten, MemRow
<1>4. Cycles
  BY IdleIsCycle DEF Init, Cycles
<1>. QED BY <1>2, <1>3, <1>4 DEF MonitorInv

----------------------------------------------------------------------------
(* The steps *)

\* What users, agents and time do to a row keeps the invariant.
LEMMA ClusterStep ==
  ASSUME MonitorInv, NEW c \in Clusters,
         \/ ConditionsChange(c) \/ PrepareForInstallation(c) \/ ResetCluster(c) \/ DeregisterCluster(c)
         \/ UpdateLogsProgress(c) \/ IsLogCollectionTimedOut(c)
  PROVE  MonitorInv'
<1>0. Rows /\ Cycles /\ Others /\ row[c] \in Row /\ row[c].changes \in 0..MaxChanges
  BY DEF MonitorInv, Rows, Row
<1>1. Others' /\ UNCHANGED cycle
  BY <1>0 DEF ConditionsChange, PrepareForInstallation, ResetCluster, Moves, DeregisterCluster,
              UpdateLogsProgress, IsLogCollectionTimedOut, Others, Fault
<1>2. Rows'
  <2>1. ASSUME NEW r \in Row, row' = [row EXCEPT ![c] = r] PROVE Rows'
    BY <1>0, <2>1 DEF Rows
  <2>2. CASE ConditionsChange(c)
    <3>1. PICK s \in (Leads[row[c].status] \cap Asked) \cup {row[c].status} :
            row' = [row EXCEPT ![c].asks = s, ![c].changes = @ + 1]
      BY <2>2 DEF ConditionsChange
    <3>2. s \in Status
      BY <1>0 DEF Row
    <3>3. row[c].changes + 1 \in 0..MaxChanges
      BY <1>0, <2>2 DEF ConditionsChange
    <3>. DEFINE r == [row[c] EXCEPT !.asks = s, !.changes = @ + 1]
    <3>4. r \in Row
      BY <1>0, <3>2, <3>3 DEF Row
    <3>5. row' = [row EXCEPT ![c] = r]
      BY <1>0, <3>1 DEF Rows
    <3>. HIDE DEF r
    <3>. QED BY <2>1, <3>4, <3>5
  <2>3. ASSUME NEW s \in Status, Moves(c, s) PROVE Rows'
    <3>1. row[c].changes + 1 \in 0..MaxChanges
      BY <1>0, <2>3 DEF Moves
    <3>. QED BY <1>0, <2>1, <2>3, <3>1 DEF Moves, Row
  <2>4. CASE PrepareForInstallation(c) \/ ResetCluster(c)
    <3>1. {"insufficient", "preparing-for-installation"} \subseteq Status
      BY DEF Status, Leads
    <3>. QED BY <2>3, <2>4, <3>1 DEF PrepareForInstallation, ResetCluster
  <2>5. CASE DeregisterCluster(c)
    <3>1. "deleted" \in Status
      BY DEF Status, Leads
    <3>. QED BY <1>0, <2>5, <3>1 DEF DeregisterCluster, Rows, Row
  <2>6. CASE UpdateLogsProgress(c) \/ IsLogCollectionTimedOut(c)
    <3>1. PICK logs \in {"awaited", "overdue", "over"} : row' = [row EXCEPT ![c].logs = logs]
      BY <2>6 DEF UpdateLogsProgress, IsLogCollectionTimedOut
    <3>. QED BY <1>0, <3>1 DEF Rows, Row
  <2>. QED BY <2>2, <2>4, <2>5, <2>6
<1>. QED BY <1>0, <1>1, <1>2, CyclesKept DEF MonitorInv

\* Leases come and go, replicas restart and time passes.
LEMMA LeaderStep ==
  ASSUME MonitorInv,
         \/ LeaseExpires \/ FiveMinutesPass
         \/ \E p \in Replicas : StartedLeading(p) \/ StoppedLeading(p) \/ Restart(p)
  PROVE  MonitorInv'
<1>0. Rows /\ Cycles /\ Others
  BY DEF MonitorInv
<1>1. CASE LeaseExpires
  BY <1>0, <1>1, Untouched DEF MonitorInv, LeaseExpires, Others, Fault
<1>2. CASE FiveMinutesPass
  <2>1. ASSUME NEW p \in Replicas
        PROVE  [mem[p] EXCEPT !.full = TRUE,
                              !.blacklist = [c \in Clusters |-> IF @[c] > 0 THEN @[c] - 1 ELSE 0]] \in MemRow
    <3>. DEFINE b == [c \in Clusters |-> IF mem[p].blacklist[c] > 0 THEN mem[p].blacklist[c] - 1 ELSE 0]
    <3>1. mem[p] \in MemRow /\ b \in [Clusters -> 0..BlacklistFor]
      BY <1>0 DEF Others, MemRow
    <3>2. [mem[p] EXCEPT !.full = TRUE, !.blacklist = b] \in MemRow
      BY <3>1 DEF MemRow
    <3>. QED BY <3>2
  <2>2. mem' \in [Replicas -> MemRow]
    BY <1>2, <2>1 DEF FiveMinutesPass
  <2>3. Others'
    BY <1>0, <1>2, <2>2 DEF FiveMinutesPass, Others
  <2>. QED BY <1>0, <1>2, <2>3, Untouched DEF MonitorInv, FiveMinutesPass
<1>3. ASSUME NEW p \in Replicas, StartedLeading(p) PROVE MonitorInv'
  BY <1>0, <1>3, Untouched DEF MonitorInv, StartedLeading, Others
<1>4. ASSUME NEW p \in Replicas, StoppedLeading(p) PROVE MonitorInv'
  BY <1>0, <1>4, Untouched DEF MonitorInv, StoppedLeading, Others
<1>5. ASSUME NEW p \in Replicas, Restart(p) PROVE MonitorInv'
  <2>1. Forgotten \in MemRow
    BY DEF Forgotten, MemRow
  <2>2. Others'
    BY <1>0, <1>5, <2>1 DEF Restart, Others, Fault
  <2>3. Rows' /\ Cycles'
    BY <1>0, <1>5, CycleWritten, IdleIsCycle DEF Restart, Rows
  <2>. QED BY <2>2, <2>3 DEF MonitorInv
<1>. QED BY <1>1, <1>2, <1>3, <1>4, <1>5

\* The row a refresh leaves is a row, in the status it had or in one that some rule leads
\* to from it: the condition on the status.
LEMMA RefreshedRow ==
  ASSUME NEW r \in Row, NEW seen \in SeenRow
  PROVE  /\ Refreshed(r, seen) \in Row
         /\ Refreshed(r, seen).status = r.status \/ Refreshed(r, seen).status \in Leads[r.status]
<1>1. r.status \in Status /\ seen.to \in Status
  BY DEF Row, SeenRow
<1>2. CASE seen.to # seen.status
  <2>1. Refreshed(r, seen) = [r EXCEPT !.status = IF r.status = seen.status THEN seen.to ELSE r.status]
    BY <1>2 DEF Refreshed
  <2>2. Refreshed(r, seen) \in Row
    BY <1>1, <2>1 DEF Row
  <2>3. Refreshed(r, seen).status = IF r.status = seen.status THEN seen.to ELSE r.status
    BY <2>1 DEF Row
  <2>4. seen.to \in Leads[seen.status]
    BY <1>2 DEF SeenRow
  <2>. QED BY <2>2, <2>3, <2>4
<1>3. CASE seen.to = seen.status
  BY <1>1, <1>3 DEF Refreshed, Row
<1>. QED BY <1>2, <1>3

\* The steps of a cycle keep the invariant.
LEMMA CycleStep ==
  ASSUME MonitorInv, NEW p \in Replicas, Cycle(p)
  PROVE  MonitorInv'
<1>. DEFINE cy == cycle[p]
<1>0. Rows /\ Cycles /\ Others /\ IsCycle(cy)
  BY DEF MonitorInv, Cycles
<1>1. ASSUME NEW new, IsCycle(new), cycle' = [cycle EXCEPT ![p] = new], UNCHANGED row, Others'
      PROVE  MonitorInv'
  BY <1>0, <1>1, CycleWritten DEF MonitorInv, Rows
<1>2. cycle = [q \in Replicas |-> cycle[q]]
  BY <1>0 DEF Cycles
<1>3. CASE StartCycle(p)
  <2>. DEFINE skipping == mem[p].cursor # None
              full == mem[p].full
  <2>1. PICK triggered \in SUBSET Clusters :
          cycle' = [cycle EXCEPT ![p] =
            [Idle EXCEPT !.pc = "load", !.full = full, !.skipping = skipping, !.ids = triggered]]
    BY <1>3 DEF StartCycle
  <2>. HIDE DEF skipping, full
  <2>. DEFINE new == [Idle EXCEPT !.pc = "load", !.full = full, !.skipping = skipping, !.ids = triggered]
  <2>2. IsCycle(new)
    <3>1. new = [pc |-> "load", full |-> full, ids |-> triggered, batch |-> Idle.batch,
                 skipping |-> skipping, last |-> Idle.last, late |-> Idle.late]
      BY IdleIsCycle, StartFields
    <3>. HIDE DEF new
    <3>2. DOMAIN Idle.batch = {}
      BY DEF Idle
    <3>. QED BY <3>1, <3>2, IdleIsCycle DEF IsCycle
  <2>3. Others' /\ UNCHANGED row
    <3>1. mem' = [mem EXCEPT ![p].full = FALSE]
      BY <1>3 DEF StartCycle
    <3>2. mem' \in [Replicas -> MemRow]
      BY <1>0, <3>1 DEF Others, MemRow
    <3>. QED BY <1>0, <1>3, <3>2 DEF StartCycle, Others
  <2>. HIDE DEF new
  <2>. QED BY <1>1, <2>1, <2>2, <2>3 DEF new
<1>4. CASE LoadBatch(p)
  <2>. DEFINE slice == Slice(cy)
              rows == {c \in slice : Monitored(c)}
              batch == [c \in rows |-> Seen(row[c])]
              pc == IF rows = {} THEN "load" ELSE "rows"
              ids == {c \in cy.ids : \A d \in slice : d < c}
              new == [cy EXCEPT !.pc = pc, !.batch = batch, !.ids = ids]
  <2>1. slice \subseteq Clusters
    BY <1>0, FirstSubset DEF Slice, IsCycle
  <2>. HIDE DEF slice
  <2>2. rows \subseteq Clusters /\ DOMAIN batch = rows /\ \A c \in rows : batch[c] = Seen(row[c])
    BY <2>1
  <2>3. \A c \in rows : batch[c] \in SeenRow
    BY <1>0, <2>2, SeenType DEF Rows
  <2>4. IsBatch(batch)
    BY <2>2, <2>3 DEF IsBatch
  <2>5. pc \in {"load", "rows"} /\ ids \subseteq cy.ids
    OBVIOUS
  <2>. HIDE DEF rows, batch, pc, ids, cy
  <2>9. new = [pc |-> pc, full |-> cy.full, ids |-> ids, batch |-> batch,
               skipping |-> cy.skipping, last |-> cy.last, late |-> cy.late]
    BY <1>0, LoadFields
  <2>6. IsCycle(new)
    BY <1>0, <2>2, <2>3, <2>4, <2>5, <2>9 DEF IsCycle
  <2>7. cycle' = [cycle EXCEPT ![p] = new]
    BY <1>2, <1>4 DEF LoadBatch, slice, rows, batch, pc, ids, cy
  <2>8. Others' /\ UNCHANGED row
    BY <1>0, <1>4 DEF LoadBatch, Others
  <2>. HIDE DEF new
  <2>. QED BY <1>1, <2>6, <2>7, <2>8
<1>5. CASE CycleEnds(p)
  <2>1. Others'
    BY <1>0, <1>5 DEF CycleEnds, Others, MemRow
  <2>. QED BY <1>1, <1>5, <2>1, IdleIsCycle DEF CycleEnds
<1>6. CASE QueryFails(p)
  <2>1. Others'
    BY <1>0, <1>6 DEF QueryFails, Others, Fault
  <2>. QED BY <1>1, <1>6, <2>1, IdleIsCycle DEF QueryFails
<1>7. CASE CycleTimesOut(p)
  <2>1. Others' /\ UNCHANGED row
    BY <1>0, <1>7 DEF CycleTimesOut, Others, Overrun
  <2>. DEFINE new == [cy EXCEPT !.late = TRUE]
  <2>2. new = [pc |-> cy.pc, full |-> cy.full, ids |-> cy.ids, batch |-> cy.batch,
               skipping |-> cy.skipping, last |-> cy.last, late |-> TRUE]
    BY <1>0, LateFields
  <2>3. IsCycle(new)
    BY <1>0, <2>2 DEF IsCycle
  <2>4. cycle' = [cycle EXCEPT ![p] = new]
    BY <1>2, <1>7 DEF CycleTimesOut
  <2>. HIDE DEF new
  <2>. QED BY <1>1, <2>1, <2>3, <2>4
<1>8. CASE NextRow(p)
  <2>1. PICK c \in Candidates(cy) :
          \/ /\ cycle' = [cycle EXCEPT ![p] = [Dropped(cy, c) EXCEPT !.skipping = c # mem[p].cursor]]
             /\ UNCHANGED mem
          \/ cycle' = [cycle EXCEPT ![p] = Idle] /\ mem' = [mem EXCEPT ![p].cursor = cy.last]
          \/ cycle' = [cycle EXCEPT ![p] = Idle] /\ UNCHANGED mem
          \/ cycle' = [cycle EXCEPT ![p] = Dropped(cy, c)] /\ UNCHANGED mem
          \/ cycle' = [cycle EXCEPT ![p].pc = "process", ![p].last = c] /\ UNCHANGED mem
    BY <1>8 DEF NextRow
  <2>2. c \in DOMAIN cy.batch /\ c \in Clusters
    BY <1>0, FirstSubset DEF Candidates, IsCycle, IsBatch
  <2>3. Others' /\ UNCHANGED row
    <3>1. mem' \in [Replicas -> MemRow]
      BY <1>0, <2>1 DEF IsCycle, Others, MemRow
    <3>. QED BY <1>0, <1>8, <3>1 DEF NextRow, Others
  <2>4. IsCycle(Dropped(cy, c)) /\ Dropped(cy, c).pc \in {"load", "rows"}
    BY <1>0, DroppedIsCycle
  <2>5. CASE cycle' = [cycle EXCEPT ![p] = [Dropped(cy, c) EXCEPT !.skipping = c # mem[p].cursor]]
    <3>. DEFINE old == Dropped(cy, c)
                new == [old EXCEPT !.skipping = c # mem[p].cursor]
    <3>. HIDE DEF old
    <3>0. IsCycle(old) /\ cycle' = [cycle EXCEPT ![p] = new]
      BY <2>4, <2>5 DEF old
    <3>1. new = [pc |-> old.pc, full |-> old.full, ids |-> old.ids, batch |-> old.batch,
                 skipping |-> c # mem[p].cursor, last |-> old.last, late |-> old.late]
      BY <3>0 DEF IsCycle
    <3>2. IsCycle(new)
      BY <3>0, <3>1 DEF IsCycle
    <3>. HIDE DEF new
    <3>. QED BY <1>1, <2>3, <3>0, <3>2
  <2>6. CASE cycle' = [cycle EXCEPT ![p] = Idle]
    BY <1>1, <2>3, <2>6, IdleIsCycle
  <2>7. CASE cycle' = [cycle EXCEPT ![p] = Dropped(cy, c)]
    BY <1>1, <2>3, <2>4, <2>7
  <2>8. CASE cycle' = [cycle EXCEPT ![p].pc = "process", ![p].last = c]
    <3>. DEFINE new == [cy EXCEPT !.pc = "process", !.last = c]
    <3>. HIDE DEF cy
    <3>1. new = [pc |-> "process", full |-> cy.full, ids |-> cy.ids, batch |-> cy.batch,
                 skipping |-> cy.skipping, last |-> c, late |-> cy.late]
      BY <1>0, RowFields
    <3>2. IsCycle(new)
      BY <1>0, <2>2, <3>1 DEF IsCycle
    <3>3. cycle' = [cycle EXCEPT ![p] = new]
      BY <1>2, <2>8 DEF cy
    <3>. HIDE DEF new
    <3>. QED BY <1>1, <2>3, <3>2, <3>3
  <2>. QED BY <2>1, <2>5, <2>6, <2>7, <2>8
<1>9. ASSUME cy.pc = "process", Others',
             \/ row' = [row EXCEPT ![cy.last] = Refreshed(row[cy.last], cy.batch[cy.last])]
             \/ UNCHANGED row,
             cycle' = [cycle EXCEPT ![p] = Dropped(cy, cy.last)]
      PROVE  MonitorInv'
  <2>1. cy.last \in Clusters /\ cy.batch[cy.last] \in SeenRow
    BY <1>0, <1>9 DEF IsCycle, IsBatch
  <2>2. Refreshed(row[cy.last], cy.batch[cy.last]) \in Row
    BY <1>0, <2>1, RefreshedRow DEF Rows
  <2>3. Rows'
    BY <1>0, <1>9, <2>1, <2>2 DEF Rows
  <2>. QED BY <1>0, <1>9, <2>3, DroppedIsCycle, CycleWritten DEF MonitorInv
<1>10. CASE ProcessCluster(p)
  <2>1. Others'
    BY <1>0, <1>10 DEF ProcessCluster, Others
  <2>. QED BY <1>9, <1>10, <2>1 DEF ProcessCluster
<1>11. CASE ProcessFails(p)
  <2>1. Others' /\ UNCHANGED row
    BY <1>0, <1>11 DEF ProcessFails, Others, Fault
  <2>. QED BY <1>0, <1>1, <1>11, <2>1, DroppedIsCycle DEF ProcessFails
<1>12. CASE DeadlineExceeded(p)
  <2>1. cy.last \in Clusters
    BY <1>0, <1>12 DEF DeadlineExceeded, IsCycle, IsBatch
  <2>2. mem' \in [Replicas -> MemRow]
    <3>. DEFINE m == [mem[p] EXCEPT !.blacklist = [@ EXCEPT ![cy.last] = BlacklistFor]]
    <3>0. mem[p] \in MemRow /\ mem \in [Replicas -> MemRow]
      BY <1>0 DEF Others
    <3>1. [mem[p].blacklist EXCEPT ![cy.last] = BlacklistFor] \in [Clusters -> 0..BlacklistFor]
      BY <2>1, <3>0 DEF MemRow
    <3>2. m \in MemRow
      BY <3>0, <3>1 DEF MemRow
    <3>3. mem' = [mem EXCEPT ![p] = m]
      BY <1>12, <3>0 DEF DeadlineExceeded
    <3>. HIDE DEF m
    <3>. QED BY <3>0, <3>2, <3>3
  <2>3. Others'
    BY <1>0, <1>12, <2>2 DEF DeadlineExceeded, Others, Fault
  <2>. QED BY <1>9, <1>12, <2>3 DEF DeadlineExceeded
<1>. QED BY <1>3, <1>4, <1>5, <1>6, <1>7, <1>8, <1>10, <1>11, <1>12 DEF Cycle

----------------------------------------------------------------------------
(* The theorems *)

\* The invariant is inductive.
LEMMA MonitorStep == MonitorInv /\ [Next]_vars => MonitorInv'
<1>. SUFFICES ASSUME MonitorInv, [Next]_vars PROVE MonitorInv'
  OBVIOUS
<1>1. CASE UNCHANGED vars
  BY <1>1, Untouched DEF vars, MonitorInv, Others
<1>2. CASE Next
  BY <1>2, ClusterStep, LeaderStep, CycleStep DEF Next
<1>. QED BY <1>1, <1>2

\* So it holds always.
LEMMA MonitorAlways == Spec => []MonitorInv
  BY MonitorInit, MonitorStep, PTL DEF Spec

\* For any number of replicas and clusters rows, leases, memories and cycles keep their
\* types; in particular a cycle is never at a row it did not load.
THEOREM MonitorTypeCorrect == Spec => []TypeOK
  BY MonitorAlways, MonitorInvImplies, PTL

\* However many replicas believe to be leader, and however old the rows are that their
\* refreshes were decided on, although a status may have come back in between: a cluster
\* that was installed or deleted stays so, and one in error is left by a request only.
THEOREM EndedClustersStayEnded == Spec => EndedStaysEnded
<1>1. MonitorInv /\ [Next]_vars => [\A c \in Clusters : StaysEnded(c)]_vars
  <2>. SUFFICES ASSUME MonitorInv, Next, NEW c \in Clusters, row'[c].status # row[c].status,
                       row[c].status \in {"error", "installed", "deleted"}
                PROVE  row[c].status = "error" /\ row'[c].status \in {"insufficient", "deleted"}
    BY DEF StaysEnded
  <2>0. row \in [Clusters -> Row] /\ Cycles
    BY DEF MonitorInv, Rows
  <2>1. ASSUME NEW p \in Replicas, cycle[p].pc = "process",
               row' = [row EXCEPT ![cycle[p].last] = Refreshed(@, cycle[p].batch[cycle[p].last])]
        PROVE  FALSE
    <3>1. cycle[p].last \in Clusters /\ cycle[p].batch[cycle[p].last] \in SeenRow
      BY <2>0, <2>1 DEF Cycles, IsCycle, IsBatch
    <3>2. c = cycle[p].last /\ row'[c] = Refreshed(row[c], cycle[p].batch[c])
      BY <2>0, <2>1, <3>1
    <3>3. row'[c].status = row[c].status \/ row'[c].status \in Leads[row[c].status]
      BY <2>0, <3>1, <3>2, RefreshedRow
    <3>. QED BY <3>3, LeadsToStatus
  <2>2. ASSUME NEW d \in Clusters,
               \/ ConditionsChange(d) \/ UpdateLogsProgress(d) \/ IsLogCollectionTimedOut(d)
        PROVE  FALSE
    <3>0. row[d] \in Row
      BY <2>0
    <3>1. CASE ConditionsChange(d)
      <4>1. PICK s : row' = [row EXCEPT ![d].asks = s, ![d].changes = @ + 1]
        BY <3>1 DEF ConditionsChange
      <4>2. [row[d] EXCEPT !.asks = s, !.changes = @ + 1].status = row[d].status
        BY <3>0 DEF Row
      <4>3. row' = [row EXCEPT ![d] = [row[d] EXCEPT !.asks = s, !.changes = @ + 1]]
        BY <2>0, <4>1
      <4>4. row'[c].status = row[c].status
        BY <2>0, <4>2, <4>3
      <4>. QED BY <4>4
    <3>2. CASE UpdateLogsProgress(d) \/ IsLogCollectionTimedOut(d)
      <4>1. PICK logs : row' = [row EXCEPT ![d].logs = logs]
        BY <3>2 DEF UpdateLogsProgress, IsLogCollectionTimedOut
      <4>2. row'[c].status = row[c].status
        BY <2>0, <3>0, <4>1 DEF Row
      <4>. QED BY <4>2
    <3>. QED BY <2>2, <3>1, <3>2
  <2>3. ASSUME NEW d \in Clusters,
               PrepareForInstallation(d) \/ ResetCluster(d) \/ DeregisterCluster(d)
        PROVE  row[c].status = "error" /\ row'[c].status \in {"insufficient", "deleted"}
    <3>1. c = d
      BY <2>0, <2>3 DEF PrepareForInstallation, ResetCluster, DeregisterCluster, Moves
    <3>2. row[c] \in Row
      BY <2>0
    <3>3. CASE DeregisterCluster(c)
      BY <2>0, <3>2, <3>3 DEF DeregisterCluster, Row
    <3>4. CASE ResetCluster(c)
      BY <2>0, <3>4 DEF ResetCluster, Moves
    <3>. QED BY <2>3, <3>1, <3>3, <3>4 DEF PrepareForInstallation
  <2>. QED
    BY <2>1, <2>2, <2>3
    DEF Next, vars, LeaseExpires, FiveMinutesPass, StartedLeading, StoppedLeading, Restart, Cycle,
        StartCycle, LoadBatch, CycleEnds, QueryFails, CycleTimesOut, NextRow, ProcessCluster,
        ProcessFails, DeadlineExceeded
<1>. QED BY <1>1, MonitorAlways, PTL DEF Spec, EndedStaysEnded
=============================================================================
