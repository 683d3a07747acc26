--------------------------- MODULE ExchangeProofs ----------------------------
(***************************************************************************)
(* Theorems about cross-device sync and the integration runtime, for every *)
(* number of devices, rows, cycles, prompts, messages and restarts.        *)
(***************************************************************************)
EXTENDS CrossDeviceSync, IntegrationExchange, FilterProofs, FiniteSetTheorems, TLAPS

-----------------------------------------------------------------------------
(***************************************************************************)
(* Cross-device sync.                                                      *)
(***************************************************************************)

(* A row without a status is no row. *)
SyRowOK(row) == row \in SyRows /\ (row.status = -1 => row = SyNoRow)

(* A device has its own row or, of larger devices that started without     *)
(* their watermark, rows that kept their origin between the two.           *)
SyHoldOK(d, i, row) ==
  /\ SyRowOK(row)
  /\ row # SyNoRow => /\ d = i \/ (d < i /\ i \in syUnread)
                      /\ row.origin = 0 \/ row.origin \in d..i

(* A row a device hands out left a device that had no watermark. *)
SyOutOK(d, i, row) ==
  /\ SyRowOK(row)
  /\ row # SyNoRow => d <= i /\ i \in syUnread /\ row.origin \in d..i

SyHoldsOK == \A d \in SyDevice, i \in SyMakers : SyHoldOK(d, i, syRow[d][i])
SyFilesOK == \A d \in SyDevice, i \in SyMakers : SyOutOK(d, i, syFile[d][i])
SyCyclesOK ==
  \A c \in SyCycles : /\ syCycle[c].mark >= syCycle[c].dev
                      /\ \A i \in SyMakers : SyOutOK(syCycle[c].dev, i, syCycle[c].out[i])
SySinceOK ==
  \A d \in SyDevice : sySince[d] \in {0, d} /\ (d \in SyMakers /\ sySince[d] = 0 => d \in syUnread)

SyInv == SyTypeOK /\ SyHoldsOK /\ SyFilesOK /\ SyCyclesOK /\ SySinceOK

(* No row is in order anywhere. *)
LEMMA SyNoRowOK ==
  /\ SyNoRow \in SyRows /\ SyNone \in [SyMakers -> SyRows]
  /\ \A i \in SyMakers : SyNone[i] = SyNoRow
  /\ \A d, i : SyOutOK(d, i, SyNoRow)
<1>1. SyNoRow \in SyRows
  BY SyAssumption DEF SyNoRow, SyRows
<1> QED
  BY <1>1 DEF SyNone, SyOutOK, SyRowOK

(* A cycle that is over is in order. *)
LEMMA SyNoCycleOK ==
  /\ SyNoCycle \in SyCycleState /\ SyNoCycle.mark >= SyNoCycle.dev
  /\ \A i \in SyMakers : SyOutOK(SyNoCycle.dev, i, SyNoCycle.out[i])
<1>1. 1 \in SyDevice
  BY SyAssumption DEF SyDevice
<1>2. SyNoCycle \in SyCycleState /\ SyNoCycle.mark = 1 /\ SyNoCycle.dev = 1 /\ SyNoCycle.out = SyNone
  BY <1>1, SyNoRowOK DEF SyNoCycle, SyCycleState
<1> QED
  BY <1>2, SyNoRowOK

(* The states the devices start in. *)
LEMMA SyInitInv == SyInit => SyInv
<1> SUFFICES ASSUME SyInit PROVE SyInv
  OBVIOUS
<1>1. /\ \A d \in SyDevice, i \in SyMakers : syRow[d][i] = SyNoRow /\ syFile[d][i] = SyNoRow
      /\ \A c \in SyCycles : syCycle[c] = SyNoCycle
  BY SyNoRowOK DEF SyInit
<1>2. SyTypeOK
  BY SyNoRowOK, SyNoCycleOK DEF SyInit, SyTypeOK
<1>3. SyHoldsOK /\ SyFilesOK
  BY <1>1, SyNoRowOK DEF SyHoldsOK, SyHoldOK, SyFilesOK, SyRowOK
<1>4. SyCyclesOK
  BY <1>1, SyNoCycleOK DEF SyCyclesOK
<1>5. SySinceOK
  BY DEF SyInit, SySinceOK, SySeed
<1> QED
  BY <1>2, <1>3, <1>4, <1>5 DEF SyInv

(* One device's rows change. *)
LEMMA SyRowMoves ==
  ASSUME SyInv, NEW d \in SyDevice, NEW r \in [SyMakers -> SyRows],
         syRow' = [syRow EXCEPT ![d] = r], UNCHANGED syUnread,
         \A i \in SyMakers : SyHoldOK(d, i, r[i])
  PROVE  SyHoldsOK' /\ syRow' \in [SyDevice -> [SyMakers -> SyRows]]
<1>1. /\ syRow' \in [SyDevice -> [SyMakers -> SyRows]]
      /\ \A e \in SyDevice : syRow'[e] = IF e = d THEN r ELSE syRow[e]
  BY DEF SyInv, SyTypeOK
<1>2. \A e \in SyDevice, i \in SyMakers : SyHoldOK(e, i, syRow'[e][i])
  BY <1>1 DEF SyInv, SyHoldsOK
<1> QED
  BY <1>1, <1>2 DEF SyHoldsOK, SyHoldOK

(* One row of one device changes. *)
LEMMA SyOneRowMoves ==
  ASSUME SyInv, NEW d \in SyDevice, NEW i \in SyMakers, NEW row \in SyRows,
         syRow' = [syRow EXCEPT ![d] = [@ EXCEPT ![i] = row]], UNCHANGED syUnread,
         SyHoldOK(d, i, row)
  PROVE  SyHoldsOK' /\ syRow' \in [SyDevice -> [SyMakers -> SyRows]]
<1> DEFINE r == [syRow[d] EXCEPT ![i] = row]
<1>1. /\ r \in [SyMakers -> SyRows]
      /\ \A j \in SyMakers : r[j] = IF j = i THEN row ELSE syRow[d][j]
  BY DEF SyInv, SyTypeOK
<1>2. \A j \in SyMakers : SyHoldOK(d, j, r[j])
  BY <1>1 DEF SyInv, SyHoldsOK
<1>3. syRow' = [syRow EXCEPT ![d] = r]
  OBVIOUS
<1> HIDE DEF r
<1> QED
  BY <1>1, <1>2, <1>3, SyRowMoves

(* One cycle changes. *)
LEMMA SyCycleMoves ==
  ASSUME SyInv, NEW c \in SyCycles, NEW r \in SyCycleState,
         syCycle' = [syCycle EXCEPT ![c] = r], UNCHANGED syUnread,
         r.mark >= r.dev, \A i \in SyMakers : SyOutOK(r.dev, i, r.out[i])
  PROVE  SyCyclesOK' /\ syCycle' \in [SyCycles -> SyCycleState]
<1>1. /\ syCycle' \in [SyCycles -> SyCycleState]
      /\ \A b \in SyCycles : syCycle'[b] = IF b = c THEN r ELSE syCycle[b]
  BY DEF SyInv, SyTypeOK
<1>2. \A b \in SyCycles : /\ syCycle'[b].mark >= syCycle'[b].dev
                          /\ \A i \in SyMakers : SyOutOK(syCycle'[b].dev, i, syCycle'[b].out[i])
  BY <1>1 DEF SyInv, SyCyclesOK
<1> QED
  BY <1>1, <1>2 DEF SyCyclesOK, SyOutOK

(* One device's file changes. *)
LEMMA SyFileMoves ==
  ASSUME SyInv, NEW d \in SyDevice, NEW r \in [SyMakers -> SyRows],
         syFile' = [syFile EXCEPT ![d] = r], UNCHANGED syUnread,
         \A i \in SyMakers : SyOutOK(d, i, r[i])
  PROVE  SyFilesOK' /\ syFile' \in [SyDevice -> [SyMakers -> SyRows]]
<1>1. /\ syFile' \in [SyDevice -> [SyMakers -> SyRows]]
      /\ \A e \in SyDevice : syFile'[e] = IF e = d THEN r ELSE syFile[e]
  BY DEF SyInv, SyTypeOK
<1>2. \A e \in SyDevice, i \in SyMakers : SyOutOK(e, i, syFile'[e][i])
  BY <1>1 DEF SyInv, SyFilesOK
<1> QED
  BY <1>1, <1>2 DEF SyFilesOK, SyOutOK

(* What a step leaves alone stays in order while no device starts. *)
LEMMA SyStays ==
  ASSUME SyInv, UNCHANGED syUnread
  PROVE  /\ syRow' = syRow => SyHoldsOK'
         /\ syFile' = syFile => SyFilesOK'
         /\ syCycle' = syCycle => SyCyclesOK'
         /\ sySince' = sySince => SySinceOK'
<1>1. syRow' = syRow => SyHoldsOK'
  BY DEF SyInv, SyHoldsOK, SyHoldOK
<1>2. syFile' = syFile => SyFilesOK'
  BY DEF SyInv, SyFilesOK, SyOutOK
<1>3. syCycle' = syCycle => SyCyclesOK'
  BY DEF SyInv, SyCyclesOK, SyOutOK
<1>4. sySince' = sySince => SySinceOK'
  BY DEF SyInv, SySinceOK
<1> QED
  BY <1>1, <1>2, <1>3, <1>4

(* A merge keeps the higher status, and rows that a larger device hands    *)
(* out are in order on the device that takes them.                         *)
LEMMA SyMergeOK ==
  ASSUME NEW d \in SyDevice, NEW e \in SyDevice, d < e, NEW i \in SyMakers,
         NEW local, NEW remote, SyHoldOK(d, i, local), SyOutOK(e, i, remote)
  PROVE  /\ SyMergeRow(local, remote) \in SyRows
         /\ SyHoldOK(d, i, SyMergeRow(local, remote))
         /\ SyMergeRow(local, remote).status >= local.status
<1>1. local \in SyRows /\ remote \in SyRows /\ SyMergeRow(local, remote) \in {local, remote}
  BY DEF SyHoldOK, SyOutOK, SyRowOK, SyMergeRow
<1>2. SyMergeRow(local, remote).status >= local.status
  BY <1>1 DEF SyMergeRow, SyRows
<1>3. SyHoldOK(d, i, remote)
  BY SyAssumption DEF SyHoldOK, SyOutOK, SyDevice
<1> QED
  BY <1>1, <1>2, <1>3

(* A device makes, decides about or saves a row. *)
LEMMA SyRowStep ==
  ASSUME SyInv, NEW d \in SyDevice, NEW i \in SyMakers,
         \/ d = i /\ SyCreate(d)
         \/ SySave(d, i)
         \/ \E status \in 1..SyMaxStatus : SyDecide(d, i, status)
  PROVE  SyInv'
<1>1. syRow[d][i] \in SyRows /\ SyHoldOK(d, i, syRow[d][i]) /\ 0 \in -1..SyMaxStatus
  BY SyAssumption DEF SyInv, SyTypeOK, SyHoldsOK
<1>2. UNCHANGED <<syFile, sySince, syCycle, syUnread>>
  BY DEF SyCreate, SySave, SyDecide
<1>3. \E row \in SyRows : /\ syRow' = [syRow EXCEPT ![d] = [@ EXCEPT ![i] = row]]
                          /\ SyHoldOK(d, i, row)
  <2>1. CASE d = i /\ SyCreate(d)
    <3>1. [syRow[d][i] EXCEPT !.status = 0] \in SyRows
      BY <1>1 DEF SyRows
    <3>2. SyHoldOK(d, i, [syRow[d][i] EXCEPT !.status = 0])
      BY <1>1, <2>1, <3>1 DEF SyHoldOK, SyRowOK, SyCreate, SyHas, SyRows, SyNoRow
    <3>3. syRow' = [syRow EXCEPT ![d] = [@ EXCEPT ![i] = [syRow[d][i] EXCEPT !.status = 0]]]
      BY <2>1 DEF SyCreate
    <3> QED
      BY <3>1, <3>2, <3>3
  <2>2. CASE SySave(d, i)
    <3> DEFINE row == [status |-> 0, origin |-> 0]
    <3>1. row \in SyRows /\ row.status = 0 /\ row.origin = 0
      BY <1>1, SyAssumption DEF SyRows
    <3>2. SyHoldOK(d, i, row)
      BY <1>1, <2>2, <3>1 DEF SyHoldOK, SyRowOK, SySave, SyHas
    <3>3. syRow' = [syRow EXCEPT ![d] = [@ EXCEPT ![i] = row]]
      BY <2>2 DEF SySave
    <3> QED
      BY <3>1, <3>2, <3>3
  <2>3. CASE \E status \in 1..SyMaxStatus : SyDecide(d, i, status)
    <3>1. PICK status \in 1..SyMaxStatus : SyDecide(d, i, status)
      BY <2>3
    <3> DEFINE row == [syRow[d][i] EXCEPT !.status = status]
    <3>2. row \in SyRows /\ row.status = status /\ row.origin = syRow[d][i].origin
      BY <1>1 DEF SyRows
    <3>3. syRow' = [syRow EXCEPT ![d] = [@ EXCEPT ![i] = row]]
      BY <3>1 DEF SyDecide
    <3> HIDE DEF row
    <3>4. SyHoldOK(d, i, row)
      BY <1>1, <3>1, <3>2 DEF SyHoldOK, SyRowOK, SyDecide, SyHas
    <3> QED
      BY <3>2, <3>3, <3>4
  <2> QED
    BY <2>1, <2>2, <2>3
<1>4. SyHoldsOK' /\ syRow' \in [SyDevice -> [SyMakers -> SyRows]]
  BY <1>2, <1>3, SyOneRowMoves
<1>5. SyTypeOK'
  BY <1>2, <1>4 DEF SyInv, SyTypeOK
<1> QED
  BY <1>2, <1>4, <1>5, SyStays DEF SyInv

(* The file a pull takes is of a device larger than the cycle's. *)
LEMMA SyNextFile ==
  ASSUME SyInv, NEW c \in SyCycles, SyNewer(c) # {}
  PROVE  Min(SyNewer(c)) \in SyDevice /\ syCycle[c].dev < Min(SyNewer(c))
<1>1. SyNewer(c) \subseteq Nat
  BY DEF SyNewer, SyDevice
<1>2. Min(SyNewer(c)) \in SyNewer(c)
  BY <1>1, MinOfNats
<1>3. syCycle[c] \in SyCycleState /\ syCycle[c].mark >= syCycle[c].dev
  BY DEF SyInv, SyTypeOK, SyCyclesOK
<1> QED
  BY <1>2, <1>3 DEF SyNewer, SyCycleState, SyDevice

(* A cycle begins, ends, or finds nothing left to pull. *)
LEMMA SyCycleOnlyStep ==
  ASSUME SyInv,
         \/ \E d \in SyDevice : SyBegin(d)
         \/ \E c \in SyCycles : SyFail(c)
         \/ \E c \in SyCycles : SyPulled(c)
  PROVE  SyInv'
<1>1. UNCHANGED <<syRow, syFile, sySince, syUnread>>
  BY DEF SyBegin, SyFail, SyPulled
<1>2. \E c \in SyCycles, r \in SyCycleState :
        /\ syCycle' = [syCycle EXCEPT ![c] = r] /\ r.mark >= r.dev
        /\ \A i \in SyMakers : SyOutOK(r.dev, i, r.out[i])
  <2>1. ASSUME NEW d \in SyDevice, SyBegin(d) PROVE <1>2!:
    <3> DEFINE free == {c \in SyCycles : syCycle[c].at = "none"}
               r == [at |-> "pull", dev |-> d, mark |-> d, out |-> SyNone]
    <3>1. free \subseteq Nat /\ free \subseteq SyCycles
      BY DEF SyCycles
    <3>2. free # {} /\ syCycle' = [syCycle EXCEPT ![Min(free)] = r]
      BY <2>1 DEF SyBegin
    <3>3. r \in SyCycleState /\ r.mark = d /\ r.dev = d /\ r.out = SyNone
      BY SyNoRowOK DEF SyCycleState
    <3>4. d \in Nat
      BY DEF SyDevice
    <3> HIDE DEF free, r
    <3>5. Min(free) \in SyCycles
      BY <3>1, <3>2, MinOfNats
    <3>6. r.mark >= r.dev /\ \A i \in SyMakers : SyOutOK(r.dev, i, r.out[i])
      BY <3>3, <3>4, SyNoRowOK
    <3> QED
      BY <3>2, <3>3, <3>5, <3>6, Zenon
  <2>2. ASSUME NEW c \in SyCycles, SyFail(c) PROVE <1>2!:
    BY <2>2, SyNoCycleOK DEF SyFail
  <2>3. ASSUME NEW c \in SyCycles, SyPulled(c) PROVE <1>2!:
    <3> DEFINE r == [syCycle[c] EXCEPT !.at = "push", !.mark = syCycle[c].dev]
    <3>1. syCycle[c] \in SyCycleState /\ \A i \in SyMakers : SyOutOK(syCycle[c].dev, i, syCycle[c].out[i])
      BY DEF SyInv, SyTypeOK, SyCyclesOK
    <3>2. /\ r \in SyCycleState /\ r.mark = syCycle[c].dev /\ r.dev = syCycle[c].dev
          /\ r.out = syCycle[c].out
      BY <3>1 DEF SyCycleState
    <3>3. syCycle' = [syCycle EXCEPT ![c] = r]
      BY <2>3 DEF SyPulled, SyInv, SyTypeOK
    <3>4. syCycle[c].dev \in Nat
      BY <3>1 DEF SyCycleState, SyDevice
    <3> HIDE DEF r
    <3>5. r.mark >= r.dev /\ \A i \in SyMakers : SyOutOK(r.dev, i, r.out[i])
      BY <3>1, <3>2, <3>4
    <3> QED
      BY <3>2, <3>3, <3>5, Zenon
  <2> QED
    BY <2>1, <2>2, <2>3
<1>3. SyCyclesOK' /\ syCycle' \in [SyCycles -> SyCycleState]
  BY <1>1, <1>2, SyCycleMoves
<1>4. SyTypeOK'
  BY <1>1, <1>3 DEF SyInv, SyTypeOK
<1> QED
  BY <1>1, <1>3, <1>4, SyStays DEF SyInv

(* A pull merges the rows of a larger device, and no status falls. *)
LEMMA SyPullStep ==
  ASSUME SyInv, NEW c \in SyCycles, SyPull(c)
  PROVE  SyInv' /\ \A d \in SyDevice, i \in SyMakers : syRow'[d][i].status >= syRow[d][i].status
<1> DEFINE d == syCycle[c].dev
           e == Min(SyNewer(c))
           rows == [i \in SyMakers |-> SyMergeRow(syRow[d][i], syFile[e][i])]
           r == [syCycle[c] EXCEPT !.mark = e]
<1>1. syCycle[c] \in SyCycleState /\ d \in SyDevice /\ e \in SyDevice /\ d < e
  BY SyNextFile DEF SyInv, SyTypeOK, SyPull, SyCycleState
<1>2. /\ syRow' = [syRow EXCEPT ![d] = rows] /\ syCycle' = [syCycle EXCEPT ![c] = r]
      /\ UNCHANGED <<syFile, sySince, syUnread>>
  BY <1>1 DEF SyPull, SyInv, SyTypeOK
<1>3. r \in SyCycleState /\ r.mark = e /\ r.dev = d /\ r.out = syCycle[c].out
  BY <1>1 DEF SyCycleState
<1> HIDE DEF d, e, r
<1>4. \A i \in SyMakers : SyHoldOK(d, i, syRow[d][i]) /\ SyOutOK(e, i, syFile[e][i])
  BY <1>1 DEF SyInv, SyHoldsOK, SyFilesOK
<1>5. \A i \in SyMakers :
        LET row == SyMergeRow(syRow[d][i], syFile[e][i])
        IN  row \in SyRows /\ SyHoldOK(d, i, row) /\ row.status >= syRow[d][i].status
  BY <1>1, <1>4, SyMergeOK
<1>6. /\ rows \in [SyMakers -> SyRows]
      /\ \A i \in SyMakers : SyHoldOK(d, i, rows[i]) /\ rows[i].status >= syRow[d][i].status
  BY <1>5
<1> HIDE DEF rows
<1>7. SyHoldsOK' /\ syRow' \in [SyDevice -> [SyMakers -> SyRows]]
  BY <1>1, <1>2, <1>6, SyRowMoves
<1>8. r.mark >= r.dev /\ \A i \in SyMakers : SyOutOK(r.dev, i, r.out[i])
  <2>1. r.mark >= r.dev
    BY <1>1, <1>3 DEF SyDevice
  <2>2. \A i \in SyMakers : SyOutOK(d, i, syCycle[c].out[i])
    BY DEF SyInv, SyCyclesOK, d
  <2> QED
    BY <1>3, <2>1, <2>2
<1>9. SyCyclesOK' /\ syCycle' \in [SyCycles -> SyCycleState]
  BY <1>2, <1>3, <1>8, SyCycleMoves
<1>10. SyTypeOK'
  BY <1>2, <1>7, <1>9 DEF SyInv, SyTypeOK
<1>11. \A b \in SyDevice, i \in SyMakers : syRow'[b][i].status >= syRow[b][i].status
  <2> SUFFICES ASSUME NEW b \in SyDevice, NEW i \in SyMakers
               PROVE  syRow'[b][i].status >= syRow[b][i].status
    OBVIOUS
  <2>1. syRow'[b] = IF b = d THEN rows ELSE syRow[b]
    BY <1>1, <1>2 DEF SyInv, SyTypeOK
  <2>2. syRow[b][i].status \in Int
    BY DEF SyInv, SyTypeOK, SyRows
  <2> QED
    BY <1>6, <2>1, <2>2
<1> QED
  BY <1>2, <1>7, <1>9, <1>10, <1>11, SyStays DEF SyInv

(* Backfilling gives every row an origin and leaves its status alone. *)
LEMMA SyBackfillOK ==
  ASSUME SyInv, NEW d \in SyDevice
  PROVE  /\ SyBackfilled(d) \in [SyMakers -> SyRows]
         /\ \A i \in SyMakers :
              /\ SyHoldOK(d, i, SyBackfilled(d)[i])
              /\ SyBackfilled(d)[i].status = syRow[d][i].status
              /\ SyBackfilled(d)[i] # SyNoRow => SyBackfilled(d)[i].origin \in d..i
<1> SUFFICES ASSUME NEW i \in SyMakers
             PROVE  /\ SyBackfilled(d)[i] \in SyRows
                    /\ SyHoldOK(d, i, SyBackfilled(d)[i])
                    /\ SyBackfilled(d)[i].status = syRow[d][i].status
                    /\ SyBackfilled(d)[i] # SyNoRow => SyBackfilled(d)[i].origin \in d..i
  BY DEF SyBackfilled
<1> DEFINE row == syRow[d][i]
           filled == [row EXCEPT !.origin = d]
<1>1. row \in SyRows /\ SyHoldOK(d, i, row) /\ d \in 1..SyDevices /\ i \in 1..SyDevices
  BY SyAssumption DEF SyInv, SyTypeOK, SyHoldsOK, SyDevice
<1>2. SyBackfilled(d)[i] = IF row # SyNoRow /\ row.origin = 0 THEN filled ELSE row
  BY DEF SyBackfilled, SyHas
<1>3. filled \in SyRows /\ filled.status = row.status /\ filled.origin = d
  BY <1>1 DEF SyRows
<1> HIDE DEF row, filled
<1>4. CASE row # SyNoRow /\ row.origin = 0
  <2>1. row.status # -1 /\ d <= i
    BY <1>1, <1>4 DEF SyHoldOK, SyRowOK
  <2>2. d \in d..i
    BY <1>1, <2>1
  <2> QED
    BY <1>1, <1>2, <1>3, <1>4, <2>1, <2>2 DEF SyHoldOK, SyRowOK, row
<1>5. CASE ~(row # SyNoRow /\ row.origin = 0)
  BY <1>1, <1>2, <1>5 DEF SyHoldOK, row
<1> QED
  BY <1>4, <1>5

(* What is extracted left a device that had no watermark. *)
LEMMA SyExtractStep ==
  ASSUME SyInv, NEW c \in SyCycles, SyExtract(c)
  PROVE  SyInv' /\ \A d \in SyDevice, i \in SyMakers : syRow'[d][i].status = syRow[d][i].status
<1> DEFINE d == syCycle[c].dev
           rows == SyBackfilled(d)
           out == SyChanges(rows, sySince[d])
           r == IF out = SyNone THEN SyNoCycle ELSE [syCycle[c] EXCEPT !.at = "write", !.out = out]
<1>1. syCycle[c] \in SyCycleState /\ d \in SyDevice /\ syCycle[c].mark >= d
  BY DEF SyInv, SyTypeOK, SyCyclesOK, SyCycleState
<1>2. /\ syRow' = [syRow EXCEPT ![d] = rows] /\ syCycle' = [syCycle EXCEPT ![c] = r]
      /\ UNCHANGED <<syFile, sySince, syUnread>>
  BY <1>1 DEF SyExtract, SyInv, SyTypeOK
<1>3. /\ rows \in [SyMakers -> SyRows]
      /\ \A i \in SyMakers : /\ SyHoldOK(d, i, rows[i]) /\ rows[i].status = syRow[d][i].status
                             /\ rows[i] # SyNoRow => rows[i].origin \in d..i
  BY <1>1, SyBackfillOK
<1>4. SyHoldsOK' /\ syRow' \in [SyDevice -> [SyMakers -> SyRows]]
  BY <1>1, <1>2, <1>3, SyRowMoves
<1>5. \A i \in SyMakers : out[i] \in SyRows /\ SyOutOK(d, i, out[i])
  <2> SUFFICES ASSUME NEW i \in SyMakers PROVE out[i] \in SyRows /\ SyOutOK(d, i, out[i])
    OBVIOUS
  <2>1. out[i] = IF rows[i].origin > sySince[d] THEN rows[i] ELSE SyNoRow
    BY DEF SyChanges
  <2>2. sySince[d] \in {0, d} /\ (d \in SyMakers /\ sySince[d] = 0 => d \in syUnread)
    BY <1>1 DEF SyInv, SySinceOK
  <2>3. rows[i] \in SyRows /\ d \in Nat /\ i \in Nat
    BY <1>1, <1>3, SyAssumption DEF SyDevice
  <2> HIDE DEF out, rows, d
  <2>4. CASE rows[i] # SyNoRow /\ rows[i].origin > sySince[d]
    <3>1. rows[i].origin \in d..i /\ (d = i \/ (d < i /\ i \in syUnread))
      BY <1>3, <2>4 DEF SyHoldOK
    <3>2. d <= i /\ i \in syUnread
      BY <2>2, <2>3, <2>4, <3>1
    <3> QED
      BY <1>3, <2>1, <2>3, <2>4, <3>1, <3>2 DEF SyOutOK, SyHoldOK
  <2>5. CASE ~(rows[i] # SyNoRow /\ rows[i].origin > sySince[d])
    BY <2>1, <2>5, SyNoRowOK
  <2> QED
    BY <2>4, <2>5
<1>6. out \in [SyMakers -> SyRows]
  BY <1>5 DEF SyChanges
<1>7. r \in SyCycleState /\ r.mark >= r.dev /\ \A i \in SyMakers : SyOutOK(r.dev, i, r.out[i])
  <2>1. CASE out = SyNone
    BY <2>1, SyNoCycleOK
  <2>2. CASE out # SyNone
    <3> DEFINE w == [syCycle[c] EXCEPT !.at = "write", !.out = out]
    <3> HIDE DEF out
    <3>1. w \in SyCycleState /\ w.mark = syCycle[c].mark /\ w.dev = syCycle[c].dev /\ w.out = out
      BY <1>1, <1>6 DEF SyCycleState
    <3>2. r = w
      BY <2>2
    <3> HIDE DEF w, r
    <3> QED
      BY <1>1, <1>5, <3>1, <3>2
  <2> QED
    BY <2>1, <2>2
<1> HIDE DEF r, out
<1>8. SyCyclesOK' /\ syCycle' \in [SyCycles -> SyCycleState]
  BY <1>2, <1>7, SyCycleMoves
<1>9. SyTypeOK'
  BY <1>2, <1>4, <1>8 DEF SyInv, SyTypeOK
<1>10. \A b \in SyDevice, i \in SyMakers : syRow'[b][i].status = syRow[b][i].status
  <2>1. \A b \in SyDevice : syRow'[b] = IF b = d THEN rows ELSE syRow[b]
    BY <1>1, <1>2 DEF SyInv, SyTypeOK
  <2> HIDE DEF rows, d
  <2> QED
    BY <1>3, <2>1
<1> QED
  BY <1>2, <1>4, <1>8, <1>9, <1>10, SyStays DEF SyInv

(* A push replaces the file by what the cycle extracted, and another       *)
(* device may remove a file.                                               *)
LEMMA SyFileStep ==
  ASSUME SyInv,
         \/ \E c \in SyCycles : SyPush(c)
         \/ \E d \in SyDevice : SyForget(d)
  PROVE  SyInv'
<1>1. ASSUME NEW c \in SyCycles, SyPush(c) PROVE SyInv'
  <2> DEFINE d == syCycle[c].dev
  <2>1. /\ d \in SyDevice /\ syCycle[c].out \in [SyMakers -> SyRows]
        /\ \A i \in SyMakers : SyOutOK(d, i, syCycle[c].out[i])
    BY DEF SyInv, SyTypeOK, SyCycleState, SyCyclesOK
  <2>2. /\ syFile' = [syFile EXCEPT ![d] = syCycle[c].out] /\ sySince' = [sySince EXCEPT ![d] = d]
        /\ syCycle' = [syCycle EXCEPT ![c] = SyNoCycle] /\ UNCHANGED <<syRow, syUnread>>
    BY <1>1 DEF SyPush
  <2> HIDE DEF d
  <2>3. SyFilesOK' /\ syFile' \in [SyDevice -> [SyMakers -> SyRows]]
    BY <2>1, <2>2, SyFileMoves
  <2>4. SyCyclesOK' /\ syCycle' \in [SyCycles -> SyCycleState]
    BY <2>2, SyCycleMoves, SyNoCycleOK
  <2>5. /\ sySince' \in [SyDevice -> 0..SyDevices]
        /\ \A e \in SyDevice : sySince'[e] = IF e = d THEN d ELSE sySince[e]
    BY <2>1, <2>2, SyAssumption DEF SyInv, SyTypeOK, SyDevice
  <2>6. SySinceOK'
    BY <2>1, <2>2, <2>5 DEF SyInv, SySinceOK, SyDevice
  <2>7. SyTypeOK'
    BY <2>2, <2>3, <2>4, <2>5 DEF SyInv, SyTypeOK
  <2> QED
    BY <2>2, <2>3, <2>4, <2>6, <2>7, SyStays DEF SyInv
<1>2. ASSUME NEW d \in SyDevice, SyForget(d) PROVE SyInv'
  <2>1. syFile' = [syFile EXCEPT ![d] = SyNone] /\ UNCHANGED <<syRow, sySince, syCycle, syUnread>>
    BY <1>2 DEF SyForget
  <2>2. SyFilesOK' /\ syFile' \in [SyDevice -> [SyMakers -> SyRows]]
    <3>1. SyNone \in [SyMakers -> SyRows] /\ \A i \in SyMakers : SyOutOK(d, i, SyNone[i])
      BY SyNoRowOK
    <3> QED
      BY <2>1, <3>1, SyFileMoves
  <2>3. SyTypeOK'
    BY <2>1, <2>2 DEF SyInv, SyTypeOK
  <2> QED
    BY <2>1, <2>2, <2>3, SyStays DEF SyInv
<1> QED
  BY <1>1, <1>2

(* A start without the watermark adds to the makers whose rows may travel. *)
LEMMA SyRestartStep ==
  ASSUME SyInv, NEW d \in SyDevice, SyRestart(d)
  PROVE  SyInv'
<1>1. PICK s \in {0, d} : sySince' = [sySince EXCEPT ![d] = s]
  BY DEF SyRestart, SySeed
<1>2. /\ sySince' \in [SyDevice -> 0..SyDevices]
      /\ \A e \in SyDevice : sySince'[e] = IF e = d THEN s ELSE sySince[e]
  BY <1>1, SyAssumption DEF SyInv, SyTypeOK, SyDevice
<1>3. syUnread \subseteq syUnread' /\ syUnread' \subseteq SyMakers
  BY DEF SyRestart, SyInv, SyTypeOK
<1>4. UNCHANGED <<syRow, syFile>>
  BY DEF SyRestart
<1>5. SyHoldsOK' /\ SyFilesOK'
  BY <1>3, <1>4 DEF SyInv, SyHoldsOK, SyHoldOK, SyFilesOK, SyOutOK
<1>6. SySinceOK'
  <2>1. \A e \in SyDevice : sySince'[e] \in {0, e}
    BY <1>1, <1>2 DEF SyInv, SySinceOK
  <2>2. \A e \in SyMakers : sySince'[e] = 0 => e \in syUnread'
    BY DEF SyRestart
  <2> QED
    BY <2>1, <2>2 DEF SySinceOK
<1>7. \A c \in SyCycles : syCycle'[c] \in {SyNoCycle, syCycle[c]}
  BY DEF SyRestart
<1>8. syCycle' \in [SyCycles -> SyCycleState]
  BY <1>7, SyNoCycleOK DEF SyRestart, SyInv, SyTypeOK
<1>9. SyCyclesOK'
  <2> SUFFICES ASSUME NEW c \in SyCycles
               PROVE  /\ syCycle'[c].mark >= syCycle'[c].dev
                      /\ \A i \in SyMakers : SyOutOK(syCycle[c].dev, i, syCycle[c].out[i])'
    BY DEF SyCyclesOK
  <2>1. /\ syCycle'[c].mark >= syCycle'[c].dev
        /\ \A i \in SyMakers : SyOutOK(syCycle'[c].dev, i, syCycle'[c].out[i])
    BY <1>7, SyNoCycleOK DEF SyInv, SyCyclesOK
  <2> QED
    BY <1>3, <2>1 DEF SyOutOK
<1>10. SyTypeOK'
  BY <1>2, <1>3, <1>4, <1>8 DEF SyInv, SyTypeOK
<1> QED
  BY <1>5, <1>6, <1>9, <1>10 DEF SyInv

(* Every step keeps the invariant, ... *)
LEMMA SyNextInv == SyInv /\ [SyNext]_syVars => SyInv'
<1> SUFFICES ASSUME SyInv, [SyNext]_syVars PROVE SyInv'
  OBVIOUS
<1>1. CASE UNCHANGED syVars
  BY <1>1, SyStays DEF SyInv, SyTypeOK, syVars
<1>2. ASSUME NEW c \in SyCycles, SyCycleStep(c) PROVE SyInv'
  BY <1>2, SyPullStep, SyCycleOnlyStep, SyExtractStep, SyFileStep DEF SyCycleStep
<1>3. ASSUME NEW d \in SyDevice, SyCreate(d) PROVE SyInv'
  <2>1. d \in SyMakers
    BY <1>3 DEF SyCreate
  <2> QED
    BY <1>3, <2>1, SyRowStep
<1>4. ASSUME NEW d \in SyDevice, SyForget(d) \/ SyRestart(d) \/ SyBegin(d) PROVE SyInv'
  BY <1>4, SyFileStep, SyRestartStep, SyCycleOnlyStep
<1>5. ASSUME NEW d \in SyDevice, NEW i \in SyMakers,
             SySave(d, i) \/ \E status \in 1..SyMaxStatus : SyDecide(d, i, status)
      PROVE  SyInv'
  BY <1>5, SyRowStep
<1> QED
  BY <1>1, <1>2, <1>3, <1>4, <1>5 DEF SyNext

(* ... so it always holds. *)
LEMMA SyInvariant == SySpec => []SyInv
<1> QED
  BY SyInitInv, SyNextInv, PTL DEF SySpec

(* Every row, changeset, watermark and cycle has its type, whatever the    *)
(* cycles do at the same time (sync_engine.rs:62-360).                     *)
THEOREM SyTypeCorrect == SySpec => []SyTypeOK
<1>1. SyInv => SyTypeOK
  BY DEF SyInv
<1> QED
  BY <1>1, SyInvariant, PTL

(* A device's rows reach another only if the device once started without   *)
(* its watermark, and only devices with smaller ids: with any number of    *)
(* devices, rows passed on by devices in between included                  *)
(* (sync_engine.rs:62-81, sync_extractor.rs:71-107).                       *)
THEOREM RowsFlowDown == SySpec => []SyRowsFlowDown
<1>1. SyInv => SyRowsFlowDown
  BY DEF SyInv, SyHoldsOK, SyHoldOK, SyHas, SyRowsFlowDown
<1> QED
  BY <1>1, SyInvariant, PTL

(* No merge undoes a decision: a status falls only when the queue of that  *)
(* device is saved (sync_merger.rs:493-626).                               *)
THEOREM DecisionsStay == SySpec => SyDecisionsStay
<1> DEFINE A == \A d \in SyDevice, i \in SyMakers :
                  syRow'[d][i].status < syRow[d][i].status => SySave(d, i)
<1>1. SyInv /\ [SyNext]_syVars => [A]_syVars
  <2> SUFFICES ASSUME SyInv, SyNext, NEW d \in SyDevice, NEW i \in SyMakers, ~SySave(d, i),
                      syRow'[d][i].status < syRow[d][i].status
               PROVE  FALSE
    BY DEF syVars
  <2>1. syRow[d][i] \in SyRows /\ syRow[d][i].status \in Int
    BY DEF SyInv, SyTypeOK, SyRows
  <2>2. CASE UNCHANGED syRow
    BY <2>1, <2>2
  <2>3. ASSUME NEW c \in SyCycles, SyPull(c) \/ SyExtract(c)
        PROVE  syRow'[d][i].status >= syRow[d][i].status
    BY <2>1, <2>3, SyPullStep, SyExtractStep
  <2>4. ASSUME NEW e \in SyDevice, SyCreate(e) PROVE syRow'[d][i].status >= syRow[d][i].status
    <3>1. syRow[e][e] = SyNoRow /\ syRow' = [syRow EXCEPT ![e][e].status = 0] /\ e \in SyMakers
      BY <2>4 DEF SyCreate, SyHas
    <3>2. syRow'[d][i].status \in {syRow[d][i].status, 0} /\ (<<d, i>> # <<e, e>> => syRow'[d][i] = syRow[d][i])
      BY <3>1 DEF SyInv, SyTypeOK, SyRows
    <3> QED
      BY <2>1, <3>1, <3>2 DEF SyNoRow
  <2>5. ASSUME NEW e \in SyDevice, NEW j \in SyMakers, SySave(e, j)
        PROVE  syRow'[d][i].status >= syRow[d][i].status
    <3>1. <<d, i>> # <<e, j>>
      BY <2>5
    <3>2. syRow'[d][i] = syRow[d][i]
      BY <2>5, <3>1 DEF SySave, SyInv, SyTypeOK
    <3> QED
      BY <2>1, <3>2
  <2>6. ASSUME NEW e \in SyDevice, NEW j \in SyMakers, NEW status \in 1..SyMaxStatus, SyDecide(e, j, status)
        PROVE  syRow'[d][i].status >= syRow[d][i].status
    <3>1. syRow' = [syRow EXCEPT ![e][j].status = status] /\ status > syRow[e][j].status
      BY <2>6 DEF SyDecide
    <3>2. syRow'[d][i].status = IF d = e /\ i = j THEN status ELSE syRow[d][i].status
      BY <3>1 DEF SyInv, SyTypeOK, SyRows
    <3> QED
      BY <2>1, <3>1, <3>2
  <2>7. syRow'[d][i].status >= syRow[d][i].status
    BY <2>2, <2>3, <2>4, <2>5, <2>6
    DEF SyNext, SyCycleStep, SyPulled, SyPush, SyFail, SyForget, SyRestart, SyBegin
  <2>8. SyInv'
    BY SyNextInv
  <2>9. syRow'[d][i].status \in Int
    BY <2>8 DEF SyInv, SyTypeOK, SyRows
  <2> QED
    BY <2>1, <2>7, <2>9
<1> QED
  BY <1>1, SyInvariant, PTL DEF SySpec, SyDecisionsStay

-----------------------------------------------------------------------------
(***************************************************************************)
(* The integration runtime.                                                *)
(***************************************************************************)
IxMsg   == [id: Nat \ {0}, of: {"insight", "receipt"} \X Nat]
IxEntry == [prompt: IxPrompts, status: {"pending", "answered", "expired"}]
IxRegistry ==
  [outbox: Seq(IxMsg), inbox: Seq(IxEntry), cursor: Nat, checkpoint: Nat, session: BOOLEAN]
IxRefreshState ==
  [at: {"idle", "asked", "got", "stored"}, cursor: Nat, prompts: Seq(IxPrompts)]
IxFlushState == [at: {"idle", "delete"}, acked: SUBSET Nat]

(* The message is in the outbox or with the server. *)
IxHandled(outbox, taken, of) == \E m \in ToSet(outbox) \cup taken : m.of = of

(* No prompt has two entries. *)
IxUnique(inbox) == \A e, f \in ToSet(inbox) : e.prompt = f.prompt => e = f

(* What holds of the registry in memory and of the file alike: taken is    *)
(* what the server has, covered the prompts the cursor may pass.           *)
IxRegOK(reg, taken, covered) ==
  /\ reg \in IxRegistry
  /\ IxUnique(reg.inbox)
  /\ \A e \in ToSet(reg.inbox) :
       e.status = "answered" => IxHandled(reg.outbox, taken, <<"receipt", e.prompt>>)
  /\ \A n \in 1..reg.checkpoint : IxHandled(reg.outbox, taken, <<"insight", n>>)
  /\ 1..reg.cursor \subseteq covered

IxCovered == ixSeen \cup ixLost
IxSent    == ToSet(ixMem.outbox) \cup ToSet(ixDisk.outbox) \cup ixTaken

IxVarsOK ==
  /\ ixLink \in {"down", "up", "dead"} /\ ixWay \in {"poll", "live"}
  /\ ixPublished \in 0..IxMaxPrompts /\ ixLive \in Seq(IxPrompts)
  /\ ixFlush \in IxFlushState /\ ixRefresh \in [IxRefreshers -> IxRefreshState]
  /\ ixProducer \in {"idle", "enqueued"}
  /\ ixMessages \in Nat /\ ixTaken \subseteq IxMsg
IxStoresOK ==
  IxRegOK(ixMem, ixTaken, IxCovered) /\ IxRegOK(ixDisk, ixTaken, IxCovered)

(* A queue id names one message, ... *)
IxIdsOK ==
  /\ \A m \in IxSent : m.id <= ixMessages
  /\ \A m, n \in IxSent : m.id = n.id => m = n
(* ... and a flush deletes only what the server has. *)
IxFlushOK == \A i \in ixFlush.acked : \E m \in ixTaken : m.id = i

(* The producer has enqueued what its checkpoint is about to pass. *)
IxProducerOK ==
  ixProducer = "enqueued" =>
    IxHandled(ixMem.outbox, ixTaken, <<"insight", ixMem.checkpoint + 1>>)

(* While a receipt is not forgotten, it is the only one for its prompt,    *)
(* which is answered in memory and in the file.                            *)
IxReceiptsOK ==
  \A m \in IxSent : \A p \in IxPrompts \ ixForgot :
    m.of = <<"receipt", p>> =>
      /\ [prompt |-> p, status |-> "answered"] \in ToSet(ixMem.inbox)
      /\ [prompt |-> p, status |-> "answered"] \in ToSet(ixDisk.inbox)
      /\ \A n \in IxSent : n.of = m.of => n = m

(* The cursor a refresh holds passes only prompts that are covered, or     *)
(* that the refresh is about to merge.                                     *)
IxRefreshOK(r) ==
  /\ Len(ixRefresh[r].prompts) <= IxBatch
  /\ \A p \in 1..ixRefresh[r].cursor :
       p \in IxCovered \/ (ixRefresh[r].at = "got" /\ p \in ToSet(ixRefresh[r].prompts))
IxRefreshesOK == \A r \in IxRefreshers : IxRefreshOK(r)

(* A session that is not down is in the registry. *)
IxSessionOK == ixLink # "down" => ixMem.session

IxInv ==
  /\ IxVarsOK /\ IxStoresOK /\ IxIdsOK /\ IxFlushOK /\ IxProducerOK
  /\ IxReceiptsOK /\ IxRefreshesOK /\ IxSessionOK

(* Nothing is in an empty sequence. *)
LEMMA IxEmpty == ToSet(<<>>) = {} /\ \A D : <<>> \in Seq(D)
  BY DEF ToSet

(* A refresh that is over holds nothing. *)
LEMMA IxNoRefreshOK ==
  IxNoRefresh \in IxRefreshState /\ IxNoRefresh.cursor = 0 /\ Len(IxNoRefresh.prompts) <= IxBatch
<1>1. IxBatch \in Nat
  BY IxAssumption
<1> QED
  BY <1>1 DEF IxNoRefresh, IxRefreshState

(* The states the runtime starts in. *)
LEMMA IxInitInv == IxInit => IxInv
<1> SUFFICES ASSUME IxInit PROVE IxInv
  OBVIOUS
<1>1. /\ ixMem \in IxRegistry /\ ixDisk = ixMem /\ ixMem.outbox = <<>> /\ ixMem.inbox = <<>>
      /\ ixMem.cursor = 0 /\ ixMem.checkpoint = 0 /\ ixMem.session = FALSE
  BY DEF IxInit, IxRegistry
<1>2. ixTaken = {} /\ IxSent = {}
  BY <1>1, IxEmpty DEF IxInit, IxSent
<1>3. IxVarsOK
  <2>1. IxNotFlushing \in IxFlushState
    BY DEF IxNotFlushing, IxFlushState
  <2>2. 0 \in 0..IxMaxPrompts
    BY IxAssumption
  <2> QED
    BY <2>1, <2>2, IxNoRefreshOK DEF IxVarsOK, IxInit
<1>4. IxStoresOK
  BY <1>1, IxEmpty DEF IxStoresOK, IxRegOK, IxUnique
<1>5. IxIdsOK /\ IxReceiptsOK
  BY <1>2 DEF IxIdsOK, IxReceiptsOK
<1>6. IxFlushOK
  BY DEF IxFlushOK, IxInit, IxNotFlushing
<1>7. IxProducerOK /\ IxSessionOK
  BY DEF IxProducerOK, IxSessionOK, IxInit
<1>8. IxRefreshesOK
  BY IxNoRefreshOK DEF IxRefreshesOK, IxRefreshOK, IxInit
<1> QED
  BY <1>3, <1>4, <1>5, <1>6, <1>7, <1>8 DEF IxInv

(* What the server has and what the cursor may pass only grow. *)
LEMMA IxRegGrows ==
  ASSUME NEW reg, NEW taken, NEW more, taken \subseteq more,
         NEW covered, NEW wider, covered \subseteq wider,
         IxRegOK(reg, taken, covered)
  PROVE  IxRegOK(reg, more, wider)
<1>1. \A of : IxHandled(reg.outbox, taken, of) => IxHandled(reg.outbox, more, of)
  BY DEF IxHandled
<1> QED
  BY <1>1 DEF IxRegOK

(* A save, whether it succeeds or not, leaves memory and file in order if  *)
(* what is saved is.                                                       *)
LEMMA IxSaves ==
  ASSUME IxInv, NEW reg, NEW ok \in BOOLEAN, IxSave(reg, ok), UNCHANGED ixTaken,
         ixLost \subseteq ixLost', IxRegOK(reg, ixTaken, IxCovered')
  PROVE  /\ IxStoresOK' /\ ixMem' = reg /\ ixDisk' \in {reg, ixDisk}
         /\ IxCovered \subseteq IxCovered'
         /\ IxSent' \subseteq ToSet(reg.outbox) \cup IxSent
<1>1. ixMem' = reg /\ ixDisk' \in {reg, ixDisk} /\ ixSeen \subseteq ixSeen'
  BY DEF IxSave
<1>2. IxCovered \subseteq IxCovered'
  BY <1>1 DEF IxCovered
<1>3. IxRegOK(ixDisk, ixTaken, IxCovered')
  BY <1>2, IxRegGrows DEF IxInv, IxStoresOK
<1>4. IxStoresOK'
  BY <1>1, <1>3 DEF IxStoresOK
<1>5. IxSent' \subseteq ToSet(reg.outbox) \cup IxSent
  BY <1>1 DEF IxSent
<1> QED
  BY <1>1, <1>2, <1>4, <1>5

IxAnswered(p) == [prompt |-> p, status |-> "answered"]

(* A save that adds no message and removes no answer that counts. *)
LEMMA IxSavesNoMessage ==
  ASSUME IxInv, NEW reg, NEW ok \in BOOLEAN, IxSave(reg, ok), UNCHANGED <<ixTaken, ixMessages>>,
         ixLost \subseteq ixLost', ixForgot \subseteq ixForgot',
         IxRegOK(reg, ixTaken, IxCovered'),
         ToSet(reg.outbox) \subseteq ToSet(ixMem.outbox),
         \A p \in IxPrompts \ ixForgot' :
           IxAnswered(p) \in ToSet(ixMem.inbox) => IxAnswered(p) \in ToSet(reg.inbox)
  PROVE  /\ IxStoresOK' /\ IxIdsOK' /\ IxReceiptsOK' /\ ixMem' = reg
         /\ IxCovered \subseteq IxCovered'
<1>1. /\ IxStoresOK' /\ ixMem' = reg /\ ixDisk' \in {reg, ixDisk}
      /\ IxCovered \subseteq IxCovered'
      /\ IxSent' \subseteq ToSet(reg.outbox) \cup IxSent
  BY IxSaves
<1>2. IxSent' \subseteq IxSent
  BY <1>1 DEF IxSent
<1>3. IxIdsOK'
  BY <1>2 DEF IxInv, IxIdsOK
<1>4. IxReceiptsOK'
  <2> SUFFICES ASSUME NEW m \in IxSent', NEW p \in IxPrompts \ ixForgot', m.of = <<"receipt", p>>
               PROVE  /\ IxAnswered(p) \in ToSet(ixMem.inbox)'
                      /\ IxAnswered(p) \in ToSet(ixDisk.inbox)'
                      /\ \A n \in IxSent' : n.of = m.of => n = m
    BY DEF IxReceiptsOK, IxAnswered
  <2>1. m \in IxSent /\ p \in IxPrompts \ ixForgot
    BY <1>2
  <2>2. /\ IxAnswered(p) \in ToSet(ixMem.inbox) /\ IxAnswered(p) \in ToSet(ixDisk.inbox)
        /\ \A n \in IxSent : n.of = m.of => n = m
    BY <2>1 DEF IxInv, IxReceiptsOK, IxAnswered
  <2>3. IxAnswered(p) \in ToSet(reg.inbox)
    BY <2>2
  <2> QED
    BY <1>1, <1>2, <2>2, <2>3
<1> QED
  BY <1>1, <1>3, <1>4

(* The fields of a registry, one of them changed. *)
LEMMA IxFields ==
  ASSUME NEW reg \in IxRegistry
  PROVE  /\ reg.outbox \in Seq(IxMsg) /\ reg.inbox \in Seq(IxEntry)
         /\ reg.cursor \in Nat /\ reg.checkpoint \in Nat /\ reg.session \in BOOLEAN
         /\ \A b \in BOOLEAN : LET new == [reg EXCEPT !.session = b] IN
              /\ new \in IxRegistry /\ new.session = b /\ new.outbox = reg.outbox
              /\ new.inbox = reg.inbox /\ new.cursor = reg.cursor /\ new.checkpoint = reg.checkpoint
         /\ \A o \in Seq(IxMsg) : LET new == [reg EXCEPT !.outbox = o] IN
              /\ new \in IxRegistry /\ new.session = reg.session /\ new.outbox = o
              /\ new.inbox = reg.inbox /\ new.cursor = reg.cursor /\ new.checkpoint = reg.checkpoint
         /\ \A i \in Seq(IxEntry) : LET new == [reg EXCEPT !.inbox = i] IN
              /\ new \in IxRegistry /\ new.session = reg.session /\ new.outbox = reg.outbox
              /\ new.inbox = i /\ new.cursor = reg.cursor /\ new.checkpoint = reg.checkpoint
         /\ \A c \in Nat : LET new == [reg EXCEPT !.cursor = c] IN
              /\ new \in IxRegistry /\ new.session = reg.session /\ new.outbox = reg.outbox
              /\ new.inbox = reg.inbox /\ new.cursor = c /\ new.checkpoint = reg.checkpoint
         /\ \A c \in Nat : LET new == [reg EXCEPT !.checkpoint = c] IN
              /\ new \in IxRegistry /\ new.session = reg.session /\ new.outbox = reg.outbox
              /\ new.inbox = reg.inbox /\ new.cursor = reg.cursor /\ new.checkpoint = c
<1>1. /\ reg.outbox \in Seq(IxMsg) /\ reg.inbox \in Seq(IxEntry)
      /\ reg.cursor \in Nat /\ reg.checkpoint \in Nat /\ reg.session \in BOOLEAN
  BY DEF IxRegistry
<1>2. ASSUME NEW b \in BOOLEAN PROVE LET new == [reg EXCEPT !.session = b] IN
        /\ new \in IxRegistry /\ new.session = b /\ new.outbox = reg.outbox
        /\ new.inbox = reg.inbox /\ new.cursor = reg.cursor /\ new.checkpoint = reg.checkpoint
  BY DEF IxRegistry
<1>3. ASSUME NEW o \in Seq(IxMsg) PROVE LET new == [reg EXCEPT !.outbox = o] IN
        /\ new \in IxRegistry /\ new.session = reg.session /\ new.outbox = o
        /\ new.inbox = reg.inbox /\ new.cursor = reg.cursor /\ new.checkpoint = reg.checkpoint
  BY DEF IxRegistry
<1>4. ASSUME NEW i \in Seq(IxEntry) PROVE LET new == [reg EXCEPT !.inbox = i] IN
        /\ new \in IxRegistry /\ new.session = reg.session /\ new.outbox = reg.outbox
        /\ new.inbox = i /\ new.cursor = reg.cursor /\ new.checkpoint = reg.checkpoint
  BY DEF IxRegistry
<1>5. ASSUME NEW c \in Nat PROVE LET new == [reg EXCEPT !.cursor = c] IN
        /\ new \in IxRegistry /\ new.session = reg.session /\ new.outbox = reg.outbox
        /\ new.inbox = reg.inbox /\ new.cursor = c /\ new.checkpoint = reg.checkpoint
  BY DEF IxRegistry
<1>6. ASSUME NEW c \in Nat PROVE LET new == [reg EXCEPT !.checkpoint = c] IN
        /\ new \in IxRegistry /\ new.session = reg.session /\ new.outbox = reg.outbox
        /\ new.inbox = reg.inbox /\ new.cursor = reg.cursor /\ new.checkpoint = c
  BY DEF IxRegistry
<1> QED
  BY <1>1, <1>2, <1>3, <1>4, <1>5, <1>6, Zenon

(* What depends on the covered prompts, the messages taken or the refresh  *)
(* states only stays in order while these grow or stay.                    *)
LEMMA IxStays ==
  ASSUME IxInv, ixTaken \subseteq ixTaken', IxCovered \subseteq IxCovered'
  PROVE  /\ ixRefresh' = ixRefresh => IxRefreshesOK'
         /\ ixFlush' = ixFlush => IxFlushOK'
         /\ ixFlush' = IxNotFlushing => IxFlushOK'
<1>1. ixRefresh' = ixRefresh => IxRefreshesOK'
  BY DEF IxInv, IxRefreshesOK, IxRefreshOK
<1>2. ixFlush' = ixFlush => IxFlushOK'
  BY DEF IxInv, IxFlushOK
<1>3. ixFlush' = IxNotFlushing => IxFlushOK'
  BY DEF IxFlushOK, IxNotFlushing
<1> QED
  BY <1>1, <1>2, <1>3

(* Connecting and heartbeats change the session alone. *)
LEMMA IxSessionStep ==
  ASSUME IxInv, NEW ok \in BOOLEAN,
         IxHeartbeat(ok) \/ \E answered \in BOOLEAN : IxConnect(answered, ok)
  PROVE  IxInv'
<1>1. PICK b \in BOOLEAN : /\ IxSave([ixMem EXCEPT !.session = b], ok)
                           /\ ixLink' \in {"down", "up", "dead"} /\ (ixLink' # "down" => b)
  BY DEF IxHeartbeat, IxConnect, IxInv, IxVarsOK
<1>2. UNCHANGED <<ixWay, ixServer, ixLive, ixTasks, ixMessages, ixFate, ixRestarts>>
  BY DEF IxHeartbeat, IxConnect
<1> DEFINE reg == [ixMem EXCEPT !.session = b]
<1>3. IxRegOK(ixMem, ixTaken, IxCovered) /\ ixMem \in IxRegistry
  BY DEF IxInv, IxStoresOK, IxRegOK
<1>4. /\ reg \in IxRegistry /\ reg.session = b /\ reg.outbox = ixMem.outbox
      /\ reg.inbox = ixMem.inbox /\ reg.cursor = ixMem.cursor /\ reg.checkpoint = ixMem.checkpoint
  BY <1>3, IxFields
<1> HIDE DEF reg
<1>5. IxCovered \subseteq IxCovered'
  BY <1>1, <1>2 DEF IxSave, IxCovered, ixFate
<1>6. IxRegOK(reg, ixTaken, IxCovered')
  BY <1>3, <1>4, <1>5 DEF IxRegOK
<1>7. IxSave(reg, ok) /\ UNCHANGED <<ixTaken, ixMessages, ixLost, ixForgot>>
  BY <1>1, <1>2 DEF reg, ixServer, ixFate
<1>8. IxStoresOK' /\ IxIdsOK' /\ IxReceiptsOK' /\ ixMem' = reg
  BY <1>4, <1>6, <1>7, IxSavesNoMessage
<1>9. IxFlushOK' /\ IxRefreshesOK'
  BY <1>2, <1>5, <1>7, IxStays DEF ixTasks
<1>10. IxProducerOK'
  BY <1>2, <1>4, <1>7, <1>8 DEF IxInv, IxProducerOK, ixTasks
<1>11. IxSessionOK'
  BY <1>1, <1>4, <1>8 DEF IxSessionOK
<1>12. IxVarsOK'
  BY <1>1, <1>2 DEF IxInv, IxVarsOK, ixServer, ixTasks
<1> QED
  BY <1>8, <1>9, <1>10, <1>11, <1>12 DEF IxInv

(* The checkpoint passes an insight that is enqueued. *)
LEMMA IxCheckpointStep ==
  ASSUME IxInv, NEW ok \in BOOLEAN, IxCheckpoint(ok)
  PROVE  IxInv'
<1> DEFINE reg == [ixMem EXCEPT !.checkpoint = @ + 1]
<1>1. IxRegOK(ixMem, ixTaken, IxCovered) /\ ixMem \in IxRegistry /\ ixMem.checkpoint \in Nat
  BY IxFields DEF IxInv, IxStoresOK, IxRegOK
<1>2. /\ ixProducer = "enqueued" /\ IxSave(reg, ok) /\ ixProducer' = "idle"
      /\ UNCHANGED <<ixLink, ixWay, ixServer, ixLive, ixFlush, ixRefresh, ixMessages, ixFate>>
  BY DEF IxCheckpoint
<1>3. /\ reg \in IxRegistry /\ reg.session = ixMem.session /\ reg.outbox = ixMem.outbox
      /\ reg.inbox = ixMem.inbox /\ reg.cursor = ixMem.cursor
      /\ reg.checkpoint = ixMem.checkpoint + 1
  <2>1. ixMem.checkpoint + 1 \in Nat
    BY <1>1
  <2> QED
    BY <1>1, <2>1, IxFields
<1> HIDE DEF reg
<1>4. IxCovered \subseteq IxCovered'
  BY <1>2 DEF IxSave, IxCovered, ixFate
<1>5. IxRegOK(reg, ixTaken, IxCovered')
  <2>1. \A n \in 1..reg.checkpoint : n \in 1..ixMem.checkpoint \/ n = ixMem.checkpoint + 1
    BY <1>1, <1>3
  <2>2. \A n \in 1..reg.checkpoint : IxHandled(reg.outbox, ixTaken, <<"insight", n>>)
    BY <1>1, <1>2, <1>3, <2>1 DEF IxInv, IxProducerOK, IxRegOK
  <2> QED
    BY <1>1, <1>3, <1>4, <2>2 DEF IxRegOK
<1>6. UNCHANGED <<ixTaken, ixMessages, ixLost, ixForgot>>
  BY <1>2 DEF ixServer, ixFate
<1>7. IxStoresOK' /\ IxIdsOK' /\ IxReceiptsOK' /\ ixMem' = reg
  BY <1>2, <1>3, <1>5, <1>6, IxSavesNoMessage
<1>8. IxFlushOK' /\ IxRefreshesOK'
  BY <1>2, <1>4, <1>6, IxStays
<1>9. IxProducerOK' /\ IxSessionOK'
  BY <1>2, <1>3, <1>7 DEF IxInv, IxProducerOK, IxSessionOK
<1>10. IxVarsOK'
  BY <1>2 DEF IxInv, IxVarsOK, ixServer
<1> QED
  BY <1>7, <1>8, <1>9, <1>10 DEF IxInv

(* A flush deletes messages the server has. *)
LEMMA IxFlushDeleteStep ==
  ASSUME IxInv, NEW ok \in BOOLEAN, IxFlushDelete(ok)
  PROVE  IxInv'
<1> DEFINE kept == Keeping(ixMem.outbox, {m \in ToSet(ixMem.outbox) : m.id \notin ixFlush.acked})
           reg == [ixMem EXCEPT !.outbox = kept]
<1>1. /\ IxRegOK(ixMem, ixTaken, IxCovered) /\ ixMem \in IxRegistry
      /\ ixMem.outbox \in Seq(IxMsg)
  BY IxFields DEF IxInv, IxStoresOK, IxRegOK
<1>2. /\ IxSave(reg, ok) /\ ixFlush' = IxNotFlushing
      /\ UNCHANGED <<ixLink, ixWay, ixServer, ixLive, ixRefresh, ixProducer, ixMessages, ixFate>>
  BY DEF IxFlushDelete
<1>3. /\ kept \in Seq(IxMsg)
      /\ ToSet(kept) = ToSet(ixMem.outbox) \cap {m \in ToSet(ixMem.outbox) : m.id \notin ixFlush.acked}
  BY <1>1, ToSetKeeping
<1>4. /\ ToSet(kept) \subseteq ToSet(ixMem.outbox)
      /\ \A m \in ToSet(ixMem.outbox) : m.id \notin ixFlush.acked => m \in ToSet(kept)
  BY <1>3
<1> HIDE DEF kept
<1>5. /\ reg \in IxRegistry /\ reg.session = ixMem.session /\ reg.outbox = kept
      /\ reg.inbox = ixMem.inbox /\ reg.cursor = ixMem.cursor
      /\ reg.checkpoint = ixMem.checkpoint
  BY <1>1, <1>3, IxFields
<1> HIDE DEF reg
<1>6. \A of : IxHandled(ixMem.outbox, ixTaken, of) => IxHandled(reg.outbox, ixTaken, of)
  <2> SUFFICES ASSUME NEW m \in ToSet(ixMem.outbox) \cup ixTaken
               PROVE  m \in ToSet(kept) \cup ixTaken
    BY <1>5 DEF IxHandled
  <2>1. CASE m.id \in ixFlush.acked
    <3>1. PICK n \in ixTaken : n.id = m.id
      BY <2>1 DEF IxInv, IxFlushOK
    <3>2. n = m
      BY <3>1 DEF IxInv, IxIdsOK, IxSent
    <3> QED
      BY <3>2
  <2>2. CASE m.id \notin ixFlush.acked
    BY <1>4, <2>2
  <2> QED
    BY <2>1, <2>2
<1>7. IxCovered \subseteq IxCovered'
  BY <1>2 DEF IxSave, IxCovered, ixFate
<1>8. IxRegOK(reg, ixTaken, IxCovered')
  BY <1>1, <1>5, <1>6, <1>7 DEF IxRegOK
<1>9. UNCHANGED <<ixTaken, ixMessages, ixLost, ixForgot>>
  BY <1>2 DEF ixServer, ixFate
<1>10. IxStoresOK' /\ IxIdsOK' /\ IxReceiptsOK' /\ ixMem' = reg
  BY <1>2, <1>4, <1>5, <1>8, <1>9, IxSavesNoMessage
<1>11. IxFlushOK' /\ IxRefreshesOK'
  BY <1>2, <1>7, <1>9, IxStays
<1>12. IxProducerOK' /\ IxSessionOK'
  BY <1>2, <1>5, <1>6, <1>9, <1>10 DEF IxInv, IxProducerOK, IxSessionOK
<1>13. IxVarsOK'
  <2>1. IxNotFlushing \in IxFlushState
    BY DEF IxNotFlushing, IxFlushState
  <2> QED
    BY <1>2, <2>1 DEF IxInv, IxVarsOK, ixServer
<1> QED
  BY <1>10, <1>11, <1>12, <1>13 DEF IxInv

(* One refresh changes. *)
LEMMA IxRefreshMoves ==
  ASSUME IxInv, NEW r \in IxRefreshers, NEW new \in IxRefreshState,
         ixRefresh' = [ixRefresh EXCEPT ![r] = new], IxCovered \subseteq IxCovered',
         Len(new.prompts) <= IxBatch,
         \A p \in 1..new.cursor : p \in IxCovered' \/ (new.at = "got" /\ p \in ToSet(new.prompts))
  PROVE  IxRefreshesOK' /\ ixRefresh' \in [IxRefreshers -> IxRefreshState]
<1>1. /\ ixRefresh' \in [IxRefreshers -> IxRefreshState]
      /\ \A q \in IxRefreshers : ixRefresh'[q] = IF q = r THEN new ELSE ixRefresh[q]
  BY DEF IxInv, IxVarsOK
<1>2. ASSUME NEW q \in IxRefreshers PROVE IxRefreshOK(q)'
  <2>1. CASE q = r
    BY <1>1, <2>1 DEF IxRefreshOK
  <2>2. CASE q # r
    <3>1. ixRefresh'[q] = ixRefresh[q] /\ IxRefreshOK(q)
      BY <1>1, <2>2 DEF IxInv, IxRefreshesOK
    <3> QED
      BY <3>1 DEF IxRefreshOK
  <2> QED
    BY <2>1, <2>2
<1> QED
  BY <1>1, <1>2 DEF IxRefreshesOK

(* A refresh that ends. *)
LEMMA IxRefreshEnds ==
  ASSUME IxInv, NEW r \in IxRefreshers, IxCovered \subseteq IxCovered',
         ixRefresh' = [ixRefresh EXCEPT ![r] = IxNoRefresh]
  PROVE  IxRefreshesOK' /\ ixRefresh' \in [IxRefreshers -> IxRefreshState]
<1>1. 1..IxNoRefresh.cursor = {}
  BY IxNoRefreshOK
<1> QED
  BY <1>1, IxNoRefreshOK, IxRefreshMoves

(* A refresh stores the cursor of prompts it has merged. *)
LEMMA IxCursorStep ==
  ASSUME IxInv, NEW r \in IxRefreshers, NEW ok \in BOOLEAN, IxRefreshCursor(r, ok)
  PROVE  IxInv'
<1> DEFINE c == ixRefresh[r].cursor
           reg == [ixMem EXCEPT !.cursor = c]
<1>1. IxRegOK(ixMem, ixTaken, IxCovered) /\ ixMem \in IxRegistry
  BY DEF IxInv, IxStoresOK, IxRegOK
<1>2. /\ ixRefresh[r].at = "stored" /\ IxSave(reg, ok)
      /\ ixRefresh' = [ixRefresh EXCEPT ![r] = IxNoRefresh]
      /\ UNCHANGED <<ixLink, ixWay, ixServer, ixLive, ixFlush, ixProducer, ixMessages, ixFate>>
  BY DEF IxRefreshCursor
<1>3. c \in Nat /\ 1..c \subseteq IxCovered
  BY <1>2 DEF IxInv, IxVarsOK, IxRefreshState, IxRefreshesOK, IxRefreshOK
<1> HIDE DEF c
<1>4. /\ reg \in IxRegistry /\ reg.session = ixMem.session /\ reg.outbox = ixMem.outbox
      /\ reg.inbox = ixMem.inbox /\ reg.cursor = c /\ reg.checkpoint = ixMem.checkpoint
  BY <1>1, <1>3, IxFields
<1> HIDE DEF reg
<1>5. IxCovered \subseteq IxCovered'
  BY <1>2 DEF IxSave, IxCovered, ixFate
<1>6. IxRegOK(reg, ixTaken, IxCovered')
  BY <1>1, <1>3, <1>4, <1>5 DEF IxRegOK
<1>7. UNCHANGED <<ixTaken, ixMessages, ixLost, ixForgot>>
  BY <1>2 DEF ixServer, ixFate
<1>8. IxStoresOK' /\ IxIdsOK' /\ IxReceiptsOK' /\ ixMem' = reg
  BY <1>2, <1>4, <1>6, <1>7, IxSavesNoMessage
<1>9. IxFlushOK'
  BY <1>2, <1>5, <1>7, IxStays
<1>10. IxRefreshesOK' /\ ixRefresh' \in [IxRefreshers -> IxRefreshState]
  BY <1>2, <1>5, IxRefreshEnds
<1>11. IxProducerOK' /\ IxSessionOK'
  BY <1>2, <1>4, <1>7, <1>8 DEF IxInv, IxProducerOK, IxSessionOK
<1>12. IxVarsOK'
  BY <1>2, <1>10 DEF IxInv, IxVarsOK, ixServer
<1> QED
  BY <1>8, <1>9, <1>10, <1>11, <1>12 DEF IxInv

(* The prompts in an inbox, by its entries. *)
LEMMA IxInElements ==
  ASSUME NEW inbox \in Seq(IxEntry)
  PROVE  /\ \A p : p \in IxIn(inbox) <=> \E e \in ToSet(inbox) : e.prompt = p
         /\ \A p, st : p \in IxWith(inbox, st) <=>
              \E e \in ToSet(inbox) : e.prompt = p /\ e.status = st
  BY DEF IxIn, IxWith, ToSet

(* Expiry changes pending entries only. *)
LEMMA IxExpiredOK ==
  ASSUME NEW inbox \in Seq(IxEntry), IxUnique(inbox), NEW old, old \subseteq IxWith(inbox, "pending")
  PROVE  /\ IxMarked(inbox, old, "expired") \in Seq(IxEntry) /\ IxUnique(IxMarked(inbox, old, "expired"))
         /\ \A e \in ToSet(IxMarked(inbox, old, "expired")) : e.status = "answered" => e \in ToSet(inbox)
         /\ \A e \in ToSet(inbox) : e.status = "answered" => e \in ToSet(IxMarked(inbox, old, "expired"))
<1> DEFINE X(e) == IF e.prompt \in old THEN [e EXCEPT !.status = "expired"] ELSE e
           new == IxMarked(inbox, old, "expired")
<1>1. \A e \in IxEntry : /\ X(e) \in IxEntry /\ X(e).prompt = e.prompt
                         /\ X(e).status = (IF e.prompt \in old THEN "expired" ELSE e.status)
  BY DEF IxEntry
<1>2. \A i \in 1..Len(inbox) : inbox[i] \in IxEntry
  OBVIOUS
<1>3. new = [i \in 1..Len(inbox) |-> X(inbox[i])] /\ Len(inbox) \in Nat
  BY DEF IxMarked
<1>4. \A e \in IxEntry : e.prompt \notin old => X(e) = e
  OBVIOUS
<1> HIDE DEF X, new
<1>5. new \in Seq(IxEntry)
  BY <1>1, <1>2, <1>3
<1>6. \A e : e \in ToSet(new) <=> \E f \in ToSet(inbox) : e = X(f)
  BY <1>3 DEF ToSet
<1>7. ToSet(inbox) \subseteq IxEntry
  BY ToSetElements
<1>8. IxUnique(new)
  BY <1>1, <1>6, <1>7 DEF IxUnique
<1>9. \A e \in ToSet(new) : e.status = "answered" => e \in ToSet(inbox)
  BY <1>1, <1>4, <1>6, <1>7
<1>10. \A e \in ToSet(inbox) : e.status = "answered" => e \in ToSet(new)
  <2> SUFFICES ASSUME NEW e \in ToSet(inbox), e.status = "answered" PROVE e \in ToSet(new)
    OBVIOUS
  <2>1. e.prompt \notin old
    <3> SUFFICES ASSUME e.prompt \in old PROVE FALSE
      OBVIOUS
    <3>1. PICK f \in ToSet(inbox) : f.prompt = e.prompt /\ f.status = "pending"
      BY IxInElements
    <3>2. f = e
      BY <3>1 DEF IxUnique
    <3> QED
      BY <3>1, <3>2
  <2> QED
    BY <1>4, <1>6, <1>7, <2>1
<1> QED
  BY <1>5, <1>8, <1>9, <1>10 DEF new

(* A save of an inbox that has expired. *)
LEMMA IxExpirySaved ==
  ASSUME IxInv, NEW ok \in BOOLEAN, NEW old, old \subseteq IxWith(ixMem.inbox, "pending"),
         IxSave([ixMem EXCEPT !.inbox = IxMarked(ixMem.inbox, old, "expired")], ok),
         UNCHANGED <<ixTaken, ixMessages, ixLost, ixForgot>>
  PROVE  /\ IxStoresOK' /\ IxIdsOK' /\ IxReceiptsOK' /\ IxCovered \subseteq IxCovered'
         /\ ixMem'.outbox = ixMem.outbox /\ ixMem'.checkpoint = ixMem.checkpoint
         /\ ixMem'.session = ixMem.session
<1> DEFINE new == IxMarked(ixMem.inbox, old, "expired")
           reg == [ixMem EXCEPT !.inbox = new]
<1>1. /\ IxRegOK(ixMem, ixTaken, IxCovered) /\ ixMem \in IxRegistry
      /\ ixMem.inbox \in Seq(IxEntry) /\ IxUnique(ixMem.inbox)
  BY IxFields DEF IxInv, IxStoresOK, IxRegOK
<1>2. /\ new \in Seq(IxEntry) /\ IxUnique(new)
      /\ \A e \in ToSet(new) : e.status = "answered" => e \in ToSet(ixMem.inbox)
      /\ \A e \in ToSet(ixMem.inbox) : e.status = "answered" => e \in ToSet(new)
  BY <1>1, IxExpiredOK
<1>3. IxSave(reg, ok)
  OBVIOUS
<1> HIDE DEF new
<1>4. /\ reg \in IxRegistry /\ reg.session = ixMem.session /\ reg.outbox = ixMem.outbox
      /\ reg.inbox = new /\ reg.cursor = ixMem.cursor /\ reg.checkpoint = ixMem.checkpoint
  BY <1>1, <1>2, IxFields
<1> HIDE DEF reg
<1>5. IxCovered \subseteq IxCovered'
  BY <1>3 DEF IxSave, IxCovered
<1>6. IxRegOK(reg, ixTaken, IxCovered')
  BY <1>1, <1>2, <1>4, <1>5 DEF IxRegOK
<1>7. \A p \in IxPrompts : IxAnswered(p) \in ToSet(ixMem.inbox) => IxAnswered(p) \in ToSet(reg.inbox)
  BY <1>2, <1>4 DEF IxAnswered
<1>8. IxStoresOK' /\ IxIdsOK' /\ IxReceiptsOK' /\ ixMem' = reg
  BY <1>3, <1>4, <1>6, <1>7, IxSavesNoMessage
<1> QED
  BY <1>4, <1>5, <1>8

(* Prompts expire. *)
LEMMA IxExpireStep ==
  ASSUME IxInv, NEW ok \in BOOLEAN, NEW old, IxExpire(old, ok)
  PROVE  IxInv'
<1>1. /\ old \subseteq IxWith(ixMem.inbox, "pending")
      /\ IxSave([ixMem EXCEPT !.inbox = IxMarked(ixMem.inbox, old, "expired")], ok)
      /\ UNCHANGED <<ixLink, ixWay, ixServer, ixLive, ixTasks, ixMessages, ixFate>>
  BY DEF IxExpire
<1>2. UNCHANGED <<ixTaken, ixMessages, ixLost, ixForgot>>
  BY <1>1 DEF ixServer, ixFate
<1>3. /\ IxStoresOK' /\ IxIdsOK' /\ IxReceiptsOK' /\ IxCovered \subseteq IxCovered'
      /\ ixMem'.outbox = ixMem.outbox /\ ixMem'.checkpoint = ixMem.checkpoint
      /\ ixMem'.session = ixMem.session
  BY <1>1, <1>2, IxExpirySaved
<1>4. IxFlushOK' /\ IxRefreshesOK'
  BY <1>1, <1>2, <1>3, IxStays DEF ixTasks
<1>5. IxProducerOK' /\ IxSessionOK'
  BY <1>1, <1>2, <1>3 DEF IxInv, IxProducerOK, IxSessionOK, ixTasks
<1>6. IxVarsOK'
  BY <1>1 DEF IxInv, IxVarsOK, ixServer, ixTasks
<1> QED
  BY <1>3, <1>4, <1>5, <1>6 DEF IxInv

(* A refresh asks with the cursor of the registry. *)
LEMMA IxAskStep ==
  ASSUME IxInv, NEW r \in IxRefreshers, NEW ok \in BOOLEAN, NEW old, IxRefreshAsk(r, old, ok)
  PROVE  IxInv'
<1> DEFINE new == [at |-> "asked", cursor |-> ixMem.cursor, prompts |-> <<>>]
<1>1. IxRegOK(ixMem, ixTaken, IxCovered) /\ ixMem.cursor \in Nat /\ 1..ixMem.cursor \subseteq IxCovered
  BY IxFields DEF IxInv, IxStoresOK, IxRegOK
<1>2. /\ old \subseteq IxWith(ixMem.inbox, "pending")
      /\ \/ UNCHANGED ixStore
         \/ IxSave([ixMem EXCEPT !.inbox = IxMarked(ixMem.inbox, old, "expired")], ok)
      /\ ixRefresh' = [ixRefresh EXCEPT ![r] = new] \/ ixRefresh' = ixRefresh
      /\ UNCHANGED <<ixLink, ixWay, ixServer, ixLive, ixFlush, ixProducer, ixMessages, ixFate>>
  BY DEF IxRefreshAsk
<1>3. UNCHANGED <<ixTaken, ixMessages, ixLost, ixForgot>>
  BY <1>2 DEF ixServer, ixFate
<1>4. /\ IxStoresOK' /\ IxIdsOK' /\ IxReceiptsOK' /\ IxCovered \subseteq IxCovered'
      /\ ixMem'.outbox = ixMem.outbox /\ ixMem'.checkpoint = ixMem.checkpoint
      /\ ixMem'.session = ixMem.session
  <2>1. CASE UNCHANGED ixStore
    <3>1. UNCHANGED <<ixMem, ixDisk, ixSeen>>
      BY <2>1 DEF ixStore
    <3>2. IxCovered' = IxCovered /\ IxSent' = IxSent
      BY <1>3, <3>1 DEF IxCovered, IxSent
    <3>3. IxStoresOK' /\ IxIdsOK'
      BY <1>3, <3>1, <3>2 DEF IxInv, IxStoresOK, IxIdsOK
    <3>4. IxReceiptsOK'
      BY <1>3, <3>1, <3>2 DEF IxInv, IxReceiptsOK
    <3> QED
      BY <3>1, <3>2, <3>3, <3>4
  <2>2. CASE IxSave([ixMem EXCEPT !.inbox = IxMarked(ixMem.inbox, old, "expired")], ok)
    BY <1>2, <1>3, <2>2, IxExpirySaved
  <2> QED
    BY <1>2, <2>1, <2>2
<1>5. new \in IxRefreshState /\ new.cursor = ixMem.cursor /\ Len(new.prompts) <= IxBatch
  <2>1. new \in IxRefreshState /\ new.cursor = ixMem.cursor /\ new.prompts = <<>>
    BY <1>1, IxEmpty DEF IxRefreshState
  <2>2. IxBatch \in Nat /\ Len(<<>>) = 0
    BY IxAssumption
  <2> HIDE DEF new
  <2> QED
    BY <2>1, <2>2
<1> HIDE DEF new
<1>6. IxRefreshesOK' /\ ixRefresh' \in [IxRefreshers -> IxRefreshState]
  <2>1. CASE ixRefresh' = [ixRefresh EXCEPT ![r] = new]
    BY <1>1, <1>4, <1>5, <2>1, IxRefreshMoves
  <2>2. CASE ixRefresh' = ixRefresh
    BY <1>3, <1>4, <2>2, IxStays DEF IxInv, IxVarsOK
  <2> QED
    BY <1>2, <2>1, <2>2
<1>7. IxFlushOK'
  BY <1>2, <1>3, <1>4, IxStays
<1>8. IxProducerOK' /\ IxSessionOK'
  BY <1>2, <1>3, <1>4 DEF IxInv, IxProducerOK, IxSessionOK
<1>9. IxVarsOK'
  BY <1>2, <1>6 DEF IxInv, IxVarsOK, ixServer
<1> QED
  BY <1>4, <1>6, <1>7, <1>8, <1>9 DEF IxInv

(* While memory, file and messages are left alone, so is what is said      *)
(* about them.                                                             *)
LEMMA IxStoreStays ==
  ASSUME IxInv, UNCHANGED <<ixMem, ixDisk, ixTaken, ixSeen, ixLost, ixForgot, ixMessages>>
  PROVE  IxStoresOK' /\ IxIdsOK' /\ IxReceiptsOK' /\ IxCovered' = IxCovered
<1>1. IxCovered' = IxCovered /\ IxSent' = IxSent
  BY DEF IxCovered, IxSent
<1>2. IxStoresOK' /\ IxIdsOK'
  BY <1>1 DEF IxInv, IxStoresOK, IxIdsOK
<1>3. IxReceiptsOK'
  BY <1>1 DEF IxInv, IxReceiptsOK
<1> QED
  BY <1>1, <1>2, <1>3

(* The prompts a poll brings follow the cursor it asked with. *)
LEMMA IxGotStep ==
  ASSUME IxInv, NEW r \in IxRefreshers, IxRefreshGot(r)
  PROVE  IxInv'
<1> DEFINE asked == ixRefresh[r].cursor
           last  == Min({ixPublished, asked + IxBatch})
           count == Min({Len(ixLive), IxBatch})
           polled == [at |-> "got", cursor |-> last, prompts |-> [i \in 1..(last - asked) |-> asked + i]]
           pushed == [at |-> "got", cursor |-> 0, prompts |-> SubSeq(ixLive, 1, count)]
<1>1. /\ asked \in Nat /\ ixPublished \in 0..IxMaxPrompts /\ ixLive \in Seq(IxPrompts)
      /\ IxBatch \in Nat /\ IxMaxPrompts \in Nat
  BY IxAssumption DEF IxInv, IxVarsOK, IxRefreshState
<1>2. /\ ixRefresh[r].at = "asked"
      /\ \/ ixRefresh' = [ixRefresh EXCEPT ![r] = IxNoRefresh] /\ UNCHANGED ixLive
         \/ last > asked /\ ixRefresh' = [ixRefresh EXCEPT ![r] = polled] /\ UNCHANGED ixLive
         \/ /\ ixRefresh' = [ixRefresh EXCEPT ![r] = pushed]
            /\ ixLive' = SubSeq(ixLive, count + 1, Len(ixLive))
      /\ UNCHANGED <<ixStore, ixLink, ixWay, ixServer, ixFlush, ixProducer, ixMessages, ixFate>>
  BY DEF IxRefreshGot
<1>3. UNCHANGED <<ixMem, ixDisk, ixTaken, ixSeen, ixLost, ixForgot, ixMessages>>
  BY <1>2 DEF ixStore, ixServer, ixFate
<1>4. IxStoresOK' /\ IxIdsOK' /\ IxReceiptsOK' /\ IxCovered' = IxCovered
  BY <1>3, IxStoreStays
<1>5. \A p \in 1..asked : p \in IxCovered
  BY <1>2 DEF IxInv, IxRefreshesOK, IxRefreshOK
<1> HIDE DEF asked
<1>6. /\ last \in Nat /\ last <= ixPublished /\ last <= asked + IxBatch
      /\ count \in Nat /\ count <= Len(ixLive) /\ count <= IxBatch
  <2>1. ixPublished \in Nat /\ asked + IxBatch \in Nat /\ Len(ixLive) \in Nat
    BY <1>1
  <2> QED
    BY <1>1, <2>1, MinOfTwo
<1> HIDE DEF last, count
<1>7. IxRefreshesOK' /\ ixRefresh' \in [IxRefreshers -> IxRefreshState] /\ ixLive' \in Seq(IxPrompts)
  <2>1. CASE ixRefresh' = [ixRefresh EXCEPT ![r] = IxNoRefresh] /\ UNCHANGED ixLive
    BY <1>1, <1>4, <2>1, IxRefreshEnds
  <2>2. CASE last > asked /\ ixRefresh' = [ixRefresh EXCEPT ![r] = polled] /\ UNCHANGED ixLive
    <3> DEFINE ps == [i \in 1..(last - asked) |-> asked + i]
    <3>1. ps \in Seq(IxPrompts) /\ Len(ps) = last - asked /\ \A i \in 1..(last - asked) : ps[i] = asked + i
      BY <1>1, <1>6, <2>2 DEF IxPrompts
    <3>2. ASSUME NEW p \in 1..last PROVE p \in IxCovered \/ p \in ToSet(ps)
      <4>1. CASE p <= asked
        BY <1>1, <1>5, <1>6, <4>1
      <4>2. CASE p > asked
        <5>1. p - asked \in 1..(last - asked) /\ asked + (p - asked) = p
          BY <1>1, <1>6, <2>2, <4>2
        <5>2. \E i \in 1..Len(ps) : ps[i] = p
          BY <3>1, <5>1
        <5> HIDE DEF ps
        <5> QED
          BY <3>1, <5>2, ToSetElements
      <4> QED
        BY <1>1, <1>6, <4>1, <4>2
    <3> HIDE DEF ps
    <3>3. /\ polled \in IxRefreshState /\ polled.cursor = last /\ polled.prompts = ps
          /\ polled.at = "got" /\ Len(ps) <= IxBatch
      <4>1. polled = [at |-> "got", cursor |-> last, prompts |-> ps]
        BY DEF ps
      <4>2. Len(ps) <= IxBatch
        BY <1>1, <1>6, <2>2, <3>1
      <4>3. ps \in Seq(IxPrompts) /\ last \in Nat
        BY <1>6, <3>1
      <4> HIDE DEF polled
      <4> QED
        BY <4>1, <4>2, <4>3 DEF IxRefreshState
    <3> HIDE DEF polled
    <3>4. IxRefreshesOK' /\ ixRefresh' \in [IxRefreshers -> IxRefreshState]
      BY <1>4, <2>2, <3>2, <3>3, IxRefreshMoves
    <3> QED
      BY <1>1, <2>2, <3>4
  <2>3. CASE /\ ixRefresh' = [ixRefresh EXCEPT ![r] = pushed]
             /\ ixLive' = SubSeq(ixLive, count + 1, Len(ixLive))
    <3>1. SubSeq(ixLive, 1, count) \in Seq(IxPrompts) /\ Len(SubSeq(ixLive, 1, count)) = count
      BY <1>1, <1>6
    <3>2. /\ pushed \in IxRefreshState /\ 1..pushed.cursor = {} /\ Len(pushed.prompts) <= IxBatch
      BY <1>6, <3>1 DEF IxRefreshState
    <3>3. SubSeq(ixLive, count + 1, Len(ixLive)) \in Seq(IxPrompts)
      BY <1>1, <1>6
    <3> HIDE DEF pushed
    <3>4. IxRefreshesOK' /\ ixRefresh' \in [IxRefreshers -> IxRefreshState]
      BY <1>4, <2>3, <3>2, IxRefreshMoves
    <3> QED
      BY <2>3, <3>3, <3>4
  <2> QED
    BY <1>2, <2>1, <2>2, <2>3
<1>8. IxFlushOK'
  BY <1>2, <1>3, <1>4, IxStays
<1>9. IxProducerOK' /\ IxSessionOK'
  BY <1>2, <1>3 DEF IxInv, IxProducerOK, IxSessionOK
<1>10. IxVarsOK'
  BY <1>2, <1>7 DEF IxInv, IxVarsOK, ixServer
<1> QED
  BY <1>4, <1>7, <1>8, <1>9, <1>10 DEF IxInv

(* The server publishes a prompt or drops the session. *)
LEMMA IxServerStep ==
  ASSUME IxInv, IxPublish \/ IxServerDrops
  PROVE  IxInv'
<1>1. /\ UNCHANGED <<ixMem, ixDisk, ixTaken, ixSeen, ixLost, ixForgot, ixMessages>>
      /\ UNCHANGED <<ixFlush, ixRefresh, ixProducer, ixWay>>
      /\ ixLink' = ixLink \/ (ixLink = "up" /\ ixLink' = "dead")
  BY DEF IxPublish, IxServerDrops, ixStore, ixServer, ixFate, ixTasks
<1>2. IxStoresOK' /\ IxIdsOK' /\ IxReceiptsOK' /\ IxCovered' = IxCovered
  BY <1>1, IxStoreStays
<1>3. IxFlushOK' /\ IxRefreshesOK'
  BY <1>1, <1>2, IxStays
<1>4. IxProducerOK' /\ IxSessionOK'
  BY <1>1 DEF IxInv, IxProducerOK, IxSessionOK
<1>5. ixPublished' \in 0..IxMaxPrompts /\ ixLive' \in Seq(IxPrompts)
  <2>1. CASE IxPublish
    <3>1. ixPublished + 1 \in IxPrompts
      BY <2>1, IxAssumption DEF IxPublish, IxPrompts, IxInv, IxVarsOK
    <3>2. ixLive' \in Seq(IxPrompts)
      BY <2>1, <3>1 DEF IxPublish, IxInv, IxVarsOK
    <3> QED
      BY <2>1, <3>1, <3>2 DEF IxPublish, IxPrompts
  <2>2. CASE IxServerDrops
    BY <2>2 DEF IxServerDrops, IxInv, IxVarsOK, ixServer
  <2> QED
    BY <2>1, <2>2
<1>6. IxVarsOK'
  BY <1>1, <1>5 DEF IxInv, IxVarsOK
<1> QED
  BY <1>2, <1>3, <1>4, <1>6 DEF IxInv

(* What a flush sends is in the outbox. *)
LEMMA IxFlushSendStep ==
  ASSUME IxInv, NEW took, NEW acked, NEW answered \in BOOLEAN, IxFlushSend(took, acked, answered)
  PROVE  IxInv'
<1> DEFINE batch == ToSet(SubSeq(ixMem.outbox, 1, Min({IxBatch, Len(ixMem.outbox)})))
<1>1. ixMem.outbox \in Seq(IxMsg)
  BY IxFields DEF IxInv, IxStoresOK, IxRegOK
<1>2. batch \subseteq ToSet(ixMem.outbox) /\ ToSet(ixMem.outbox) \subseteq IxMsg
  <2>1. IxBatch \in Nat /\ Len(ixMem.outbox) \in Nat
    BY <1>1, IxAssumption
  <2>2. Min({IxBatch, Len(ixMem.outbox)}) \in Nat /\ Min({IxBatch, Len(ixMem.outbox)}) <= Len(ixMem.outbox)
    BY <2>1, MinOfTwo
  <2> QED
    BY <1>1, <2>2, ToSetPrefix, ToSetElements
<1>3. /\ took \subseteq batch /\ acked \subseteq took /\ ixTaken' = ixTaken \cup took
      /\ \/ ixFlush' = [at |-> "delete", acked |-> {m.id : m \in acked}]
         \/ ixFlush' = IxNotFlushing
      /\ UNCHANGED <<ixStore, ixLink, ixWay, ixPublished, ixLive, ixRefresh,
                     ixProducer, ixMessages, ixFate>>
  BY DEF IxFlushSend
<1> HIDE DEF batch
<1>4. UNCHANGED <<ixMem, ixDisk, ixSeen, ixLost, ixForgot, ixMessages>> /\ IxCovered' = IxCovered
  BY <1>3 DEF ixStore, ixFate, IxCovered
<1>5. IxSent' = IxSent /\ ixTaken' \subseteq IxMsg /\ ixTaken \subseteq ixTaken'
  BY <1>2, <1>3, <1>4 DEF IxSent, IxInv, IxVarsOK
<1>6. IxStoresOK'
  BY <1>4, <1>5, IxRegGrows DEF IxInv, IxStoresOK
<1>7. IxIdsOK'
  BY <1>4, <1>5 DEF IxInv, IxIdsOK
<1>8. IxReceiptsOK'
  BY <1>4, <1>5 DEF IxInv, IxReceiptsOK
<1>9. IxFlushOK' /\ ixFlush' \in IxFlushState
  <2>1. CASE ixFlush' = [at |-> "delete", acked |-> {m.id : m \in acked}]
    <3>1. acked \subseteq IxMsg /\ acked \subseteq ixTaken'
      BY <1>2, <1>3
    <3>2. {m.id : m \in acked} \subseteq Nat
      BY <3>1 DEF IxMsg
    <3>3. ixFlush' \in IxFlushState /\ ixFlush'.acked = {m.id : m \in acked}
      BY <2>1, <3>2 DEF IxFlushState
    <3> QED
      BY <3>1, <3>3 DEF IxFlushOK
  <2>2. CASE ixFlush' = IxNotFlushing
    BY <1>4, <1>5, <2>2, IxStays DEF IxNotFlushing, IxFlushState
  <2> QED
    BY <1>3, <2>1, <2>2
<1>10. IxRefreshesOK'
  BY <1>3, <1>4, <1>5, IxStays
<1>11. IxProducerOK' /\ IxSessionOK'
  BY <1>3, <1>4, <1>5 DEF IxInv, IxProducerOK, IxSessionOK, IxHandled
<1>12. IxVarsOK'
  BY <1>3, <1>5, <1>9 DEF IxInv, IxVarsOK
<1> QED
  BY <1>6, <1>7, <1>8, <1>9, <1>10, <1>11, <1>12 DEF IxInv

(* A new process has what the file has. *)
LEMMA IxRestartStep ==
  ASSUME IxInv, IxRestart
  PROVE  IxInv'
<1>1. /\ ixMem' = ixDisk /\ ixLink' = (IF ixDisk.session THEN "dead" ELSE "down")
      /\ ixLive' = <<>> /\ ixFlush' = IxNotFlushing /\ ixProducer' = "idle"
      /\ ixRefresh' = [r \in IxRefreshers |-> IxNoRefresh]
      /\ UNCHANGED <<ixDisk, ixWay, ixPublished, ixTaken, ixMessages, ixSeen, ixLost, ixForgot>>
  BY DEF IxRestart, ixServer, ixFate
<1>2. IxCovered' = IxCovered /\ IxSent' \subseteq IxSent
  BY <1>1 DEF IxCovered, IxSent
<1>3. IxStoresOK' /\ IxIdsOK'
  BY <1>1, <1>2 DEF IxInv, IxStoresOK, IxIdsOK
<1>4. IxReceiptsOK'
  BY <1>1, <1>2 DEF IxInv, IxReceiptsOK
<1>5. IxFlushOK'
  BY <1>1, <1>2, IxStays
<1>6. IxRefreshesOK'
  <2>1. 1..IxNoRefresh.cursor = {}
    BY IxNoRefreshOK
  <2> QED
    BY <1>1, <2>1, IxNoRefreshOK DEF IxRefreshesOK, IxRefreshOK
<1>7. IxProducerOK' /\ IxSessionOK'
  BY <1>1 DEF IxProducerOK, IxSessionOK
<1>8. IxVarsOK'
  <2>1. IxNotFlushing \in IxFlushState
    BY DEF IxNotFlushing, IxFlushState
  <2> QED
    BY <1>1, <2>1, IxNoRefreshOK, IxEmpty DEF IxInv, IxVarsOK
<1> QED
  BY <1>3, <1>4, <1>5, <1>6, <1>7, <1>8 DEF IxInv

(* A new message has an id no other has. *)
LEMMA IxNewMessage ==
  ASSUME IxInv, NEW of \in {"insight", "receipt"} \X Nat
  PROVE  /\ IxMessage(of) \in IxMsg /\ IxMessage(of).of = of
         /\ IxMessage(of).id = ixMessages + 1
         /\ Append(ixMem.outbox, IxMessage(of)) \in Seq(IxMsg)
         /\ ToSet(Append(ixMem.outbox, IxMessage(of))) = ToSet(ixMem.outbox) \cup {IxMessage(of)}
<1>1. ixMessages + 1 \in Nat \ {0}
  BY DEF IxInv, IxVarsOK
<1>2. IxMessage(of) \in IxMsg /\ IxMessage(of).of = of /\ IxMessage(of).id = ixMessages + 1
  BY <1>1 DEF IxMessage, IxMsg
<1>3. ixMem.outbox \in Seq(IxMsg)
  BY IxFields DEF IxInv, IxStoresOK, IxRegOK
<1> QED
  BY <1>2, <1>3, ToSetAppend

(* Ids stay unique when one message is added. *)
LEMMA IxIdsGrow ==
  ASSUME IxInv, ixMessages' = ixMessages + 1, NEW m, m.id = ixMessages + 1,
         IxSent' \subseteq IxSent \cup {m}
  PROVE  IxIdsOK'
<1>1. ixMessages \in Nat /\ \A n \in IxSent : n.id <= ixMessages /\ n.id \in Nat
  <2>1. IxSent \subseteq IxMsg
    <3>1. ixMem.outbox \in Seq(IxMsg) /\ ixDisk.outbox \in Seq(IxMsg)
      BY IxFields DEF IxInv, IxStoresOK, IxRegOK
    <3>2. ToSet(ixMem.outbox) \subseteq IxMsg /\ ToSet(ixDisk.outbox) \subseteq IxMsg
      BY <3>1, ToSetElements
    <3> QED
      BY <3>2 DEF IxSent, IxInv, IxVarsOK
  <2> QED
    BY <2>1 DEF IxInv, IxIdsOK, IxVarsOK, IxMsg
<1>2. \A n \in IxSent' : n \in IxSent \/ n = m
  OBVIOUS
<1>3. \A n \in IxSent' : n.id <= ixMessages'
  BY <1>1, <1>2
<1>4. \A n, o \in IxSent' : n.id = o.id => n = o
  BY <1>1, <1>2 DEF IxInv, IxIdsOK
<1> QED
  BY <1>3, <1>4 DEF IxIdsOK

(* The producer enqueues the insight after its checkpoint. *)
LEMMA IxProduceStep ==
  ASSUME IxInv, NEW ok \in BOOLEAN, IxProduce(ok)
  PROVE  IxInv'
<1> DEFINE of == <<"insight", ixMem.checkpoint + 1>>
           msg == IxMessage(of)
           out == Append(ixMem.outbox, msg)
           reg == [ixMem EXCEPT !.outbox = out]
<1>1. /\ IxRegOK(ixMem, ixTaken, IxCovered) /\ ixMem \in IxRegistry
      /\ ixMem.checkpoint \in Nat
  BY IxFields DEF IxInv, IxStoresOK, IxRegOK
<1>2. /\ IxSave(reg, ok) /\ ixMessages' = ixMessages + 1
      /\ ixProducer' = "idle" \/ ixProducer' = "enqueued"
      /\ UNCHANGED <<ixLink, ixWay, ixServer, ixLive, ixFlush, ixRefresh, ixFate>>
  BY DEF IxProduce
<1>3. of \in {"insight", "receipt"} \X Nat /\ \A p : of # <<"receipt", p>>
  BY <1>1
<1> HIDE DEF of
<1>4. /\ msg \in IxMsg /\ msg.of = of /\ msg.id = ixMessages + 1
      /\ out \in Seq(IxMsg) /\ ToSet(out) = ToSet(ixMem.outbox) \cup {msg}
  BY <1>3, IxNewMessage
<1> HIDE DEF msg, out
<1>5. /\ reg \in IxRegistry /\ reg.session = ixMem.session /\ reg.outbox = out
      /\ reg.inbox = ixMem.inbox /\ reg.cursor = ixMem.cursor
      /\ reg.checkpoint = ixMem.checkpoint
  BY <1>1, <1>4, IxFields
<1> HIDE DEF reg
<1>6. UNCHANGED <<ixTaken, ixLost, ixForgot>>
  BY <1>2 DEF ixServer, ixFate
<1>7. IxCovered \subseteq IxCovered'
  BY <1>2, <1>6 DEF IxSave, IxCovered
<1>8. IxRegOK(reg, ixTaken, IxCovered')
  <2>1. \A o : IxHandled(ixMem.outbox, ixTaken, o) => IxHandled(reg.outbox, ixTaken, o)
    BY <1>4, <1>5 DEF IxHandled
  <2> QED
    BY <1>1, <1>5, <1>7, <2>1 DEF IxRegOK
<1>9. /\ IxStoresOK' /\ ixMem' = reg /\ ixDisk' \in {reg, ixDisk}
      /\ IxSent' \subseteq ToSet(reg.outbox) \cup IxSent
  BY <1>2, <1>6, <1>8, IxSaves
<1>10. IxSent' \subseteq IxSent \cup {msg}
  BY <1>4, <1>5, <1>9 DEF IxSent
<1>11. IxIdsOK'
  BY <1>2, <1>4, <1>10, IxIdsGrow
<1>12. IxReceiptsOK'
  <2> SUFFICES ASSUME NEW m \in IxSent', NEW p \in IxPrompts \ ixForgot', m.of = <<"receipt", p>>
               PROVE  /\ IxAnswered(p) \in ToSet(ixMem.inbox)'
                      /\ IxAnswered(p) \in ToSet(ixDisk.inbox)'
                      /\ \A n \in IxSent' : n.of = m.of => n = m
    BY DEF IxReceiptsOK, IxAnswered
  <2>1. m \in IxSent /\ p \in IxPrompts \ ixForgot
    BY <1>3, <1>4, <1>6, <1>10
  <2>2. /\ IxAnswered(p) \in ToSet(ixMem.inbox) /\ IxAnswered(p) \in ToSet(ixDisk.inbox)
        /\ \A n \in IxSent : n.of = m.of => n = m
    BY <2>1 DEF IxInv, IxReceiptsOK, IxAnswered
  <2>3. \A n \in IxSent' : n.of = m.of => n \in IxSent
    BY <1>3, <1>4, <1>10
  <2> QED
    BY <1>5, <1>9, <2>2, <2>3
<1>13. IxFlushOK' /\ IxRefreshesOK'
  BY <1>2, <1>6, <1>7, IxStays
<1>14. IxProducerOK' /\ IxSessionOK'
  <2>1. IxHandled(reg.outbox, ixTaken, <<"insight", reg.checkpoint + 1>>)
    BY <1>4, <1>5 DEF IxHandled, of
  <2> QED
    BY <1>2, <1>5, <1>6, <1>9, <2>1 DEF IxInv, IxProducerOK, IxSessionOK
<1>15. IxVarsOK'
  BY <1>2 DEF IxInv, IxVarsOK, ixServer
<1> QED
  BY <1>9, <1>11, <1>12, <1>13, <1>14, <1>15 DEF IxInv

(* Answering a prompt changes its entry alone. *)
LEMMA IxAnswersOK ==
  ASSUME NEW inbox \in Seq(IxEntry), IxUnique(inbox), NEW p \in IxPrompts,
         p \in IxWith(inbox, "pending")
  PROVE  LET new == IxMarked(inbox, {p}, "answered") IN
         /\ new \in Seq(IxEntry) /\ IxUnique(new) /\ IxAnswered(p) \in ToSet(new)
         /\ \A e \in ToSet(new) : e = IxAnswered(p) \/ (e.prompt # p /\ e \in ToSet(inbox))
         /\ \A e \in ToSet(inbox) : e.prompt # p => e \in ToSet(new)
         /\ \A e \in ToSet(inbox) : e.prompt = p => e.status = "pending"
<1> DEFINE X(e) == IF e.prompt \in {p} THEN [e EXCEPT !.status = "answered"] ELSE e
           new == IxMarked(inbox, {p}, "answered")
<1>1. \A e \in IxEntry : /\ X(e) \in IxEntry /\ X(e).prompt = e.prompt
                         /\ e.prompt = p => X(e) = IxAnswered(p)
                         /\ e.prompt # p => X(e) = e
  BY DEF IxEntry, IxAnswered
<1>2. \A i \in 1..Len(inbox) : inbox[i] \in IxEntry
  OBVIOUS
<1>3. new = [i \in 1..Len(inbox) |-> X(inbox[i])] /\ Len(inbox) \in Nat
  BY DEF IxMarked
<1> HIDE DEF X, new
<1>4. new \in Seq(IxEntry)
  BY <1>1, <1>2, <1>3
<1>5. \A e : e \in ToSet(new) <=> \E f \in ToSet(inbox) : e = X(f)
  BY <1>3 DEF ToSet
<1>6. ToSet(inbox) \subseteq IxEntry
  BY ToSetElements
<1>7. IxUnique(new)
  BY <1>1, <1>5, <1>6 DEF IxUnique
<1>8. \A e \in ToSet(new) : e = IxAnswered(p) \/ (e.prompt # p /\ e \in ToSet(inbox))
  BY <1>1, <1>5, <1>6
<1>9. PICK f \in ToSet(inbox) : f.prompt = p /\ f.status = "pending"
  BY IxInElements
<1>10. IxAnswered(p) \in ToSet(new)
  BY <1>1, <1>5, <1>6, <1>9
<1>11. \A e \in ToSet(inbox) : e.prompt # p => e \in ToSet(new)
  BY <1>1, <1>5, <1>6
<1>12. \A e \in ToSet(inbox) : e.prompt = p => e.status = "pending"
  BY <1>9 DEF IxUnique
<1> QED
  BY <1>4, <1>7, <1>8, <1>10, <1>11, <1>12 DEF new

(* The user answers a prompt: the entry and its receipt are saved together, *)
(* or the answer counts as forgotten.                                      *)
LEMMA IxReceiptStep ==
  ASSUME IxInv, NEW p \in IxPrompts, NEW ok \in BOOLEAN, IxReceipt(p, ok)
  PROVE  IxInv'
<1> DEFINE of == <<"receipt", p>>
           msg == IxMessage(of)
           out == Append(ixMem.outbox, msg)
           inbox == IxMarked(ixMem.inbox, {p}, "answered")
           reg == [ixMem EXCEPT !.inbox = inbox, !.outbox = out]
<1>1. /\ IxRegOK(ixMem, ixTaken, IxCovered) /\ ixMem \in IxRegistry
      /\ ixMem.inbox \in Seq(IxEntry) /\ IxUnique(ixMem.inbox)
  BY IxFields DEF IxInv, IxStoresOK, IxRegOK
<1>2. /\ p \in IxWith(ixMem.inbox, "pending")
      /\ IxSave(reg, ok) /\ ixMessages' = ixMessages + 1
      /\ ixForgot' = IF ok THEN ixForgot ELSE ixForgot \cup {p}
      /\ UNCHANGED <<ixLost, ixLink, ixWay, ixServer, ixLive, ixTasks>>
  BY DEF IxReceipt
<1>3. of \in {"insight", "receipt"} \X Nat
  BY DEF IxPrompts
<1>4. /\ msg \in IxMsg /\ msg.of = of /\ msg.id = ixMessages + 1
      /\ out \in Seq(IxMsg) /\ ToSet(out) = ToSet(ixMem.outbox) \cup {msg}
  BY <1>3, IxNewMessage
<1>5. /\ inbox \in Seq(IxEntry) /\ IxUnique(inbox) /\ IxAnswered(p) \in ToSet(inbox)
      /\ \A e \in ToSet(inbox) : e = IxAnswered(p) \/ (e.prompt # p /\ e \in ToSet(ixMem.inbox))
      /\ \A e \in ToSet(ixMem.inbox) : e.prompt # p => e \in ToSet(inbox)
      /\ \A e \in ToSet(ixMem.inbox) : e.prompt = p => e.status = "pending"
  BY <1>1, <1>2, IxAnswersOK
<1> HIDE DEF of, msg, out, inbox
<1>6. /\ reg \in IxRegistry /\ reg.session = ixMem.session /\ reg.outbox = out
      /\ reg.inbox = inbox /\ reg.cursor = ixMem.cursor
      /\ reg.checkpoint = ixMem.checkpoint
  BY <1>1, <1>4, <1>5 DEF IxRegistry
<1> HIDE DEF reg
<1>7. UNCHANGED <<ixTaken, ixLost>> /\ ixForgot \subseteq ixForgot'
  BY <1>2 DEF ixServer
<1>8. IxCovered \subseteq IxCovered'
  BY <1>2, <1>7 DEF IxSave, IxCovered
<1>9. \A o : IxHandled(ixMem.outbox, ixTaken, o) => IxHandled(reg.outbox, ixTaken, o)
  BY <1>4, <1>6 DEF IxHandled
<1>10. IxRegOK(reg, ixTaken, IxCovered')
  <2>1. IxHandled(reg.outbox, ixTaken, <<"receipt", IxAnswered(p).prompt>>)
    BY <1>4, <1>6 DEF IxHandled, of, IxAnswered
  <2>2. \A e \in ToSet(inbox) :
          e.status = "answered" => IxHandled(reg.outbox, ixTaken, <<"receipt", e.prompt>>)
    BY <1>1, <1>5, <1>9, <2>1 DEF IxRegOK
  <2> QED
    BY <1>1, <1>5, <1>6, <1>8, <1>9, <2>2 DEF IxRegOK
<1>11. /\ IxStoresOK' /\ ixMem' = reg /\ ixDisk' \in {reg, ixDisk}
       /\ IxSent' \subseteq ToSet(reg.outbox) \cup IxSent
  BY <1>2, <1>7, <1>10, IxSaves
<1>12. IxSent' \subseteq IxSent \cup {msg}
  BY <1>4, <1>6, <1>11 DEF IxSent
<1>13. IxIdsOK'
  BY <1>2, <1>4, <1>12, IxIdsGrow
<1>14. IxReceiptsOK'
  <2> SUFFICES ASSUME NEW m \in IxSent', NEW q \in IxPrompts \ ixForgot', m.of = <<"receipt", q>>
               PROVE  /\ IxAnswered(q) \in ToSet(ixMem.inbox)'
                      /\ IxAnswered(q) \in ToSet(ixDisk.inbox)'
                      /\ \A n \in IxSent' : n.of = m.of => n = m
    BY DEF IxReceiptsOK, IxAnswered
  <2>1. q \notin ixForgot
    BY <1>7
  <2>2. \A n \in IxSent : n.of = <<"receipt", q>> =>
          /\ IxAnswered(q) \in ToSet(ixMem.inbox) /\ IxAnswered(q) \in ToSet(ixDisk.inbox)
          /\ \A o \in IxSent : o.of = n.of => o = n
    BY <2>1 DEF IxInv, IxReceiptsOK, IxAnswered
  <2>3. CASE q = p
    <3>1. ok /\ ixDisk' = reg
      BY <1>2, <2>3 DEF IxSave
    <3>2. \A n \in IxSent : n.of # <<"receipt", q>>
      BY <1>5, <2>2, <2>3 DEF IxAnswered
    <3>3. m = msg /\ \A n \in IxSent' : n.of = m.of => n = msg
      BY <1>12, <3>2
    <3> QED
      BY <1>5, <1>6, <1>11, <2>3, <3>1, <3>3
  <2>4. CASE q # p
    <3>1. msg.of # <<"receipt", q>>
      BY <1>4, <2>4 DEF of
    <3>2. m \in IxSent /\ \A n \in IxSent' : n.of = m.of => n \in IxSent
      BY <1>12, <3>1
    <3>3. IxAnswered(q) \in ToSet(ixMem.inbox) /\ IxAnswered(q) \in ToSet(ixDisk.inbox)
      BY <2>2, <3>2
    <3>4. IxAnswered(q) \in ToSet(inbox)
      BY <1>5, <2>4, <3>3 DEF IxAnswered
    <3> QED
      BY <1>6, <1>11, <2>2, <3>2, <3>3, <3>4
  <2> QED
    BY <2>3, <2>4
<1>15. IxFlushOK' /\ IxRefreshesOK'
  BY <1>2, <1>7, <1>8, IxStays DEF ixTasks
<1>16. IxProducerOK' /\ IxSessionOK'
  BY <1>2, <1>6, <1>7, <1>9, <1>11 DEF IxInv, IxProducerOK, IxSessionOK, ixTasks
<1>17. IxVarsOK'
  BY <1>2 DEF IxInv, IxVarsOK, ixServer, ixTasks
<1> QED
  BY <1>11, <1>13, <1>14, <1>15, <1>16, <1>17 DEF IxInv

(* What a merge leaves in the inbox: what was there, then the new prompts, *)
(* pending.                                                                *)
LEMMA IxMergeOK ==
  ASSUME NEW inbox \in Seq(IxEntry), IxUnique(inbox), NEW prompts \in Seq(IxPrompts)
  PROVE  LET merged == IxMerge(inbox, prompts) IN
         /\ merged \in Seq(IxEntry) /\ IxUnique(merged)
         /\ Len(merged) <= Len(inbox) + Len(prompts) /\ Len(inbox) <= Len(merged)
         /\ \A k \in 1..Len(inbox) : merged[k] = inbox[k]
         /\ \A k \in (Len(inbox) + 1)..Len(merged) :
              merged[k].status = "pending" /\ merged[k].prompt \notin IxIn(inbox)
         /\ \A p \in ToSet(prompts) : p \in IxIn(merged)
         /\ ToSet(inbox) \subseteq ToSet(merged)
         /\ \A e \in ToSet(merged) : e \in ToSet(inbox) \/ e.status = "pending"
<1> DEFINE new == Keeping(prompts, ToSet(prompts) \ IxIn(inbox))
           tail == [i \in DOMAIN new |-> IxPending(new[i])]
           merged == inbox \o tail
<1>1. /\ new \in Seq(IxPrompts) /\ Len(new) <= Len(prompts)
      /\ ToSet(new) = ToSet(prompts) \cap (ToSet(prompts) \ IxIn(inbox))
  BY ToSetKeeping
<1> HIDE DEF new
<1>2. \A p \in IxPrompts : /\ IxPending(p) \in IxEntry /\ IxPending(p).prompt = p
                           /\ IxPending(p).status = "pending"
  BY DEF IxPending, IxEntry
<1>3. tail = [i \in 1..Len(new) |-> IxPending(new[i])] /\ Len(new) \in Nat
  BY <1>1
<1>4. \A i \in 1..Len(new) : new[i] \in IxPrompts
  BY <1>1
<1> HIDE DEF tail
<1>5. tail \in Seq(IxEntry) /\ Len(tail) = Len(new) /\ \A i \in 1..Len(new) : tail[i] = IxPending(new[i])
  BY <1>2, <1>3, <1>4
<1>6. /\ merged \in Seq(IxEntry) /\ Len(merged) = Len(inbox) + Len(tail)
      /\ \A k \in 1..Len(inbox) : merged[k] = inbox[k]
      /\ \A k \in 1..Len(tail) : merged[Len(inbox) + k] = tail[k]
  BY <1>5
<1>7. ToSet(merged) = ToSet(inbox) \cup ToSet(tail)
  BY <1>5, ToSetConcat
<1> HIDE DEF merged
<1>8. \A i \in 1..Len(new) : new[i] \in ToSet(new)
  BY <1>1, ToSetElements
<1>9. \A e \in ToSet(tail) : /\ e.status = "pending" /\ e.prompt \notin IxIn(inbox)
                             /\ e = IxPending(e.prompt)
  BY <1>1, <1>2, <1>4, <1>5, <1>8, ToSetElements
<1>10. \A p \in ToSet(new) : IxPending(p) \in ToSet(tail)
  BY <1>1, <1>5, ToSetElements
<1>11. IxUnique(merged)
  <2> SUFFICES ASSUME NEW e \in ToSet(merged), NEW f \in ToSet(merged), e.prompt = f.prompt
               PROVE  e = f
    BY DEF IxUnique
  <2>1. \A g \in ToSet(inbox) : g.prompt \in IxIn(inbox)
    BY IxInElements
  <2>2. CASE e \in ToSet(inbox)
    <3>1. f \in ToSet(inbox)
      BY <1>7, <1>9, <2>1, <2>2
    <3> QED
      BY <2>2, <3>1 DEF IxUnique
  <2>3. CASE e \in ToSet(tail)
    <3>1. f \in ToSet(tail)
      BY <1>7, <1>9, <2>1, <2>3
    <3> QED
      BY <1>9, <2>3, <3>1
  <2> QED
    BY <1>7, <2>2, <2>3
<1>12. /\ Len(merged) <= Len(inbox) + Len(prompts) /\ Len(inbox) <= Len(merged)
  BY <1>1, <1>3, <1>5, <1>6
<1>13. ASSUME NEW k \in (Len(inbox) + 1)..Len(merged)
       PROVE  merged[k].status = "pending" /\ merged[k].prompt \notin IxIn(inbox)
  <2>1. k - Len(inbox) \in 1..Len(tail) /\ Len(inbox) + (k - Len(inbox)) = k
    BY <1>3, <1>5, <1>6
  <2>2. merged[k] = tail[k - Len(inbox)]
    BY <1>6, <2>1
  <2>3. tail[k - Len(inbox)] \in ToSet(tail)
    BY <1>5, <2>1, ToSetElements
  <2> QED
    BY <1>9, <2>2, <2>3
<1>14. ASSUME NEW p \in ToSet(prompts) PROVE p \in IxIn(merged)
  <2>1. p \in IxPrompts
    BY ToSetElements
  <2>2. CASE p \in IxIn(inbox)
    BY <1>6, <1>7, <2>2, IxInElements
  <2>3. CASE p \notin IxIn(inbox)
    BY <1>1, <1>2, <1>6, <1>7, <1>10, <2>1, <2>3, IxInElements
  <2> QED
    BY <2>2, <2>3
<1>15. merged = IxMerge(inbox, prompts)
  BY DEF merged, tail, new, IxMerge
<1> QED
  BY <1>6, <1>7, <1>9, <1>11, <1>12, <1>13, <1>14, <1>15

(* Pruning drops entries and adds none. *)
LEMMA IxPruneOK ==
  ASSUME NEW inbox \in Seq(IxEntry), IxUnique(inbox)
  PROVE  /\ IxPrune(inbox) \in Seq(IxEntry) /\ IxUnique(IxPrune(inbox))
         /\ ToSet(IxPrune(inbox)) \subseteq ToSet(inbox)
         /\ \A i \in 1..Len(inbox) :
              \/ inbox[i] \in ToSet(IxPrune(inbox))
              \/ \E j \in 1..Len(inbox) :
                   /\ inbox[j] = inbox[i]
                   /\ Cardinality(IxBefore(inbox, j)) < Len(inbox) - IxMaxStored
<1> DEFINE gone == {i \in DOMAIN inbox : Cardinality(IxBefore(inbox, i)) < Len(inbox) - IxMaxStored}
           left == ToSet(inbox) \ {inbox[i] : i \in gone}
<1>1. IxPrune(inbox) = Keeping(inbox, left)
  BY DEF IxPrune
<1>2. /\ Keeping(inbox, left) \in Seq(IxEntry)
      /\ ToSet(Keeping(inbox, left)) = ToSet(inbox) \cap left
  BY ToSetKeeping
<1>3. \A i \in 1..Len(inbox) : inbox[i] \in ToSet(inbox)
  BY ToSetElements
<1>4. \A i \in 1..Len(inbox) : inbox[i] \in left \/ \E j \in gone : inbox[j] = inbox[i]
  BY <1>3
<1>5. \A j \in gone : /\ j \in 1..Len(inbox)
                      /\ Cardinality(IxBefore(inbox, j)) < Len(inbox) - IxMaxStored
  OBVIOUS
<1> HIDE DEF left, gone
<1> QED
  BY <1>1, <1>2, <1>3, <1>4, <1>5 DEF IxUnique

(* A batch that fits into the inbox survives the prune of its merge: every *)
(* entry that was there before it is dropped first.                        *)
LEMMA IxBatchSurvives ==
  ASSUME NEW inbox \in Seq(IxEntry), IxUnique(inbox), NEW prompts \in Seq(IxPrompts),
         Len(prompts) <= IxBatch, NEW p \in ToSet(prompts), p \notin IxIn(inbox)
  PROVE  p \in IxIn(IxPrune(IxMerge(inbox, prompts)))
<1> DEFINE merged == IxMerge(inbox, prompts)
           n == Len(inbox)
<1>1. /\ merged \in Seq(IxEntry) /\ IxUnique(merged)
      /\ Len(merged) <= n + Len(prompts) /\ n <= Len(merged)
      /\ \A k \in 1..n : merged[k] = inbox[k]
      /\ \A k \in (n + 1)..Len(merged) :
           merged[k].status = "pending" /\ merged[k].prompt \notin IxIn(inbox)
      /\ p \in IxIn(merged)
  BY IxMergeOK
<1>2. /\ IxPrune(merged) \in Seq(IxEntry)
      /\ \A i \in 1..Len(merged) :
              \/ merged[i] \in ToSet(IxPrune(merged))
              \/ \E j \in 1..Len(merged) :
                   /\ merged[j] = merged[i]
                   /\ Cardinality(IxBefore(merged, j)) < Len(merged) - IxMaxStored
  BY <1>1, IxPruneOK
<1>3. n \in Nat /\ Len(merged) \in Nat /\ Len(prompts) \in Nat /\ \A k \in 1..n : inbox[k].prompt \in IxIn(inbox)
  <2>1. \A k \in 1..n : inbox[k] \in ToSet(inbox)
    BY ToSetElements
  <2> QED
    BY <1>1, <2>1, IxInElements
<1> HIDE DEF merged, n
<1>4. \A k \in 1..Len(merged) : merged[k].prompt = p => k \in (n + 1)..Len(merged)
  <2> SUFFICES ASSUME NEW k \in 1..Len(merged), merged[k].prompt = p, ~(k \in (n + 1)..Len(merged))
               PROVE  FALSE
    OBVIOUS
  <2>1. k \in 1..n
    BY <1>3
  <2>2. merged[k] = inbox[k] /\ inbox[k].prompt \in IxIn(inbox)
    BY <1>1, <1>3, <2>1
  <2> QED
    BY <2>2
<1>5. PICK i \in 1..Len(merged) : merged[i].prompt = p
  BY <1>1, IxInElements, ToSetElements
<1>6. ASSUME NEW j \in 1..Len(merged), merged[j] = merged[i],
             Cardinality(IxBefore(merged, j)) < Len(merged) - IxMaxStored
      PROVE  FALSE
  <2>1. j \in (n + 1)..Len(merged) /\ merged[j].status = "pending"
    BY <1>1, <1>4, <1>5, <1>6
  <2>2. 1..n \subseteq IxBefore(merged, j)
    <3> SUFFICES ASSUME NEW k \in 1..n PROVE k \in IxBefore(merged, j)
      OBVIOUS
    <3>1. k < j /\ k \in 1..Len(merged) /\ DOMAIN merged = 1..Len(merged)
      BY <1>1, <1>3, <2>1
    <3> QED
      BY <2>1, <3>1 DEF IxBefore
  <2>3. IsFiniteSet(1..Len(merged)) /\ IsFiniteSet(1..n) /\ Cardinality(1..n) = n
    <3>1. 1 \in Int /\ n \in Int /\ Len(merged) \in Int
      BY <1>3
    <3>2. /\ IsFiniteSet(1..Len(merged)) /\ IsFiniteSet(1..n)
          /\ Cardinality(1..n) = IF 1 > n THEN 0 ELSE n - 1 + 1
      BY <3>1, FS_Interval, Zenon
    <3> QED
      BY <1>3, <3>2
  <2>4. IxBefore(merged, j) \in SUBSET (1..Len(merged))
    BY <1>1 DEF IxBefore
  <2>5. IsFiniteSet(IxBefore(merged, j))
    BY <2>3, <2>4, FS_Subset
  <2>6. n <= Cardinality(IxBefore(merged, j)) /\ Cardinality(IxBefore(merged, j)) \in Nat
    BY <2>2, <2>3, <2>5, FS_Subset, FS_CardinalityType
  <2>7. IxBatch \in Nat /\ IxMaxStored \in Nat /\ IxBatch <= IxMaxStored
    BY IxAssumption
  <2> QED
    BY <1>1, <1>3, <1>6, <2>6, <2>7
<1>7. merged[i] \in ToSet(IxPrune(merged))
  BY <1>2, <1>6
<1>8. p \in IxIn(IxPrune(merged))
  BY <1>2, <1>5, <1>7, IxInElements
<1> QED
  BY <1>8 DEF merged

(* A refresh merges its prompts: an answer it prunes is forgotten, a       *)
(* prompt it prunes before any save is lost, and its own prompts are in    *)
(* the file once the save has succeeded.                                   *)
LEMMA IxUpsertStep ==
  ASSUME IxInv, NEW r \in IxRefreshers, NEW ok \in BOOLEAN, IxRefreshUpsert(r, ok)
  PROVE  IxInv'
<1> DEFINE prompts == ixRefresh[r].prompts
           merged == IxMerge(ixMem.inbox, prompts)
           pruned == IxPrune(merged)
           reg == [ixMem EXCEPT !.inbox = pruned]
           new == [ixRefresh[r] EXCEPT !.at = "stored"]
<1>1. /\ IxRegOK(ixMem, ixTaken, IxCovered) /\ ixMem \in IxRegistry
      /\ ixMem.inbox \in Seq(IxEntry) /\ IxUnique(ixMem.inbox)
  BY IxFields DEF IxInv, IxStoresOK, IxRegOK
<1>2. /\ ixRefresh[r] \in IxRefreshState /\ prompts \in Seq(IxPrompts) /\ Len(prompts) <= IxBatch
      /\ \A p \in 1..ixRefresh[r].cursor : p \in IxCovered \/ p \in ToSet(prompts)
      /\ new \in IxRefreshState /\ new.cursor = ixRefresh[r].cursor /\ new.prompts = prompts
  BY DEF IxInv, IxVarsOK, IxRefreshState, IxRefreshesOK, IxRefreshOK
<1>3. /\ IxSave(reg, ok)
      /\ ixForgot' = ixForgot \cup (IxWith(merged, "answered") \ IxIn(pruned))
      /\ ixLost' = ixLost \cup (IxIn(ixMem.inbox) \ (IxIn(pruned) \cup ixSeen))
      /\ \/ ok /\ ixRefresh' = [ixRefresh EXCEPT ![r] = new]
         \/ ixRefresh' = [ixRefresh EXCEPT ![r] = IxNoRefresh]
      /\ UNCHANGED <<ixLink, ixWay, ixServer, ixLive, ixFlush, ixProducer, ixMessages>>
  BY DEF IxRefreshUpsert
<1>4. /\ merged \in Seq(IxEntry) /\ IxUnique(merged) /\ ToSet(ixMem.inbox) \subseteq ToSet(merged)
      /\ \A e \in ToSet(merged) : e \in ToSet(ixMem.inbox) \/ e.status = "pending"
  BY <1>1, <1>2, IxMergeOK
<1>5. \A p \in ToSet(prompts) : p \in IxIn(ixMem.inbox) \/ p \in IxIn(pruned)
  BY <1>1, <1>2, IxBatchSurvives
<1> HIDE DEF merged, prompts, new
<1>6. pruned \in Seq(IxEntry) /\ IxUnique(pruned) /\ ToSet(pruned) \subseteq ToSet(merged)
  BY <1>4, IxPruneOK
<1> HIDE DEF pruned
<1>7. /\ reg \in IxRegistry /\ reg.session = ixMem.session /\ reg.outbox = ixMem.outbox
      /\ reg.inbox = pruned /\ reg.cursor = ixMem.cursor /\ reg.checkpoint = ixMem.checkpoint
  BY <1>1, <1>6, IxFields
<1> HIDE DEF reg
<1>8. UNCHANGED <<ixTaken, ixMessages>> /\ ixLost \subseteq ixLost' /\ ixForgot \subseteq ixForgot'
  BY <1>3 DEF ixServer
<1>9. IxCovered \subseteq IxCovered'
  BY <1>3, <1>8 DEF IxSave, IxCovered
<1>10. IxRegOK(reg, ixTaken, IxCovered')
  BY <1>1, <1>4, <1>6, <1>7, <1>9 DEF IxRegOK
<1>11. ASSUME NEW p \in IxPrompts \ ixForgot', IxAnswered(p) \in ToSet(ixMem.inbox)
       PROVE  IxAnswered(p) \in ToSet(reg.inbox)
  <2>1. IxAnswered(p) \in ToSet(merged) /\ IxAnswered(p).prompt = p /\ IxAnswered(p).status = "answered"
    BY <1>4, <1>11 DEF IxAnswered
  <2>2. p \in IxIn(pruned)
    BY <1>3, <1>4, <2>1, IxInElements
  <2>3. PICK e \in ToSet(pruned) : e.prompt = p
    BY <1>6, <2>2, IxInElements
  <2>4. e = IxAnswered(p)
    BY <1>4, <1>6, <2>1, <2>3 DEF IxUnique
  <2> QED
    BY <1>7, <2>3, <2>4
<1>12. IxStoresOK' /\ IxIdsOK' /\ IxReceiptsOK' /\ ixMem' = reg
  BY <1>3, <1>7, <1>8, <1>10, <1>11, IxSavesNoMessage
<1>13. IxFlushOK'
  BY <1>3, <1>8, <1>9, IxStays
<1>14. IxRefreshesOK' /\ ixRefresh' \in [IxRefreshers -> IxRefreshState]
  <2>1. CASE ok /\ ixRefresh' = [ixRefresh EXCEPT ![r] = new]
    <3>1. ixSeen' = ixSeen \cup IxIn(pruned)
      BY <1>3, <1>7, <2>1 DEF IxSave
    <3>2. \A p \in ToSet(prompts) : p \in IxCovered'
      BY <1>3, <1>5, <3>1 DEF IxCovered
    <3>3. \A p \in 1..new.cursor : p \in IxCovered'
      BY <1>2, <1>9, <3>2
    <3> QED
      BY <1>2, <1>9, <2>1, <3>3, IxRefreshMoves
  <2>2. CASE ixRefresh' = [ixRefresh EXCEPT ![r] = IxNoRefresh]
    BY <1>9, <2>2, IxRefreshEnds
  <2> QED
    BY <1>3, <2>1, <2>2
<1>15. IxProducerOK' /\ IxSessionOK'
  BY <1>3, <1>7, <1>8, <1>12 DEF IxInv, IxProducerOK, IxSessionOK
<1>16. IxVarsOK'
  BY <1>3, <1>14 DEF IxInv, IxVarsOK, ixServer
<1> QED
  BY <1>12, <1>13, <1>14, <1>15, <1>16 DEF IxInv

(* Every step keeps the invariant, ... *)
LEMMA IxNextInv == IxInv /\ [IxNext]_ixVars => IxInv'
<1> SUFFICES ASSUME IxInv, [IxNext]_ixVars PROVE IxInv'
  OBVIOUS
<1>1. CASE UNCHANGED ixVars
  <2>1. /\ UNCHANGED <<ixMem, ixDisk, ixTaken, ixSeen, ixLost, ixForgot, ixMessages>>
        /\ UNCHANGED <<ixFlush, ixRefresh, ixProducer, ixWay, ixLink, ixPublished, ixLive>>
    BY <1>1 DEF ixVars
  <2>2. IxStoresOK' /\ IxIdsOK' /\ IxReceiptsOK' /\ IxCovered' = IxCovered
    BY <2>1, IxStoreStays
  <2>3. IxFlushOK' /\ IxRefreshesOK'
    BY <2>1, <2>2, IxStays
  <2>4. IxProducerOK' /\ IxSessionOK' /\ IxVarsOK'
    BY <2>1 DEF IxInv, IxProducerOK, IxSessionOK, IxVarsOK
  <2> QED
    BY <2>2, <2>3, <2>4 DEF IxInv
<1>2. ASSUME NEW ok \in BOOLEAN,
             \/ \E answered \in BOOLEAN : IxConnect(answered, ok)
             \/ IxHeartbeat(ok) \/ IxProduce(ok) \/ IxCheckpoint(ok) \/ IxFlushDelete(ok)
      PROVE  IxInv'
  BY <1>2, IxSessionStep, IxProduceStep, IxCheckpointStep, IxFlushDeleteStep
<1>3. ASSUME NEW ok \in BOOLEAN, NEW r \in IxRefreshers, IxRefreshStep(r, ok) PROVE IxInv'
  BY <1>3, IxAskStep, IxGotStep, IxUpsertStep, IxCursorStep DEF IxRefreshStep
<1>4. ASSUME NEW ok \in BOOLEAN,
             \/ \E old \in SUBSET IxWith(ixMem.inbox, "pending") : IxExpire(old, ok)
             \/ \E p \in IxPrompts : IxReceipt(p, ok)
      PROVE  IxInv'
  BY <1>4, IxExpireStep, IxReceiptStep
<1>5. ASSUME \E took, acked \in IxBatchSubsets, answered \in BOOLEAN : IxFlushSend(took, acked, answered)
      PROVE  IxInv'
  BY <1>5, IxFlushSendStep
<1>6. CASE IxServerDrops \/ IxPublish \/ IxRestart
  BY <1>6, IxServerStep, IxRestartStep
<1>7. CASE IxNext
  BY <1>2, <1>3, <1>4, <1>5, <1>6, <1>7, Zenon DEF IxNext
<1> QED
  BY <1>1, <1>7

(* ... so it always holds. *)
LEMMA IxInvariant == IxSpec => []IxInv
<1> QED
  BY IxInitInv, IxNextInv, PTL DEF IxSpec

(* Nothing the file counts as handed over is lost: the receipt of an       *)
(* answered prompt, and every insight the checkpoint has passed, is in the *)
(* outbox on disk or with the server (inner.rs:238-288,                    *)
(* producer_coordinator.rs:35-55, egress_coordinator.rs:111-154).          *)
THEOREM NothingForgotten == IxSpec => []IxNothingForgotten
<1>1. IxInv => IxNothingForgotten
  <2> SUFFICES ASSUME IxInv PROVE IxNothingForgotten
    OBVIOUS
  <2>1. IxRegOK(ixDisk, ixTaken, IxCovered) /\ ixDisk.inbox \in Seq(IxEntry)
    BY IxFields DEF IxInv, IxStoresOK, IxRegOK
  <2>2. \A of : IxHandled(ixDisk.outbox, ixTaken, of)
                  => of \in {m.of : m \in ToSet(ixDisk.outbox) \cup ixTaken}
    BY DEF IxHandled
  <2>3. \A p \in IxWith(ixDisk.inbox, "answered") : IxHandled(ixDisk.outbox, ixTaken, <<"receipt", p>>)
    BY <2>1, IxInElements DEF IxRegOK
  <2>4. \A n \in 1..ixDisk.checkpoint : IxHandled(ixDisk.outbox, ixTaken, <<"insight", n>>)
    BY <2>1 DEF IxRegOK
  <2> QED
    BY <2>2, <2>3, <2>4 DEF IxNothingForgotten
<1> QED
  BY <1>1, IxInvariant, PTL

(* The inbox cursor on disk passes only prompts that have been in the file *)
(* or that the inbox dropped after their save had failed, whatever the     *)
(* order in which refreshes store their cursors                            *)
(* (inbox_coordinator.rs:157-189, inner.rs:59-82).                         *)
THEOREM CursorCoversSeen == IxSpec => []IxCursorCoversSeen
<1>1. IxInv => IxCursorCoversSeen
  BY DEF IxInv, IxStoresOK, IxRegOK, IxCovered, IxCursorCoversSeen
<1> QED
  BY <1>1, IxInvariant, PTL

(* The server has two receipts for a prompt only if the registry forgot    *)
(* the first answer (inner.rs:59-82, 159-176, 238-288).                    *)
THEOREM OneReceipt == IxSpec => []IxOneReceipt
<1>1. IxInv => IxOneReceipt
  <2> SUFFICES ASSUME IxInv, NEW p \in IxPrompts, p \notin ixForgot,
                      Cardinality({m \in ixTaken : m.of = <<"receipt", p>>}) > 1
               PROVE  FALSE
    BY DEF IxOneReceipt
  <2> DEFINE S == {m \in ixTaken : m.of = <<"receipt", p>>}
  <2>1. \A m, n \in S : m = n
    BY DEF IxInv, IxReceiptsOK, IxSent
  <2> HIDE DEF S
  <2>2. CASE S = {}
    BY <2>2, FS_EmptySet DEF S
  <2>3. CASE S # {}
    <3>1. PICK m \in S : TRUE
      BY <2>3
    <3>2. S = {m}
      BY <2>1, <3>1
    <3>3. Cardinality(S) = 1
      BY <3>2, FS_Singleton
    <3> QED
      BY <3>3 DEF S
  <2> QED
    BY <2>2, <2>3
<1> QED
  BY <1>1, IxInvariant, PTL

(* A dead session that the file names is never replaced, and the server    *)
(* gets nothing from then on (runtime_loop.rs:107-131,                     *)
(* http_transport/mod.rs:50-68).                                           *)
THEOREM DeadSessionStays == IxSpec => IxDeadSessionStays
<1> DEFINE A == ixLink = "dead" /\ ixDisk.session =>
                  /\ ixLink' = "dead" /\ ixDisk'.session
                  /\ ixTaken' = ixTaken
<1>1. IxInv /\ [IxNext]_ixVars => [A]_ixVars
  <2> SUFFICES ASSUME IxInv, IxNext, ixLink = "dead", ixDisk.session
               PROVE  ixLink' = "dead" /\ ixDisk'.session /\ ixTaken' = ixTaken
    OBVIOUS
  <2>1. ixMem \in IxRegistry /\ ixMem.session
    BY DEF IxInv, IxStoresOK, IxRegOK, IxSessionOK
  <2>2. ixLink' = "dead" /\ ixTaken' = ixTaken
    BY DEF IxNext, IxRefreshStep, IxConnect, IxHeartbeat, IxProduce, IxCheckpoint, IxFlushDelete,
           IxRefreshAsk, IxRefreshGot, IxRefreshUpsert, IxRefreshCursor, IxExpire, IxReceipt,
           IxFlushSend, IxServerDrops, IxPublish, IxRestart, ixServer
  <2>3. IxInv'
    BY IxNextInv
  <2>4. ixMem'.session
    BY <2>2, <2>3 DEF IxInv, IxSessionOK
  <2>5. ixDisk' \in {ixDisk, ixMem'}
    <3>1. \A reg, ok : IxSave(reg, ok) => ixDisk' \in {ixDisk, ixMem'}
      BY DEF IxSave
    <3>2. ASSUME NEW ok \in BOOLEAN,
                 \/ \E answered \in BOOLEAN : IxConnect(answered, ok)
                 \/ IxHeartbeat(ok) \/ IxProduce(ok) \/ IxCheckpoint(ok) \/ IxFlushDelete(ok)
          PROVE  ixDisk' \in {ixDisk, ixMem'}
      BY <3>1, <3>2, Zenon DEF IxConnect, IxHeartbeat, IxProduce, IxCheckpoint, IxFlushDelete
    <3>3. ASSUME NEW ok \in BOOLEAN, NEW r \in IxRefreshers, IxRefreshStep(r, ok)
          PROVE  ixDisk' \in {ixDisk, ixMem'}
      BY <3>1, <3>3 DEF IxRefreshStep, IxRefreshAsk, IxRefreshGot, IxRefreshUpsert,
                        IxRefreshCursor, ixStore
    <3>4. ASSUME NEW ok \in BOOLEAN,
                 \/ \E old \in SUBSET IxWith(ixMem.inbox, "pending") : IxExpire(old, ok)
                 \/ \E p \in IxPrompts : IxReceipt(p, ok)
          PROVE  ixDisk' \in {ixDisk, ixMem'}
      BY <3>1, <3>4, Zenon DEF IxExpire, IxReceipt
    <3>5. ASSUME \/ IxServerDrops \/ IxPublish \/ IxRestart
                 \/ \E took, acked \in IxBatchSubsets, answered \in BOOLEAN :
                      IxFlushSend(took, acked, answered)
          PROVE  ixDisk' \in {ixDisk, ixMem'}
      BY <3>5 DEF IxFlushSend, IxServerDrops, IxPublish, IxRestart, ixStore
    <3> QED
      BY <3>2, <3>3, <3>4, <3>5, Zenon DEF IxNext
  <2> QED
    BY <2>2, <2>4, <2>5
<1> QED
  BY <1>1, IxInvariant, PTL DEF IxSpec, IxDeadSessionStays

-----------------------------------------------------------------------------
(***************************************************************************)
(* Bounds of the integration runtime, above all that of the inbox.  Its    *)
(* prune drops the positions with few others before them, so the number it *)
(* drops has to be counted.                                                *)
(***************************************************************************)

(* In a strict order on the positions 1..n, where B[i] are the positions   *)
(* before i, at least k positions have fewer than k before them.           *)
LEMMA LowRanks ==
  ASSUME NEW n \in Nat, NEW B \in [1..n -> SUBSET (1..n)],
         \A i \in 1..n : i \notin B[i],
         \A i \in 1..n : \A j \in B[i] : B[j] \subseteq B[i]
  PROVE  \A k \in 0..n : k <= Cardinality({i \in 1..n : Cardinality(B[i]) < k})
<1> DEFINE L(k) == {i \in 1..n : Cardinality(B[i]) < k}
           G == {k \in 0..n : k <= Cardinality(L(k))}
<1>1. IsFiniteSet(1..n) /\ Cardinality(1..n) = n
  <2>1. 1 \in Int /\ n \in Int
    OBVIOUS
  <2>2. IsFiniteSet(1..n) /\ Cardinality(1..n) = IF 1 > n THEN 0 ELSE n - 1 + 1
    BY <2>1, FS_Interval, Zenon
  <2> QED
    BY <2>2
<1>2. \A S \in SUBSET (1..n) : IsFiniteSet(S) /\ Cardinality(S) \in Nat
  BY <1>1, FS_Subset, FS_CardinalityType
<1>3. \A k : L(k) \in SUBSET (1..n)
  OBVIOUS
<1>4. \A k : IsFiniteSet(L(k)) /\ Cardinality(L(k)) \in Nat
  BY <1>2, <1>3, Zenon
<1>5. 0 \in G
  <2>1. 0 <= Cardinality(L(0))
    <3> DEFINE c == Cardinality(L(0))
    <3>1. c \in Nat
      BY <1>4, Zenon
    <3> HIDE DEF c
    <3>2. 0 <= c
      BY <3>1
    <3> QED
      BY <3>2 DEF c
  <2>2. 0 \in 0..n
    OBVIOUS
  <2> QED
    BY <2>1, <2>2, Zenon
<1>6. ASSUME NEW k \in 0..(n - 1), k \in G PROVE k + 1 \in G
  <2> DEFINE c == Cardinality(L(k))
             d == Cardinality(L(k + 1))
  <2>1. c \in Nat /\ d \in Nat
    BY <1>4, Zenon
  <2>2. k <= c
    BY <1>6, Zenon
  <2>3. L(k) \subseteq L(k + 1)
    <3> SUFFICES ASSUME NEW i \in 1..n, Cardinality(B[i]) < k PROVE Cardinality(B[i]) < k + 1
      OBVIOUS
    <3>1. B[i] \in SUBSET (1..n)
      OBVIOUS
    <3>2. Cardinality(B[i]) \in Nat
      BY <1>2, <3>1, Zenon
    <3> QED
      BY <3>2
  <2>4. c <= d
    <3>1. IsFiniteSet(L(k + 1)) /\ L(k) \in SUBSET L(k + 1)
      BY <1>4, <2>3, Zenon
    <3> HIDE DEF L
    <3> QED
      BY <3>1, FS_Subset, Zenon DEF c, d
  <2>5. CASE c >= k + 1
    <3>1. k + 1 <= d
      <4> HIDE DEF c, d
      <4> QED
        BY <2>1, <2>4, <2>5
    <3>2. k + 1 \in 0..n
      OBVIOUS
    <3> QED
      BY <3>1, <3>2, Zenon DEF d
  <2>6. CASE ~(c >= k + 1)
    <3>1. c = k
      <4> HIDE DEF c, d
      <4> QED
        BY <2>1, <2>2, <2>6
    <3> DEFINE rest == (1..n) \ L(k)
               R == {Cardinality(B[i]) : i \in rest}
    <3>2. rest # {}
      <4> SUFFICES ASSUME rest = {} PROVE FALSE
        OBVIOUS
      <4>1. L(k) = 1..n
        BY <1>3, Zenon
      <4>2. c = n
        BY <1>1, <4>1, Zenon DEF c
      <4> HIDE DEF c, d, L
      <4> QED
        BY <3>1, <4>2
    <3>3. \A i \in rest : i \in 1..n /\ B[i] \in SUBSET (1..n)
      OBVIOUS
    <3>4. \A i \in rest : Cardinality(B[i]) \in Nat
      BY <1>2, <3>3, Zenon
    <3>5. R \subseteq Nat /\ R # {} /\ \A i \in rest : Cardinality(B[i]) \in R
      <4> HIDE DEF rest, L
      <4>1. \A i \in rest : Cardinality(B[i]) \in R
        OBVIOUS
      <4>2. R \subseteq Nat
        BY <3>4
      <4>3. R # {}
        BY <3>2
      <4> QED
        BY <4>1, <4>2, <4>3
    <3>6. PICK x \in R : \A y \in R : x <= y
      BY <3>5, LeastNat, Zenon
    <3>7. PICK m \in rest : x = Cardinality(B[m])
      BY <3>6, Zenon
    <3>8. \A i \in rest : Cardinality(B[m]) <= Cardinality(B[i])
      BY <3>5, <3>6, <3>7, Zenon
    <3>9. B[m] \subseteq L(k)
      <4> SUFFICES ASSUME NEW j \in B[m], j \notin L(k) PROVE FALSE
        OBVIOUS
      <4>1. j \in rest /\ j \in 1..n /\ m \in 1..n
        BY <3>3, <3>7, Zenon
      <4>2. B[j] \subseteq B[m] /\ j \notin B[j]
        BY <4>1, Zenon
      <4>3. IsFiniteSet(B[m]) /\ Cardinality(B[m]) \in Nat /\ Cardinality(B[j]) \in Nat
        BY <1>2, <3>3, <4>1, Zenon
      <4>4. /\ Cardinality(B[j]) <= Cardinality(B[m])
            /\ Cardinality(B[m]) = Cardinality(B[j]) => B[m] = B[j]
        <5>1. B[j] \in SUBSET B[m]
          BY <4>2, Zenon
        <5> QED
          BY <4>3, <5>1, FS_Subset, Zenon
      <4>5. Cardinality(B[m]) # Cardinality(B[j])
        BY <4>2, <4>4, Zenon
      <4>6. Cardinality(B[m]) <= Cardinality(B[j])
        BY <3>8, <4>1, Zenon
      <4> QED
        BY <4>3, <4>4, <4>5, <4>6
    <3>10. Cardinality(B[m]) <= k /\ Cardinality(B[m]) \in Nat
      <4>1. B[m] \in SUBSET L(k) /\ IsFiniteSet(L(k))
        BY <1>4, <3>9, Zenon
      <4>2. Cardinality(B[m]) <= c
        <5> HIDE DEF L
        <5> QED
          BY <4>1, FS_Subset, Zenon DEF c
      <4>3. Cardinality(B[m]) \in Nat
        BY <3>4, Zenon
      <4> HIDE DEF c, d, L
      <4> QED
        BY <3>1, <4>2, <4>3
    <3>11. m \in L(k + 1) /\ m \notin L(k)
      <4>1. Cardinality(B[m]) < k + 1
        BY <3>10
      <4> QED
        BY <3>3, <4>1, Zenon
    <3>12. Cardinality(L(k) \cup {m}) = c + 1 /\ L(k) \cup {m} \in SUBSET L(k + 1)
      <4>1. IsFiniteSet(L(k))
        BY <1>4, Zenon
      <4>2. L(k) \cup {m} \in SUBSET L(k + 1)
        BY <2>3, <3>11, Zenon
      <4>3. m \notin L(k)
        BY <3>11
      <4> HIDE DEF L
      <4>4. Cardinality(L(k) \cup {m}) = IF m \in L(k) THEN Cardinality(L(k)) ELSE Cardinality(L(k)) + 1
        BY <4>1, FS_AddElement, Zenon
      <4> QED
        BY <4>2, <4>3, <4>4, Zenon DEF c
    <3>13. Cardinality(L(k) \cup {m}) <= d
      <4>1. IsFiniteSet(L(k + 1))
        BY <1>4, Zenon
      <4> HIDE DEF L
      <4> QED
        BY <3>12, <4>1, FS_Subset, Zenon DEF d
    <3>14. k + 1 <= d /\ k + 1 \in 0..n
      <4> HIDE DEF c, d, L
      <4> QED
        BY <2>1, <3>1, <3>12, <3>13
    <3> QED
      BY <3>14, Zenon DEF d
  <2> QED
    BY <2>5, <2>6
<1>7. 0..n \subseteq G
  <2> HIDE DEF G
  <2> QED
    BY <1>5, <1>6, UpTo
<1> QED
  BY <1>7, Zenon

(* No prompt is at two positions, and no value is. *)
IxApart(inbox) == \A i, j \in 1..Len(inbox) : inbox[i].prompt = inbox[j].prompt => i = j
IxOnce(s) == \A i, j \in 1..Len(s) : s[i] = s[j] => i = j

(* The order of the prune is strict. *)
LEMMA IxBeforeOrder ==
  ASSUME NEW inbox \in Seq(IxEntry), NEW i \in 1..Len(inbox)
  PROVE  /\ IxBefore(inbox, i) \in SUBSET (1..Len(inbox)) /\ i \notin IxBefore(inbox, i)
         /\ \A j \in IxBefore(inbox, i) : IxBefore(inbox, j) \subseteq IxBefore(inbox, i)
<1> DEFINE e(k) == inbox[k].status # "pending"
<1>1. DOMAIN inbox = 1..Len(inbox)
  OBVIOUS
<1>2. ASSUME NEW k \in 1..Len(inbox)
      PROVE  \A j \in 1..Len(inbox) :
               j \in IxBefore(inbox, k) <=> (e(j) /\ ~e(k)) \/ ((e(j) <=> e(k)) /\ j < k)
  BY <1>1 DEF IxBefore
<1>3. \A k \in 1..Len(inbox) : IxBefore(inbox, k) \in SUBSET (1..Len(inbox))
  BY <1>1 DEF IxBefore
<1> HIDE DEF e
<1>4. i \notin IxBefore(inbox, i)
  BY <1>2
<1>5. ASSUME NEW j \in IxBefore(inbox, i), NEW k \in IxBefore(inbox, j) PROVE k \in IxBefore(inbox, i)
  <2>1. j \in 1..Len(inbox)
    BY <1>3
  <2>2. k \in 1..Len(inbox)
    BY <1>3, <2>1
  <2>3. (e(j) /\ ~e(i)) \/ ((e(j) <=> e(i)) /\ j < i)
    BY <1>2, <2>1
  <2>4. (e(k) /\ ~e(j)) \/ ((e(k) <=> e(j)) /\ k < j)
    BY <1>2, <2>1, <2>2
  <2>5. (e(k) /\ ~e(i)) \/ ((e(k) <=> e(i)) /\ k < i)
    BY <2>1, <2>2, <2>3, <2>4
  <2> QED
    BY <1>2, <2>2, <2>5
<1> QED
  BY <1>3, <1>4, <1>5

(* The prune keeps the prompts apart and leaves no more than the limit. *)
LEMMA IxPruneBound ==
  ASSUME NEW inbox \in Seq(IxEntry), IxApart(inbox)
  PROVE  IxApart(IxPrune(inbox)) /\ Len(IxPrune(inbox)) <= IxMaxStored
<1> DEFINE n == Len(inbox)
           over == n - IxMaxStored
           gone == {i \in DOMAIN inbox : Cardinality(IxBefore(inbox, i)) < over}
           left == ToSet(inbox) \ {inbox[i] : i \in gone}
           t == Keeping(inbox, left)
<1>1. IxPrune(inbox) = t
  BY DEF IxPrune
<1>2. KeptOf(t, IxEntry, inbox, left, n)
  BY KeepingElements
<1>3. n \in Nat /\ IxMaxStored \in Nat /\ DOMAIN inbox = 1..n
  BY IxAssumption
<1>4. \A i, j \in 1..n : inbox[i] = inbox[j] => i = j
  BY Zenon DEF IxApart
<1>5. \A j \in 1..n : inbox[j] \in left => j \notin gone
  BY <1>3
<1> HIDE DEF t, left
<1>6. /\ t \in Seq(IxEntry) /\ Len(t) <= n /\ Len(t) \in Nat
      /\ \A k, l \in 1..Len(t) : t[k] = t[l] => k = l
  BY <1>2, <1>4 DEF KeptOf
<1>7. \A k \in 1..Len(t) : \E j \in 1..n : t[k] = inbox[j] /\ j \notin gone
  BY <1>2, <1>5, Zenon DEF KeptOf
<1>8. IxApart(t)
  <2> SUFFICES ASSUME NEW k \in 1..Len(t), NEW l \in 1..Len(t), t[k].prompt = t[l].prompt
               PROVE  k = l
    BY DEF IxApart
  <2>1. PICK i \in 1..n : t[k] = inbox[i]
    BY <1>7, Zenon
  <2>2. PICK j \in 1..n : t[l] = inbox[j]
    BY <1>7, Zenon
  <2>3. i = j
    BY <2>1, <2>2, Zenon DEF IxApart
  <2> QED
    BY <1>6, <2>1, <2>2, <2>3, Zenon
<1>9. CASE over <= 0
  BY <1>1, <1>3, <1>6, <1>8, <1>9
<1>10. CASE ~(over <= 0)
  <2> DEFINE B == [i \in 1..n |-> IxBefore(inbox, i)]
             stay == (1..n) \ gone
             f == [k \in 1..Len(t) |-> CHOOSE j \in 1..n : t[k] = inbox[j] /\ j \notin gone]
  <2>1. over \in 0..n
    BY <1>3, <1>10
  <2>2. /\ B \in [1..n -> SUBSET (1..n)]
        /\ \A i \in 1..n : i \notin B[i]
        /\ \A i \in 1..n : \A j \in B[i] : B[j] \subseteq B[i]
    <3>1. \A i \in 1..n : /\ IxBefore(inbox, i) \in SUBSET (1..n) /\ i \notin IxBefore(inbox, i)
                          /\ \A j \in IxBefore(inbox, i) : IxBefore(inbox, j) \subseteq IxBefore(inbox, i)
      BY IxBeforeOrder, Zenon
    <3> QED
      BY <3>1
  <2>3. gone = {i \in 1..n : Cardinality(B[i]) < over}
    BY <1>3
  <2> HIDE DEF gone, B
  <2>4. over <= Cardinality(gone)
    <3> HIDE DEF over, n
    <3>1. \A k \in 0..n : k <= Cardinality({i \in 1..n : Cardinality(B[i]) < k})
      BY <1>3, <2>2, LowRanks
    <3> QED
      BY <2>1, <2>3, <3>1, Zenon
  <2>5. IsFiniteSet(1..n) /\ Cardinality(1..n) = n /\ Cardinality(1..Len(t)) = Len(t)
    <3> DEFINE l == Len(t)
    <3>1. 1 \in Int /\ n \in Int /\ l \in Int
      BY <1>3, <1>6
    <3>2. /\ IsFiniteSet(1..n) /\ Cardinality(1..n) = IF 1 > n THEN 0 ELSE n - 1 + 1
          /\ Cardinality(1..l) = IF 1 > l THEN 0 ELSE l - 1 + 1
      BY <3>1, FS_Interval, Zenon
    <3> QED
      BY <1>3, <1>6, <3>2
  <2>6. gone \in SUBSET (1..n) /\ stay \in SUBSET (1..n)
    BY <2>3, Zenon
  <2>7. /\ IsFiniteSet(stay) /\ IsFiniteSet(gone)
        /\ Cardinality(stay) = n - Cardinality(gone) /\ Cardinality(gone) \in Nat
    <3>1. IsFiniteSet(gone) /\ IsFiniteSet(stay)
      BY <2>5, <2>6, FS_Subset, Zenon
    <3>2. Cardinality(gone) \in Nat
      BY <3>1, FS_CardinalityType, Zenon
    <3>3. (1..n) \cap gone = gone
      BY <2>6, Zenon
    <3>4. Cardinality(stay) = Cardinality(1..n) - Cardinality((1..n) \cap gone)
      BY <2>5, FS_Difference, Zenon
    <3> QED
      BY <2>5, <3>1, <3>2, <3>3, <3>4, Zenon
  <2>8. \A k \in 1..Len(t) : f[k] \in stay /\ t[k] = inbox[f[k]]
    BY <1>7, Zenon
  <2>9. f \in Injection(1..Len(t), stay)
    <3>1. f \in [1..Len(t) -> stay]
      BY <2>8, Zenon
    <3> HIDE DEF f
    <3>2. \A k, l \in 1..Len(t) : f[k] = f[l] => k = l
      BY <1>6, <2>8, Zenon
    <3> QED
      BY <3>1, <3>2 DEF Injection, IsInjective
  <2>10. Len(t) <= Cardinality(stay)
    <3> HIDE DEF f, stay
    <3>1. Cardinality(1..Len(t)) <= Cardinality(stay)
      BY <2>7, <2>9, FS_Injection, Zenon
    <3> QED
      BY <2>5, <3>1, Zenon
  <2>11. Len(t) <= IxMaxStored
    <3> HIDE DEF stay
    <3> QED
      BY <1>3, <1>6, <2>4, <2>7, <2>10
  <2> QED
    BY <1>1, <1>8, <2>11, Zenon
<1> QED
  BY <1>9, <1>10

(* A merge of prompts that come once keeps the prompts apart. *)
LEMMA IxMergeApart ==
  ASSUME NEW inbox \in Seq(IxEntry), IxApart(inbox), NEW prompts \in Seq(IxPrompts), IxOnce(prompts)
  PROVE  IxApart(IxMerge(inbox, prompts))
<1> DEFINE S == ToSet(prompts) \ IxIn(inbox)
           new == Keeping(prompts, S)
           tail == [i \in DOMAIN new |-> IxPending(new[i])]
           merged == inbox \o tail
           m == Len(inbox)
<1>1. KeptOf(new, IxPrompts, prompts, S, Len(prompts))
  BY KeepingElements
<1>2. \A p \in S : p \notin IxIn(inbox)
  OBVIOUS
<1> HIDE DEF new, S
<1>3. /\ new \in Seq(IxPrompts) /\ Len(new) \in Nat
      /\ \A k \in 1..Len(new) : new[k] \notin IxIn(inbox)
      /\ \A k, l \in 1..Len(new) : new[k] = new[l] => k = l
  <2>1. new \in Seq(IxPrompts)
    BY <1>1 DEF KeptOf
  <2>2. \A k \in 1..Len(new) : new[k] \notin IxIn(inbox)
    BY <1>1, <1>2, Zenon DEF KeptOf
  <2>3. \A k, l \in 1..Len(new) : new[k] = new[l] => k = l
    BY <1>1, Zenon DEF KeptOf, IxOnce
  <2> QED
    BY <2>1, <2>2, <2>3
<1>4. tail = [i \in 1..Len(new) |-> IxPending(new[i])]
  BY <1>3
<1>5. \A p \in IxPrompts : IxPending(p) \in IxEntry /\ IxPending(p).prompt = p
  BY DEF IxPending, IxEntry
<1> HIDE DEF tail
<1>6. /\ tail \in Seq(IxEntry) /\ Len(tail) = Len(new)
      /\ \A k \in 1..Len(tail) : tail[k].prompt = new[k]
  BY <1>3, <1>4, <1>5
<1>7. /\ m \in Nat /\ Len(merged) = m + Len(tail)
      /\ \A k \in 1..m : merged[k] = inbox[k]
      /\ \A k \in 1..Len(tail) : merged[m + k] = tail[k]
  <2>1. m \in Nat /\ tail \in Seq(IxEntry)
    BY <1>6
  <2>2. /\ Len(merged) = m + Len(tail)
        /\ \A k \in 1..m : merged[k] = inbox[k]
    BY <2>1
  <2>3. \A k \in 1..Len(tail) : merged[m + k] = tail[k]
    BY <2>1
  <2> QED
    BY <2>1, <2>2, <2>3
<1> HIDE DEF merged, m
<1>8. ASSUME NEW k \in 1..Len(merged)
      PROVE  \/ k \in 1..m /\ merged[k].prompt = inbox[k].prompt /\ merged[k].prompt \in IxIn(inbox)
             \/ /\ k \notin 1..m /\ k - m \in 1..Len(new)
                /\ merged[k].prompt = new[k - m] /\ merged[k].prompt \notin IxIn(inbox)
  <2>1. CASE k \in 1..m
    <3>1. inbox[k].prompt \in IxIn(inbox)
      BY <2>1 DEF IxIn, m
    <3> QED
      BY <1>7, <2>1, <3>1, Zenon
  <2>2. CASE k \notin 1..m
    <3>1. k - m \in 1..Len(tail) /\ m + (k - m) = k
      BY <1>3, <1>6, <1>7, <2>2
    <3>2. merged[k] = tail[k - m]
      BY <1>7, <3>1
    <3> QED
      BY <1>3, <1>6, <2>2, <3>1, <3>2, Zenon
  <2> QED
    BY <2>1, <2>2
<1>9. IxApart(merged)
  <2> SUFFICES ASSUME NEW k \in 1..Len(merged), NEW l \in 1..Len(merged),
                      merged[k].prompt = merged[l].prompt
               PROVE  k = l
    BY DEF IxApart
  <2>1. CASE k \in 1..m /\ l \in 1..m
    <3>1. inbox[k].prompt = inbox[l].prompt
      BY <1>8, <2>1, Zenon
    <3> QED
      BY <2>1, <3>1, Zenon DEF IxApart, m
  <2>2. CASE k \notin 1..m /\ l \notin 1..m
    <3>1. k - m \in 1..Len(new) /\ l - m \in 1..Len(new) /\ new[k - m] = new[l - m]
      BY <1>8, <2>2, Zenon
    <3>2. k - m = l - m
      BY <1>3, <3>1, Zenon
    <3> QED
      BY <1>7, <3>2
  <2>3. CASE (k \in 1..m /\ l \notin 1..m) \/ (k \notin 1..m /\ l \in 1..m)
    BY <1>8, <2>3, Zenon
  <2> QED
    BY <2>1, <2>2, <2>3, Zenon
<1>10. merged = IxMerge(inbox, prompts)
  BY DEF merged, tail, new, S, IxMerge
<1> QED
  BY <1>9, <1>10

(* A change of status moves no prompt. *)
LEMMA IxMarkedApart ==
  ASSUME NEW inbox \in Seq(IxEntry), IxApart(inbox), NEW which, NEW status
  PROVE  /\ IxApart(IxMarked(inbox, which, status))
         /\ Len(IxMarked(inbox, which, status)) = Len(inbox)
<1> DEFINE new == IxMarked(inbox, which, status)
<1>1. /\ new = [i \in 1..Len(inbox) |-> IF inbox[i].prompt \in which
                                        THEN [inbox[i] EXCEPT !.status = status] ELSE inbox[i]]
      /\ Len(inbox) \in Nat /\ \A i \in 1..Len(inbox) : inbox[i] \in IxEntry
  BY DEF IxMarked
<1>2. \A e \in IxEntry : [e EXCEPT !.status = status].prompt = e.prompt
  BY DEF IxEntry
<1> HIDE DEF new
<1>3. Len(new) = Len(inbox) /\ \A i \in 1..Len(inbox) : new[i].prompt = inbox[i].prompt
  BY <1>1, <1>2
<1>4. IxApart(new)
  BY <1>3, Zenon DEF IxApart
<1> QED
  BY <1>3, <1>4 DEF new

-----------------------------------------------------------------------------
IxRegBounds(reg, published) ==
  /\ IxApart(reg.inbox) /\ Len(reg.inbox) <= IxMaxStored
  /\ reg.cursor <= published /\ reg.checkpoint <= IxInsights

IxStoreBounds ==
  /\ IxRegBounds(ixMem, ixPublished) /\ IxRegBounds(ixDisk, ixPublished)
  /\ ixSeen \subseteq IxPrompts /\ ixFailures \in 0..IxMaxFailures

IxLiveBounds == IxOnce(ixLive) /\ \A i \in 1..Len(ixLive) : ixLive[i] <= ixPublished

IxHeldBounds(refresh, published) == IxOnce(refresh.prompts) /\ refresh.cursor <= published
IxTaskBounds ==
  /\ \A r \in IxRefreshers : IxHeldBounds(ixRefresh[r], ixPublished)
  /\ ixProducer = "enqueued" => ixMem.checkpoint < IxInsights

IxFateBounds ==
  /\ ixLost \subseteq IxPrompts /\ ixForgot \subseteq IxPrompts
  /\ ixMessages <= IxMaxMessages /\ ixRestarts \in 0..IxMaxRestarts

IxBounds == IxStoreBounds /\ IxLiveBounds /\ IxTaskBounds /\ IxFateBounds

(* The prompts of an inbox are prompts. *)
LEMMA IxInPrompts ==
  ASSUME NEW inbox \in Seq(IxEntry)
  PROVE  IxIn(inbox) \subseteq IxPrompts /\ \A st : IxWith(inbox, st) \subseteq IxPrompts
<1>1. \A e \in ToSet(inbox) : e \in IxEntry
  BY ToSetElements
<1>2. \A e \in ToSet(inbox) : e.prompt \in IxPrompts
  BY <1>1 DEF IxEntry
<1>3. IxIn(inbox) \subseteq IxPrompts
  <2> SUFFICES ASSUME NEW p \in IxIn(inbox) PROVE p \in IxPrompts
    OBVIOUS
  <2>1. PICK e \in ToSet(inbox) : e.prompt = p
    BY IxInElements
  <2> QED
    BY <1>2, <2>1
<1>4. ASSUME NEW st, NEW p \in IxWith(inbox, st) PROVE p \in IxPrompts
  <2>1. PICK e \in ToSet(inbox) : e.prompt = p
    BY <1>4, IxInElements
  <2> QED
    BY <1>2, <2>1
<1> QED
  BY <1>3, <1>4

(* A save of a registry within bounds. *)
LEMMA IxSaveBounds ==
  ASSUME IxBounds, NEW reg \in IxRegistry, NEW ok \in BOOLEAN, IxSave(reg, ok),
         IxRegBounds(reg, ixPublished), ixPublished' = ixPublished
  PROVE  IxStoreBounds' /\ ixMem' = reg
<1>1. /\ ixMem' = reg /\ ixDisk' \in {reg, ixDisk} /\ ixSeen' \in {ixSeen, ixSeen \cup IxIn(reg.inbox)}
      /\ ixFailures' \in {ixFailures, ixFailures + 1} /\ ixFailures' <= IxMaxFailures
  BY DEF IxSave
<1>2. reg.inbox \in Seq(IxEntry)
  BY IxFields
<1>3. ixSeen' \subseteq IxPrompts
  BY <1>1, <1>2, IxInPrompts, Zenon DEF IxBounds, IxStoreBounds
<1>4. ixFailures' \in 0..IxMaxFailures
  BY <1>1, IxAssumption DEF IxBounds, IxStoreBounds
<1>5. IxRegBounds(ixMem, ixPublished)' /\ IxRegBounds(ixDisk, ixPublished)'
  BY <1>1 DEF IxBounds, IxStoreBounds, IxRegBounds, IxApart
<1> QED
  BY <1>1, <1>3, <1>4, <1>5 DEF IxStoreBounds

(* While the refreshes and the published prompts are left alone, so are    *)
(* their bounds, and the producer's if the checkpoint is.                  *)
LEMMA IxTasksStay ==
  ASSUME IxBounds, ixPublished' = ixPublished, ixRefresh' = ixRefresh
  PROVE  ixMem'.checkpoint = ixMem.checkpoint /\ ixProducer' = ixProducer => IxTaskBounds'
  BY DEF IxBounds, IxTaskBounds

(* The live channel is left alone. *)
LEMMA IxLiveStays ==
  ASSUME IxBounds, UNCHANGED <<ixLive, ixPublished>>
  PROVE  IxLiveBounds'
  BY DEF IxBounds, IxLiveBounds, IxOnce

(* Saves that leave inbox, cursor and checkpoint alone. *)
LEMMA IxPlainSaveBounds ==
  ASSUME IxInv, IxBounds, NEW ok \in BOOLEAN,
         \/ \E answered \in BOOLEAN : IxConnect(answered, ok)
         \/ IxHeartbeat(ok) \/ IxProduce(ok) \/ IxFlushDelete(ok)
  PROVE  IxBounds'
<1>1. ixMem \in IxRegistry /\ IxRegBounds(ixMem, ixPublished)
  BY DEF IxInv, IxStoresOK, IxRegOK, IxBounds, IxStoreBounds
<1>2. UNCHANGED <<ixLive, ixPublished, ixRefresh, ixLost, ixForgot, ixRestarts>>
  BY DEF IxConnect, IxHeartbeat, IxProduce, IxFlushDelete, ixServer, ixTasks, ixFate
<1>3. PICK reg : IxSave(reg, ok) /\ reg \in IxRegistry /\ reg.inbox = ixMem.inbox
                 /\ reg.cursor = ixMem.cursor /\ reg.checkpoint = ixMem.checkpoint
  <2>1. CASE IxHeartbeat(ok) \/ \E answered \in BOOLEAN : IxConnect(answered, ok)
    <3>1. PICK b \in BOOLEAN : IxSave([ixMem EXCEPT !.session = b], ok)
      BY <2>1 DEF IxHeartbeat, IxConnect
    <3> DEFINE new == [ixMem EXCEPT !.session = b]
    <3>2. /\ new \in IxRegistry /\ new.inbox = ixMem.inbox /\ new.cursor = ixMem.cursor
          /\ new.checkpoint = ixMem.checkpoint
      BY <1>1, IxFields
    <3> HIDE DEF new
    <3> QED
      BY <3>1, <3>2 DEF new
  <2>2. CASE IxProduce(ok) \/ IxFlushDelete(ok)
    <3>1. PICK o \in Seq(IxMsg) : IxSave([ixMem EXCEPT !.outbox = o], ok)
      <4>1. ixMem.outbox \in Seq(IxMsg) /\ ixMem.checkpoint \in Nat
        BY <1>1, IxFields
      <4>2. CASE IxProduce(ok)
        <5> DEFINE new == IxMessage(<<"insight", ixMem.checkpoint + 1>>)
        <5>1. new \in IxMsg
          BY <4>1 DEF IxMessage, IxMsg, IxInv, IxVarsOK
        <5>2. IxSave([ixMem EXCEPT !.outbox = Append(ixMem.outbox, new)], ok)
          BY <4>2 DEF IxProduce
        <5> HIDE DEF new
        <5>3. Append(ixMem.outbox, new) \in Seq(IxMsg)
          BY <4>1, <5>1
        <5> QED
          BY <5>2, <5>3
      <4>3. CASE IxFlushDelete(ok)
        <5> DEFINE kept == Keeping(ixMem.outbox, {m \in ToSet(ixMem.outbox) : m.id \notin ixFlush.acked})
        <5>1. kept \in Seq(IxMsg)
          BY <4>1, ToSetKeeping
        <5>2. IxSave([ixMem EXCEPT !.outbox = kept], ok)
          BY <4>3 DEF IxFlushDelete
        <5> HIDE DEF kept
        <5> QED
          BY <5>1, <5>2
      <4> QED
        BY <2>2, <4>2, <4>3
    <3> DEFINE new == [ixMem EXCEPT !.outbox = o]
    <3>2. /\ new \in IxRegistry /\ new.inbox = ixMem.inbox /\ new.cursor = ixMem.cursor
          /\ new.checkpoint = ixMem.checkpoint
      BY <1>1, IxFields
    <3> HIDE DEF new
    <3> QED
      BY <3>1, <3>2 DEF new
  <2> QED
    BY <2>1, <2>2
<1>4. IxRegBounds(reg, ixPublished)
  BY <1>1, <1>3 DEF IxRegBounds
<1>5. IxStoreBounds' /\ ixMem' = reg
  BY <1>2, <1>3, <1>4, IxSaveBounds
<1>6. IxTaskBounds'
  <2>1. CASE ixProducer' = ixProducer
    BY <1>2, <1>3, <1>5, <2>1, IxTasksStay
  <2>2. CASE ixProducer' # ixProducer
    <3>1. IxProduce(ok)
      BY <2>2 DEF IxConnect, IxHeartbeat, IxFlushDelete, ixTasks
    <3>2. ixMem.checkpoint < IxInsights
      BY <3>1 DEF IxProduce
    <3> QED
      BY <1>2, <1>3, <1>5, <3>2 DEF IxBounds, IxTaskBounds
  <2> QED
    BY <2>1, <2>2
<1>7. ixMessages' <= IxMaxMessages
  <2>1. ixMessages' = ixMessages \/ (IxProduce(ok) /\ ixMessages' = ixMessages + 1)
    BY DEF IxConnect, IxHeartbeat, IxProduce, IxFlushDelete
  <2>2. IxProduce(ok) => ixMessages < IxMaxMessages
    BY DEF IxProduce
  <2>3. ixMessages \in Nat /\ ixMessages <= IxMaxMessages
    BY DEF IxInv, IxVarsOK, IxBounds, IxFateBounds
  <2> QED
    BY <2>1, <2>2, <2>3, IxAssumption
<1>8. IxFateBounds'
  BY <1>2, <1>7 DEF IxBounds, IxFateBounds
<1> QED
  BY <1>2, <1>5, <1>6, <1>8, IxLiveStays DEF IxBounds

(* The checkpoint moves to an insight that exists. *)
LEMMA IxCheckpointBounds ==
  ASSUME IxInv, IxBounds, NEW ok \in BOOLEAN, IxCheckpoint(ok)
  PROVE  IxBounds'
<1> DEFINE c == ixMem.checkpoint + 1
           reg == [ixMem EXCEPT !.checkpoint = c]
<1>1. /\ ixMem \in IxRegistry /\ IxRegBounds(ixMem, ixPublished) /\ ixMem.checkpoint \in Nat
  BY IxFields DEF IxInv, IxStoresOK, IxRegOK, IxBounds, IxStoreBounds
<1>2. /\ ixProducer = "enqueued" /\ IxSave(reg, ok) /\ ixProducer' = "idle"
      /\ UNCHANGED <<ixLive, ixPublished, ixRefresh, ixLost, ixForgot, ixMessages, ixRestarts>>
  BY DEF IxCheckpoint, ixServer, ixFate
<1>3. c \in Nat /\ c <= IxInsights
  BY <1>1, <1>2, IxAssumption DEF IxBounds, IxTaskBounds
<1> HIDE DEF c
<1>4. reg \in IxRegistry /\ reg.inbox = ixMem.inbox /\ reg.cursor = ixMem.cursor /\ reg.checkpoint = c
  BY <1>1, <1>3, IxFields
<1> HIDE DEF reg
<1>5. IxRegBounds(reg, ixPublished)
  BY <1>1, <1>3, <1>4 DEF IxRegBounds
<1>6. IxStoreBounds'
  BY <1>2, <1>4, <1>5, IxSaveBounds
<1>7. IxTaskBounds' /\ IxFateBounds'
  BY <1>2 DEF IxBounds, IxTaskBounds, IxFateBounds
<1> QED
  BY <1>2, <1>6, <1>7, IxLiveStays DEF IxBounds

(* One refresh changes. *)
LEMMA IxRefreshBounds ==
  ASSUME IxInv, IxBounds, NEW r \in IxRefreshers, NEW new, IxHeldBounds(new, ixPublished),
         ixRefresh' = [ixRefresh EXCEPT ![r] = new], UNCHANGED <<ixPublished, ixProducer>>,
         ixMem'.checkpoint = ixMem.checkpoint
  PROVE  IxTaskBounds'
<1>1. \A q \in IxRefreshers : ixRefresh'[q] = IF q = r THEN new ELSE ixRefresh[q]
  BY DEF IxInv, IxVarsOK
<1>2. ASSUME NEW q \in IxRefreshers PROVE IxHeldBounds(ixRefresh'[q], ixPublished)
  BY <1>1 DEF IxBounds, IxTaskBounds
<1> QED
  BY <1>2 DEF IxBounds, IxTaskBounds

(* A refresh that is over. *)
LEMMA IxNoRefreshBounds ==
  ASSUME NEW published \in Nat
  PROVE  IxHeldBounds(IxNoRefresh, published)
  BY DEF IxHeldBounds, IxNoRefresh, IxOnce

(* The cursor that a refresh stores is one the server has reached. *)
LEMMA IxCursorBounds ==
  ASSUME IxInv, IxBounds, NEW r \in IxRefreshers, NEW ok \in BOOLEAN, IxRefreshCursor(r, ok)
  PROVE  IxBounds'
<1> DEFINE c == ixRefresh[r].cursor
           reg == [ixMem EXCEPT !.cursor = c]
<1>1. /\ ixMem \in IxRegistry /\ IxRegBounds(ixMem, ixPublished) /\ ixPublished \in Nat
  BY DEF IxInv, IxVarsOK, IxStoresOK, IxRegOK, IxBounds, IxStoreBounds
<1>2. /\ IxSave(reg, ok) /\ ixRefresh' = [ixRefresh EXCEPT ![r] = IxNoRefresh]
      /\ UNCHANGED <<ixLive, ixPublished, ixProducer, ixLost, ixForgot, ixMessages, ixRestarts>>
  BY DEF IxRefreshCursor, ixServer, ixFate
<1>3. c \in Nat /\ c <= ixPublished
  BY DEF IxInv, IxVarsOK, IxRefreshState, IxBounds, IxTaskBounds, IxHeldBounds
<1> HIDE DEF c
<1>4. reg \in IxRegistry /\ reg.inbox = ixMem.inbox /\ reg.cursor = c
      /\ reg.checkpoint = ixMem.checkpoint
  BY <1>1, <1>3, IxFields
<1> HIDE DEF reg
<1>5. IxRegBounds(reg, ixPublished)
  BY <1>1, <1>3, <1>4 DEF IxRegBounds
<1>6. IxStoreBounds' /\ ixMem' = reg
  BY <1>2, <1>4, <1>5, IxSaveBounds
<1>7. IxTaskBounds'
  BY <1>1, <1>2, <1>4, <1>6, IxNoRefreshBounds, IxRefreshBounds
<1>8. IxFateBounds'
  BY <1>2 DEF IxBounds, IxFateBounds
<1> QED
  BY <1>2, <1>6, <1>7, <1>8, IxLiveStays DEF IxBounds

(* A save of the inbox after a change of status. *)
LEMMA IxMarkedBounds ==
  ASSUME IxInv, IxBounds, NEW ok \in BOOLEAN, NEW which, NEW status \in {"answered", "expired"},
         NEW o \in Seq(IxMsg), ixPublished' = ixPublished,
         IxSave([[ixMem EXCEPT !.inbox = IxMarked(ixMem.inbox, which, status)] EXCEPT !.outbox = o], ok)
  PROVE  IxStoreBounds' /\ ixMem'.checkpoint = ixMem.checkpoint
<1> DEFINE new == IxMarked(ixMem.inbox, which, status)
           one == [ixMem EXCEPT !.inbox = new]
           reg == [one EXCEPT !.outbox = o]
<1>1. /\ ixMem \in IxRegistry /\ ixMem.inbox \in Seq(IxEntry) /\ IxApart(ixMem.inbox)
      /\ Len(ixMem.inbox) <= IxMaxStored /\ ixMem.cursor <= ixPublished
      /\ ixMem.checkpoint <= IxInsights
  BY IxFields DEF IxInv, IxStoresOK, IxRegOK, IxBounds, IxStoreBounds, IxRegBounds
<1>2. IxApart(new) /\ Len(new) = Len(ixMem.inbox)
  BY <1>1, IxMarkedApart
<1>3. new \in Seq(IxEntry)
  <2>1. \A i \in 1..Len(ixMem.inbox) : ixMem.inbox[i] \in IxEntry
    BY <1>1
  <2>2. \A e \in IxEntry : [e EXCEPT !.status = status] \in IxEntry
    BY DEF IxEntry
  <2>3. new = [i \in 1..Len(ixMem.inbox) |->
                 IF ixMem.inbox[i].prompt \in which THEN [ixMem.inbox[i] EXCEPT !.status = status]
                 ELSE ixMem.inbox[i]]
    BY <1>1 DEF IxMarked
  <2>4. Len(ixMem.inbox) \in Nat
    BY <1>1
  <2> HIDE DEF new
  <2> QED
    BY <2>1, <2>2, <2>3, <2>4
<1>4. IxSave(reg, ok)
  OBVIOUS
<1> HIDE DEF new
<1>5. /\ one \in IxRegistry /\ one.inbox = new /\ one.cursor = ixMem.cursor
      /\ one.checkpoint = ixMem.checkpoint
  BY <1>1, <1>3, IxFields
<1> HIDE DEF one
<1>6. /\ reg \in IxRegistry /\ reg.inbox = new /\ reg.cursor = ixMem.cursor
      /\ reg.checkpoint = ixMem.checkpoint
  BY <1>5, IxFields
<1> HIDE DEF reg
<1>7. IxRegBounds(reg, ixPublished)
  BY <1>1, <1>2, <1>6 DEF IxRegBounds
<1>8. IxStoreBounds' /\ ixMem' = reg
  BY <1>4, <1>6, <1>7, IxSaveBounds
<1> QED
  BY <1>6, <1>8

(* Prompts expire, or one is answered. *)
LEMMA IxStatusBounds ==
  ASSUME IxInv, IxBounds, NEW ok \in BOOLEAN,
         \/ \E old \in SUBSET IxWith(ixMem.inbox, "pending") : IxExpire(old, ok)
         \/ \E p \in IxPrompts : IxReceipt(p, ok)
  PROVE  IxBounds'
<1>1. ixMem \in IxRegistry /\ ixMem.outbox \in Seq(IxMsg)
  BY IxFields DEF IxInv, IxStoresOK, IxRegOK
<1>2. UNCHANGED <<ixLive, ixPublished, ixRefresh, ixProducer, ixLost, ixRestarts>>
  BY DEF IxExpire, IxReceipt, ixServer, ixTasks, ixFate
<1>3. IxStoreBounds' /\ ixMem'.checkpoint = ixMem.checkpoint
  <2>1. CASE \E old \in SUBSET IxWith(ixMem.inbox, "pending") : IxExpire(old, ok)
    <3>1. PICK old : IxSave([ixMem EXCEPT !.inbox = IxMarked(ixMem.inbox, old, "expired")], ok)
      BY <2>1 DEF IxExpire
    <3> DEFINE new == IxMarked(ixMem.inbox, old, "expired")
    <3>2. [[ixMem EXCEPT !.inbox = new] EXCEPT !.outbox = ixMem.outbox] = [ixMem EXCEPT !.inbox = new]
      <4> HIDE DEF new
      <4> QED
        BY <1>1 DEF IxRegistry
    <3> QED
      BY <1>1, <1>2, <3>1, <3>2, IxMarkedBounds
  <2>2. CASE \E p \in IxPrompts : IxReceipt(p, ok)
    <3>1. PICK p \in IxPrompts : IxReceipt(p, ok)
      BY <2>2
    <3> DEFINE new == IxMarked(ixMem.inbox, {p}, "answered")
               o == Append(ixMem.outbox, IxMessage(<<"receipt", p>>))
    <3>2. IxMessage(<<"receipt", p>>) \in IxMsg
      BY IxAssumption DEF IxMessage, IxMsg, IxPrompts, IxInv, IxVarsOK
    <3>3. o \in Seq(IxMsg)
      <4> DEFINE x == IxMessage(<<"receipt", p>>)
      <4>1. x \in IxMsg
        BY <3>2
      <4> HIDE DEF x
      <4>2. Append(ixMem.outbox, x) \in Seq(IxMsg)
        BY <1>1, <4>1
      <4> QED
        BY <4>2 DEF x
    <3>4. IxSave([[ixMem EXCEPT !.inbox = new] EXCEPT !.outbox = o], ok)
      BY <3>1 DEF IxReceipt
    <3> HIDE DEF o
    <3> QED
      BY <1>2, <3>3, <3>4, IxMarkedBounds
  <2> QED
    BY <2>1, <2>2
<1>4. IxTaskBounds'
  BY <1>2, <1>3, IxTasksStay
<1>5. ixMessages' <= IxMaxMessages /\ ixForgot' \subseteq IxPrompts
  <2>1. \/ ixMessages' = ixMessages /\ ixForgot' = ixForgot
        \/ /\ ixMessages < IxMaxMessages /\ ixMessages' = ixMessages + 1
           /\ ixForgot' = ixForgot \/ \E p \in IxPrompts : ixForgot' = ixForgot \cup {p}
    BY DEF IxExpire, IxReceipt, ixFate
  <2>2. ixMessages \in Nat /\ ixMessages <= IxMaxMessages /\ ixForgot \subseteq IxPrompts
    BY DEF IxInv, IxVarsOK, IxBounds, IxFateBounds
  <2> QED
    BY <2>1, <2>2, IxAssumption
<1>6. IxFateBounds'
  BY <1>2, <1>5 DEF IxBounds, IxFateBounds
<1> QED
  BY <1>2, <1>3, <1>4, <1>6, IxLiveStays DEF IxBounds

(* A refresh asks. *)
LEMMA IxAskBounds ==
  ASSUME IxInv, IxBounds, NEW r \in IxRefreshers, NEW ok \in BOOLEAN, NEW old,
         IxRefreshAsk(r, old, ok)
  PROVE  IxBounds'
<1> DEFINE new == [at |-> "asked", cursor |-> ixMem.cursor, prompts |-> <<>>]
<1>1. ixMem \in IxRegistry /\ ixMem.outbox \in Seq(IxMsg) /\ ixMem.cursor <= ixPublished
  BY IxFields DEF IxInv, IxStoresOK, IxRegOK, IxBounds, IxStoreBounds, IxRegBounds
<1>2. /\ \/ UNCHANGED ixStore
         \/ IxSave([ixMem EXCEPT !.inbox = IxMarked(ixMem.inbox, old, "expired")], ok)
      /\ ixRefresh' = [ixRefresh EXCEPT ![r] = new] \/ ixRefresh' = ixRefresh
      /\ UNCHANGED <<ixLive, ixPublished, ixProducer, ixLost, ixForgot, ixMessages, ixRestarts>>
  BY DEF IxRefreshAsk, ixServer, ixFate
<1>3. IxStoreBounds' /\ ixMem'.checkpoint = ixMem.checkpoint
  <2>1. CASE UNCHANGED ixStore
    BY <1>2, <2>1 DEF ixStore, IxBounds, IxStoreBounds, IxRegBounds, IxApart
  <2>2. CASE IxSave([ixMem EXCEPT !.inbox = IxMarked(ixMem.inbox, old, "expired")], ok)
    <3> DEFINE inbox == IxMarked(ixMem.inbox, old, "expired")
    <3>1. [[ixMem EXCEPT !.inbox = inbox] EXCEPT !.outbox = ixMem.outbox] = [ixMem EXCEPT !.inbox = inbox]
      <4> HIDE DEF inbox
      <4> QED
        BY <1>1 DEF IxRegistry
    <3> QED
      BY <1>1, <1>2, <2>2, <3>1, IxMarkedBounds
  <2> QED
    BY <1>2, <2>1, <2>2
<1>4. IxHeldBounds(new, ixPublished)
  BY <1>1 DEF IxHeldBounds, IxOnce
<1> HIDE DEF new
<1>5. IxTaskBounds'
  <2>1. CASE ixRefresh' = ixRefresh
    BY <1>2, <1>3, <2>1, IxTasksStay
  <2>2. CASE ixRefresh' = [ixRefresh EXCEPT ![r] = new]
    BY <1>2, <1>3, <1>4, <2>2, IxRefreshBounds
  <2> QED
    BY <1>2, <2>1, <2>2
<1>6. IxFateBounds'
  BY <1>2 DEF IxBounds, IxFateBounds
<1> QED
  BY <1>2, <1>3, <1>5, <1>6, IxLiveStays DEF IxBounds

(* A refresh merges and prunes. *)
LEMMA IxUpsertBounds ==
  ASSUME IxInv, IxBounds, NEW r \in IxRefreshers, NEW ok \in BOOLEAN, IxRefreshUpsert(r, ok)
  PROVE  IxBounds'
<1> DEFINE prompts == ixRefresh[r].prompts
           merged == IxMerge(ixMem.inbox, prompts)
           pruned == IxPrune(merged)
           reg == [ixMem EXCEPT !.inbox = pruned]
           new == [ixRefresh[r] EXCEPT !.at = "stored"]
<1>1. /\ ixMem \in IxRegistry /\ ixMem.inbox \in Seq(IxEntry) /\ IxUnique(ixMem.inbox)
      /\ IxApart(ixMem.inbox) /\ ixMem.cursor <= ixPublished /\ ixMem.checkpoint <= IxInsights
      /\ ixPublished \in Nat
  BY IxFields DEF IxInv, IxVarsOK, IxStoresOK, IxRegOK, IxBounds, IxStoreBounds, IxRegBounds
<1>2. /\ ixRefresh[r] \in IxRefreshState /\ prompts \in Seq(IxPrompts) /\ IxOnce(prompts)
      /\ ixRefresh[r].cursor <= ixPublished
      /\ new.cursor = ixRefresh[r].cursor /\ new.prompts = prompts
  BY DEF IxInv, IxVarsOK, IxRefreshState, IxBounds, IxTaskBounds, IxHeldBounds
<1>3. /\ IxSave(reg, ok)
      /\ ixForgot' = ixForgot \cup (IxWith(merged, "answered") \ IxIn(pruned))
      /\ ixLost' = ixLost \cup (IxIn(ixMem.inbox) \ (IxIn(pruned) \cup ixSeen))
      /\ \/ ixRefresh' = [ixRefresh EXCEPT ![r] = new]
         \/ ixRefresh' = [ixRefresh EXCEPT ![r] = IxNoRefresh]
      /\ UNCHANGED <<ixLive, ixPublished, ixProducer, ixMessages, ixRestarts>>
  BY DEF IxRefreshUpsert, ixServer
<1> HIDE DEF prompts, new
<1>4. merged \in Seq(IxEntry) /\ IxUnique(merged)
  BY <1>1, <1>2, IxMergeOK
<1>5. IxApart(merged)
  BY <1>1, <1>2, IxMergeApart
<1> HIDE DEF merged
<1>6. pruned \in Seq(IxEntry)
  BY <1>4, IxPruneOK
<1>7. IxApart(pruned) /\ Len(pruned) <= IxMaxStored
  BY <1>4, <1>5, IxPruneBound
<1> HIDE DEF pruned
<1>8. /\ reg \in IxRegistry /\ reg.inbox = pruned /\ reg.cursor = ixMem.cursor
      /\ reg.checkpoint = ixMem.checkpoint
  BY <1>1, <1>6, IxFields
<1> HIDE DEF reg
<1>9. IxRegBounds(reg, ixPublished)
  BY <1>1, <1>7, <1>8 DEF IxRegBounds
<1>10. IxStoreBounds' /\ ixMem' = reg
  BY <1>3, <1>8, <1>9, IxSaveBounds
<1>11. IxHeldBounds(new, ixPublished)
  BY <1>2 DEF IxHeldBounds
<1>12. IxTaskBounds'
  <2>1. CASE ixRefresh' = [ixRefresh EXCEPT ![r] = new]
    BY <1>3, <1>8, <1>10, <1>11, <2>1, IxRefreshBounds
  <2>2. CASE ixRefresh' = [ixRefresh EXCEPT ![r] = IxNoRefresh]
    BY <1>1, <1>3, <1>8, <1>10, <2>2, IxNoRefreshBounds, IxRefreshBounds
  <2> QED
    BY <1>3, <2>1, <2>2
<1>13. ixLost' \subseteq IxPrompts /\ ixForgot' \subseteq IxPrompts
  <2>1. IxIn(ixMem.inbox) \subseteq IxPrompts /\ IxWith(merged, "answered") \subseteq IxPrompts
    BY <1>1, <1>4, IxInPrompts
  <2> QED
    BY <1>3, <2>1, Zenon DEF IxBounds, IxFateBounds
<1>14. IxFateBounds'
  BY <1>3, <1>13 DEF IxBounds, IxFateBounds
<1> QED
  BY <1>3, <1>10, <1>12, <1>14, IxLiveStays DEF IxBounds

(* Parts of a sequence in which nothing comes twice. *)
LEMMA IxOnceParts ==
  ASSUME NEW D, NEW s \in Seq(D), IxOnce(s), NEW n \in Nat, n <= Len(s)
  PROVE  /\ IxOnce(SubSeq(s, 1, n)) /\ IxOnce(SubSeq(s, n + 1, Len(s)))
         /\ \A i \in 1..Len(SubSeq(s, n + 1, Len(s))) :
              \E j \in 1..Len(s) : SubSeq(s, n + 1, Len(s))[i] = s[j]
<1> DEFINE a == SubSeq(s, 1, n)
           b == SubSeq(s, n + 1, Len(s))
<1>1. Len(a) = n /\ \A i \in 1..n : a[i] = s[i]
  OBVIOUS
<1>2. Len(b) = Len(s) - n /\ \A i \in 1..(Len(s) - n) : b[i] = s[i + n]
  OBVIOUS
<1> HIDE DEF a, b
<1>3. \A i \in 1..n : i \in 1..Len(s)
  OBVIOUS
<1>4. \A i \in 1..Len(b) : i + n \in 1..Len(s) /\ b[i] = s[i + n]
  BY <1>2
<1>5. IxOnce(a)
  BY <1>1, <1>3, Zenon DEF IxOnce
<1>6. IxOnce(b)
  <2> SUFFICES ASSUME NEW i \in 1..Len(b), NEW j \in 1..Len(b), b[i] = b[j] PROVE i = j
    BY DEF IxOnce
  <2>1. i + n = j + n
    BY <1>4, Zenon DEF IxOnce
  <2> QED
    BY <1>2, <2>1
<1> QED
  BY <1>4, <1>5, <1>6 DEF a, b

(* A refresh gets prompts, each once. *)
LEMMA IxGotBounds ==
  ASSUME IxInv, IxBounds, NEW r \in IxRefreshers, IxRefreshGot(r)
  PROVE  IxBounds'
<1> DEFINE asked == ixRefresh[r].cursor
           last  == Min({ixPublished, asked + IxBatch})
           count == Min({Len(ixLive), IxBatch})
           ps == [i \in 1..(last - asked) |-> asked + i]
           polled == [at |-> "got", cursor |-> last, prompts |-> ps]
           pushed == [at |-> "got", cursor |-> 0, prompts |-> SubSeq(ixLive, 1, count)]
<1>1. /\ asked \in Nat /\ ixPublished \in Nat /\ ixLive \in Seq(IxPrompts) /\ IxBatch \in Nat
  BY IxAssumption DEF IxInv, IxVarsOK, IxRefreshState
<1>2. /\ \/ ixRefresh' = [ixRefresh EXCEPT ![r] = IxNoRefresh] /\ UNCHANGED ixLive
         \/ last > asked /\ ixRefresh' = [ixRefresh EXCEPT ![r] = polled] /\ UNCHANGED ixLive
         \/ /\ ixRefresh' = [ixRefresh EXCEPT ![r] = pushed]
            /\ ixLive' = SubSeq(ixLive, count + 1, Len(ixLive))
      /\ UNCHANGED <<ixMem, ixDisk, ixSeen, ixFailures, ixPublished, ixProducer, ixMessages,
                     ixLost, ixForgot, ixRestarts>>
  BY DEF IxRefreshGot, ixStore, ixServer, ixFate
<1> HIDE DEF asked
<1>3. /\ last \in Nat /\ last <= ixPublished /\ count \in Nat /\ count <= Len(ixLive)
  <2>1. ixPublished \in Nat /\ asked + IxBatch \in Nat /\ Len(ixLive) \in Nat
    BY <1>1
  <2> QED
    BY <1>1, <2>1, MinOfTwo
<1> HIDE DEF last, count
<1>4. IxStoreBounds'
  BY <1>2 DEF IxBounds, IxStoreBounds, IxRegBounds, IxApart
<1>5. IxFateBounds'
  BY <1>2 DEF IxBounds, IxFateBounds
<1>6. CASE ixRefresh' = [ixRefresh EXCEPT ![r] = IxNoRefresh] /\ UNCHANGED ixLive
  <2>1. IxTaskBounds'
    BY <1>1, <1>2, <1>6, IxNoRefreshBounds, IxRefreshBounds
  <2> QED
    BY <1>2, <1>4, <1>5, <1>6, <2>1, IxLiveStays DEF IxBounds
<1>7. CASE last > asked /\ ixRefresh' = [ixRefresh EXCEPT ![r] = polled] /\ UNCHANGED ixLive
  <2>1. Len(ps) = last - asked /\ \A i \in 1..(last - asked) : ps[i] = asked + i
    BY <1>1, <1>3, <1>7
  <2> HIDE DEF ps
  <2>2. IxOnce(ps)
    BY <1>1, <1>3, <2>1 DEF IxOnce
  <2>3. IxHeldBounds(polled, ixPublished)
    BY <1>3, <2>2 DEF IxHeldBounds
  <2> HIDE DEF polled
  <2>4. IxTaskBounds'
    BY <1>2, <1>7, <2>3, IxRefreshBounds
  <2> QED
    BY <1>2, <1>4, <1>5, <1>7, <2>4, IxLiveStays DEF IxBounds
<1>8. CASE /\ ixRefresh' = [ixRefresh EXCEPT ![r] = pushed]
           /\ ixLive' = SubSeq(ixLive, count + 1, Len(ixLive))
  <2> DEFINE a == SubSeq(ixLive, 1, count)
             b == SubSeq(ixLive, count + 1, Len(ixLive))
  <2>1. /\ IxOnce(a) /\ IxOnce(b) /\ \A i \in 1..Len(b) : \E j \in 1..Len(ixLive) : b[i] = ixLive[j]
    BY <1>1, <1>3, IxOnceParts DEF IxBounds, IxLiveBounds
  <2>2. ixLive' = b
    BY <1>8
  <2> HIDE DEF a, b
  <2>3. IxLiveBounds'
    <3>1. \A i \in 1..Len(b) : b[i] <= ixPublished
      BY <2>1, Zenon DEF IxBounds, IxLiveBounds
    <3> QED
      BY <1>2, <2>1, <2>2, <3>1 DEF IxLiveBounds, IxOnce
  <2>4. IxHeldBounds(pushed, ixPublished)
    <3>1. pushed = [at |-> "got", cursor |-> 0, prompts |-> a]
      BY DEF a
    <3> HIDE DEF pushed
    <3> QED
      BY <1>1, <2>1, <3>1 DEF IxHeldBounds
  <2> HIDE DEF pushed
  <2>5. IxTaskBounds'
    BY <1>2, <1>8, <2>4, IxRefreshBounds
  <2> QED
    BY <1>4, <1>5, <2>3, <2>5 DEF IxBounds
<1> QED
  BY <1>2, <1>6, <1>7, <1>8

(* What the server does, and a flush that it answers, leave the stores     *)
(* alone.                                                                  *)
LEMMA IxServerBounds ==
  ASSUME IxInv, IxBounds,
         \/ IxPublish \/ IxServerDrops \/ UNCHANGED ixVars
         \/ \E took, acked \in IxBatchSubsets, answered \in BOOLEAN : IxFlushSend(took, acked, answered)
  PROVE  IxBounds'
<1>1. UNCHANGED <<ixMem, ixDisk, ixSeen, ixFailures, ixRefresh, ixProducer, ixMessages, ixLost,
                  ixForgot, ixRestarts>>
  BY DEF IxPublish, IxServerDrops, IxFlushSend, ixVars, ixStore, ixTasks, ixFate
<1>2. \/ UNCHANGED <<ixPublished, ixLive>>
      \/ /\ ixPublished' = ixPublished + 1
         /\ ixLive' = ixLive \/ ixLive' = Append(ixLive, ixPublished + 1)
  BY DEF IxPublish, IxServerDrops, IxFlushSend, ixVars, ixServer
<1>3. ixPublished \in Nat /\ ixLive \in Seq(IxPrompts) /\ ixPublished' \in Nat
      /\ ixPublished <= ixPublished'
  BY <1>2 DEF IxInv, IxVarsOK
<1>4. IxStoreBounds'
  <2>1. ixMem.cursor \in Nat /\ ixDisk.cursor \in Nat
    BY IxFields DEF IxInv, IxStoresOK, IxRegOK
  <2>2. ixMem.cursor <= ixPublished' /\ ixDisk.cursor <= ixPublished'
    BY <1>3, <2>1 DEF IxBounds, IxStoreBounds, IxRegBounds
  <2> QED
    BY <1>1, <2>2 DEF IxBounds, IxStoreBounds, IxRegBounds, IxApart
<1>5. IxTaskBounds'
  <2>1. ASSUME NEW r \in IxRefreshers PROVE IxHeldBounds(ixRefresh[r], ixPublished')
    <3>1. ixRefresh[r].cursor \in Nat /\ IxHeldBounds(ixRefresh[r], ixPublished)
      BY DEF IxInv, IxVarsOK, IxRefreshState, IxBounds, IxTaskBounds
    <3> QED
      BY <1>3, <3>1 DEF IxHeldBounds
  <2> QED
    BY <1>1, <2>1 DEF IxBounds, IxTaskBounds
<1>6. IxFateBounds'
  BY <1>1 DEF IxBounds, IxFateBounds
<1>7. IxLiveBounds'
  <2>1. \A i \in 1..Len(ixLive) : ixLive[i] \in Nat /\ ixLive[i] <= ixPublished
    BY <1>3, IxAssumption DEF IxBounds, IxLiveBounds, IxPrompts
  <2>2. CASE ixLive' = ixLive
    <3>1. \A i \in 1..Len(ixLive) : ixLive[i] <= ixPublished'
      BY <1>3, <2>1
    <3> QED
      BY <2>2, <3>1 DEF IxBounds, IxLiveBounds, IxOnce
  <2>3. CASE ixPublished' = ixPublished + 1 /\ ixLive' = Append(ixLive, ixPublished + 1)
    <3> DEFINE x == ixPublished + 1
               t == Append(ixLive, x)
    <3>1. Len(t) = Len(ixLive) + 1 /\ Len(ixLive) \in Nat
          /\ (\A k \in 1..Len(ixLive) : t[k] = ixLive[k]) /\ t[Len(ixLive) + 1] = x
      BY <1>3
    <3> HIDE DEF t
    <3>2. \A k \in 1..Len(t) : k \in 1..Len(ixLive) \/ k = Len(ixLive) + 1
      BY <3>1
    <3>3. \A k \in 1..Len(ixLive) : ixLive[k] # x /\ ixLive[k] <= x
      BY <1>3, <2>1
    <3>4. x <= x
      BY <1>3
    <3> HIDE DEF x
    <3>5. IxOnce(t)
      BY <3>1, <3>2, <3>3, Zenon DEF IxOnce, IxBounds, IxLiveBounds
    <3>6. \A k \in 1..Len(t) : t[k] <= x
      BY <3>1, <3>2, <3>3, <3>4, Zenon
    <3>7. ixLive' = t /\ ixPublished' = x
      BY <2>3 DEF t, x
    <3> QED
      BY <3>5, <3>6, <3>7 DEF IxLiveBounds, IxOnce
  <2> QED
    BY <1>2, <2>2, <2>3
<1> QED
  BY <1>4, <1>5, <1>6, <1>7 DEF IxBounds

(* A restart reads a file within bounds. *)
LEMMA IxRestartBounds ==
  ASSUME IxInv, IxBounds, IxRestart
  PROVE  IxBounds'
<1>1. /\ ixMem' = ixDisk /\ ixLive' = <<>> /\ ixProducer' = "idle"
      /\ ixRefresh' = [r \in IxRefreshers |-> IxNoRefresh]
      /\ ixRestarts < IxMaxRestarts /\ ixRestarts' = ixRestarts + 1
      /\ UNCHANGED <<ixDisk, ixSeen, ixFailures, ixPublished, ixMessages, ixLost, ixForgot>>
  BY DEF IxRestart, ixServer, ixFate
<1>2. IxStoreBounds'
  BY <1>1 DEF IxBounds, IxStoreBounds, IxRegBounds, IxApart
<1>3. IxLiveBounds'
  BY <1>1 DEF IxLiveBounds, IxOnce
<1>4. IxTaskBounds'
  <2>1. ixPublished \in Nat
    BY DEF IxInv, IxVarsOK
  <2> QED
    BY <1>1, <2>1, IxNoRefreshBounds DEF IxTaskBounds
<1>5. IxFateBounds'
  BY <1>1, IxAssumption DEF IxBounds, IxFateBounds
<1> QED
  BY <1>2, <1>3, <1>4, <1>5 DEF IxBounds

(* Every step stays within the bounds. *)
LEMMA IxNextBounds == IxInv /\ IxBounds /\ [IxNext]_ixVars => IxBounds'
<1> SUFFICES ASSUME IxInv, IxBounds, [IxNext]_ixVars PROVE IxBounds'
  OBVIOUS
<1>1. ASSUME NEW ok \in BOOLEAN, NEW r \in IxRefreshers, IxRefreshStep(r, ok) PROVE IxBounds'
  BY <1>1, IxAskBounds, IxGotBounds, IxUpsertBounds, IxCursorBounds DEF IxRefreshStep
<1>2. ASSUME NEW ok \in BOOLEAN,
             \/ \E answered \in BOOLEAN : IxConnect(answered, ok)
             \/ IxHeartbeat(ok) \/ IxProduce(ok) \/ IxCheckpoint(ok) \/ IxFlushDelete(ok)
      PROVE  IxBounds'
  BY <1>2, IxPlainSaveBounds, IxCheckpointBounds
<1>3. ASSUME NEW ok \in BOOLEAN,
             \/ \E old \in SUBSET IxWith(ixMem.inbox, "pending") : IxExpire(old, ok)
             \/ \E p \in IxPrompts : IxReceipt(p, ok)
      PROVE  IxBounds'
  BY <1>3, IxStatusBounds, Zenon
<1>4. CASE \/ IxPublish \/ IxServerDrops \/ UNCHANGED ixVars
           \/ \E took, acked \in IxBatchSubsets, answered \in BOOLEAN : IxFlushSend(took, acked, answered)
  BY <1>4, IxServerBounds, Zenon
<1>5. CASE IxRestart
  BY <1>5, IxRestartBounds
<1>6. CASE IxNext
  BY <1>1, <1>2, <1>3, <1>4, <1>5, <1>6, Zenon DEF IxNext
<1> QED
  BY <1>4, <1>6

(* An empty registry is within them. *)
LEMMA IxInitBounds == IxInit => IxBounds
<1> SUFFICES ASSUME IxInit PROVE IxBounds
  OBVIOUS
<1>1. ixDisk = ixMem /\ ixMem.inbox = <<>> /\ ixMem.cursor = 0 /\ ixMem.checkpoint = 0
  BY DEF IxInit
<1>2. IxRegBounds(ixMem, ixPublished)
  BY <1>1, IxAssumption DEF IxRegBounds, IxApart, IxInit
<1>3. IxStoreBounds
  BY <1>1, <1>2, IxAssumption DEF IxStoreBounds, IxInit
<1>4. IxLiveBounds
  BY DEF IxLiveBounds, IxOnce, IxInit
<1>5. IxTaskBounds
  BY IxNoRefreshBounds DEF IxTaskBounds, IxInit
<1>6. IxFateBounds
  BY IxAssumption DEF IxFateBounds, IxInit
<1> QED
  BY <1>3, <1>4, <1>5, <1>6 DEF IxBounds

(* The integration runtime is well typed: in memory and in the file the    *)
(* inbox keeps to max_stored_prompts, the cursor to what the server has    *)
(* published and the checkpoint to the insights there are.                 *)
THEOREM IxTypeCorrect == IxSpec => []IxTypeOK
<1>1. IxInv /\ IxBounds => IxTypeOK
  <2> SUFFICES ASSUME IxInv, IxBounds PROVE IxTypeOK
    OBVIOUS
  <2>1. ASSUME NEW reg \in {ixMem, ixDisk} PROVE IxRegistryType(reg)
    <3>1. reg \in IxRegistry /\ IxRegBounds(reg, ixPublished) /\ ToSet(reg.outbox) \subseteq IxSent
      BY <2>1 DEF IxInv, IxStoresOK, IxRegOK, IxBounds, IxStoreBounds, IxSent
    <3>2. /\ reg.outbox \in Seq(IxMsg) /\ reg.inbox \in Seq(IxEntry) /\ reg.cursor \in Nat
          /\ reg.checkpoint \in Nat /\ reg.session \in BOOLEAN
      BY <3>1, IxFields
    <3>3. ASSUME NEW m \in ToSet(reg.outbox) PROVE m.id \in 1..ixMessages
      <4>1. m \in IxMsg /\ m.id <= ixMessages
        BY <3>1, <3>2, ToSetElements DEF IxInv, IxIdsOK
      <4> QED
        BY <4>1 DEF IxMsg, IxInv, IxVarsOK
    <3>4. ASSUME NEW e \in ToSet(reg.inbox)
          PROVE  e.prompt \in IxPrompts /\ e.status \in {"pending", "answered", "expired"}
      <4>1. e \in IxEntry
        BY <3>2, ToSetElements
      <4> QED
        BY <4>1 DEF IxEntry
    <3>5. reg.cursor \in 0..ixPublished /\ reg.checkpoint \in 0..IxInsights
      BY <3>1, <3>2, IxAssumption DEF IxRegBounds, IxInv, IxVarsOK
    <3> QED
      BY <3>1, <3>2, <3>3, <3>4, <3>5 DEF IxRegistryType, IxRegBounds
  <2>2. ToSet(ixLive) \cup ixSeen \cup ixLost \cup ixForgot \subseteq IxPrompts
    <3>1. ToSet(ixLive) \subseteq IxPrompts
      BY ToSetElements DEF IxInv, IxVarsOK
    <3> QED
      BY <3>1 DEF IxBounds, IxStoreBounds, IxFateBounds
  <2>3. ixFlush.at \in {"idle", "delete"} /\ \A r \in IxRefreshers : ixRefresh[r].at \in {"idle", "asked", "got", "stored"}
    BY DEF IxInv, IxVarsOK, IxFlushState, IxRefreshState
  <2>4. ixMessages \in 0..IxMaxMessages
    BY IxAssumption DEF IxInv, IxVarsOK, IxBounds, IxFateBounds
  <2> QED
    BY <2>1, <2>2, <2>3, <2>4 DEF IxTypeOK, IxInv, IxVarsOK, IxBounds, IxStoreBounds, IxFateBounds
<1> QED
  BY <1>1, IxInitBounds, IxNextBounds, IxInvariant, PTL DEF IxSpec
=============================================================================
