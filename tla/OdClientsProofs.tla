--------------------------- MODULE OdClientsProofs ---------------------------
(***************************************************************************)
(* Theorems about the OD clients of app/axis_manager for every number of   *)
(* proxied limits, every set of values, whichever sequences may exceed     *)
(* their time limits, and any number of requests and losses.               *)
(***************************************************************************)
EXTENDS OdClients, FiniteSetTheorems, WellFoundedInduction, TLAPS

Users == {"load_factor", "bootsync", "proxy", "save", "home", "other"}

-----------------------------------------------------------------------------
(* The pipeline: what its actions do to the slot and the store *)

LEMMA OpenedIs ==
  ASSUME NEW c \in Users, NEW req \in Requests
  PROVE  /\ Pipeline!Opened(c, req) \in SlotRecords
         /\ Pipeline!Opened(c, req) # Pipeline!Free
         /\ Pipeline!Opened(c, req).client = c
         /\ Pipeline!Opened(c, req).req = req
         /\ Pipeline!Opened(c, req).phase = "open"
<1>1. Pipeline!Opened(c, req) = [phase |-> "open", client |-> c, req |-> req, data |-> Unset]
  BY DEF Pipeline!Opened
<1>2. Pipeline!Free.phase = "free"
  BY DEF Pipeline!Free
<1>3. [phase |-> "open", client |-> c, req |-> req, data |-> Unset] \in SlotRecords
  BY DEF SlotRecords, Users
<1> QED  BY <1>1, <1>2, <1>3

LEMMA RecordsAreBusy ==
  ASSUME NEW r \in SlotRecords
  PROVE  r # Pipeline!Free /\ r.client \in Users /\ r.req \in Requests
<1>1. Pipeline!Free.phase = "free" /\ r.phase # "free"
  BY DEF Pipeline!Free, SlotRecords
<1> QED  BY <1>1 DEF SlotRecords, Users

LEMMA EntriesDiffer ==
  /\ \A i \in Slots : Limit(i) \in Entries
  /\ HomeStatus \in Entries /\ FaultFlags \in Entries /\ OtherEntry \in Entries
  /\ \A i, j \in Slots : Limit(i) = Limit(j) => i = j
  /\ \A i \in Slots : Limit(i) \notin {HomeStatus, FaultFlags, OtherEntry}
  /\ HomeStatus # FaultFlags /\ HomeStatus # OtherEntry /\ FaultFlags # OtherEntry
  BY DEF Entries, Limit, HomeStatus, FaultFlags, OtherEntry

LEMMA ReadsAndWrites ==
  /\ \A o : Read(o).is_read /\ Read(o).obj = o
  /\ \A o, v : ~Write(o, v).is_read /\ Write(o, v).obj = o /\ Write(o, v).val = v
  /\ \A o, p, v : Read(o) # Write(p, v)
  /\ \A o, p, v, w : Write(o, v) = Write(p, w) => o = p /\ v = w
  /\ \A o, p : Read(o) = Read(p) => o = p
<1>1. \A o : Read(o).is_read = TRUE /\ Read(o).obj = o
  BY Zenon DEF Read
<1>2. \A o, v : Write(o, v).is_read = FALSE /\ Write(o, v).obj = o /\ Write(o, v).val = v
  BY Zenon DEF Write
<1>3. ASSUME NEW o, NEW p, NEW v PROVE Read(o) # Write(p, v)
  <2> SUFFICES ASSUME Read(o) = Write(p, v) PROVE FALSE
    OBVIOUS
  <2>1. Read(o).is_read = Write(p, v).is_read
    OBVIOUS
  <2> QED  BY <1>1, <1>2, <2>1, Zenon
<1>4. ASSUME NEW o, NEW p, NEW v, NEW w, Write(o, v) = Write(p, w) PROVE o = p /\ v = w
  <2>1. Write(o, v).obj = Write(p, w).obj /\ Write(o, v).val = Write(p, w).val
    BY <1>4
  <2> QED  BY <1>2, <2>1
<1>5. ASSUME NEW o, NEW p, Read(o) = Read(p) PROVE o = p
  <2>1. Read(o).obj = Read(p).obj
    BY <1>5
  <2> QED  BY <1>1, <2>1
<1>6. \A o, v : ~Write(o, v).is_read
  BY <1>2, Zenon
<1>7. \A o : Read(o).is_read
  BY <1>1, Zenon
<1> QED  BY <1>1, <1>2, <1>3, <1>4, <1>5, <1>6, <1>7, Zenon

LEMMA PutIs ==
  /\ \A o : Pipeline!Put(Read(o)) = store
  /\ \A o, v : Pipeline!Put(Write(o, v)) = [store EXCEPT ![o] = v]
<1>1. \A req : Pipeline!Put(req) = IF req.is_read THEN store ELSE [store EXCEPT ![req.obj] = req.val]
  BY DEF Pipeline!Put
<1> QED  BY <1>1, ReadsAndWrites, Zenon

(* The requests there are. *)
LEMMA RequestsAre ==
  ASSUME NEW req \in Requests
  PROVE  \/ \E o \in Entries : req = Read(o)
         \/ \E i \in Slots, v \in LimitValues : req = Write(Limit(i), v)
         \/ req = Write(HomeStatus, "RUNNING")
         \/ req = Write(OtherEntry, "other")
  BY DEF Requests

LEMMA AskedFor ==
  /\ \A o \in Entries : Read(o) \in Requests
  /\ \A i \in Slots, v \in LimitValues : Write(Limit(i), v) \in Requests
  /\ Write(HomeStatus, "RUNNING") \in Requests /\ Write(OtherEntry, "other") \in Requests
  BY DEF Requests

(* Whatever takes effect, each entry keeps to its values.                  *)
StoreOK ==
  /\ store \in [Entries -> DataValues]
  /\ \A i \in Slots : store[Limit(i)] \in LimitValues
  /\ store[HomeStatus] \in HomeStatuses /\ store[FaultFlags] \in {"HOMED", "NOT_HOMED"}

LEMMA PutKeepsStore ==
  ASSUME StoreOK, NEW req \in Requests, store' = Pipeline!Put(req)
  PROVE  /\ StoreOK'
         /\ \A i \in Slots : store'[Limit(i)] # store[Limit(i)]
              => \E v \in LimitValues : req = Write(Limit(i), v)
         /\ store'[HomeStatus] # store[HomeStatus] => store'[HomeStatus] = "RUNNING"
<1>1. CASE \E o \in Entries : req = Read(o)
  BY <1>1, PutIs DEF StoreOK
<1>2. CASE \E i \in Slots, v \in LimitValues : req = Write(Limit(i), v)
  <2>1. PICK i \in Slots, v \in LimitValues : req = Write(Limit(i), v)
    BY <1>2
  <2>2. store' = [store EXCEPT ![Limit(i)] = v] /\ v \in DataValues
    BY <2>1, PutIs DEF DataValues
  <2> QED  BY <2>1, <2>2, EntriesDiffer DEF StoreOK
<1>3. CASE req = Write(HomeStatus, "RUNNING")
  <2>1. store' = [store EXCEPT ![HomeStatus] = "RUNNING"] /\ "RUNNING" \in HomeStatuses
    BY <1>3, PutIs DEF HomeStatuses
  <2> QED  BY <2>1, EntriesDiffer DEF StoreOK, DataValues
<1>4. CASE req = Write(OtherEntry, "other")
  <2>1. store' = [store EXCEPT ![OtherEntry] = "other"]
    BY <1>4, PutIs
  <2> QED  BY <2>1, EntriesDiffer DEF StoreOK, DataValues
<1> QED  BY <1>1, <1>2, <1>3, <1>4, RequestsAre

-----------------------------------------------------------------------------
(* Steps of the pipeline and of the motor: the clients stand by *)

Clients == <<load, cache, proxy, bootsync, save, home, asked, failed>>

StandBy ==
  /\ pc \in {"cia402", "handlers"} /\ pc' \in {"cia402", "handlers", "load_factor"}
  /\ UNCHANGED Clients

LEMMA StandByKeeps ==
  ASSUME ClientsInv, StandBy, StoreOK'
  PROVE  TypeOK' /\ BootIsFirst' /\ SaveIsLast' /\ s_boot_fault_read_kicked
<1>1. UNCHANGED Clients /\ pc' \in {"cia402", "handlers", "load_factor"}
  BY DEF StandBy
<1>2. \E i \in DOMAIN Pass : pc' = Pass[i]
  <2>1. DOMAIN Pass = 1 .. 7 /\ Pass[1] = "load_factor" /\ Pass[6] = "cia402" /\ Pass[7] = "handlers"
    BY DEF Pass
  <2> QED  BY <1>1, <2>1
<1>3. TypeOK'
  BY <1>1, <1>2 DEF ClientsInv, TypeOK, Clients, load, cache, proxy, bootsync, save, home, StoreOK
<1>4. s_boot_fault_read_kicked
  BY DEF ClientsInv, BootIsFirst, StandBy
<1>5. BootIsFirst'
  BY <1>1, <1>4 DEF BootIsFirst, Clients, home
<1>6. SaveIsLast'
  BY <1>1 DEF ClientsInv, SaveIsLast, Clients, save
<1> QED  BY <1>3, <1>4, <1>5, <1>6

(* Nobody but the proxy writes limits, and it writes the one in flight.    *)
LEMMA LimitWriteIsTheProxys ==
  ASSUME ClientsInv, slot # Pipeline!Free,
         NEW i \in Slots, NEW v \in LimitValues, slot.req = Write(Limit(i), v)
  PROVE  s_proxy_pending /\ s_proxy_inflight_slot = i
<1>1. slot.client \in Users
  BY RecordsAreBusy DEF ClientsInv, PipelineOK
<1>2. slot.client = "proxy"
  BY <1>1, ReadsAndWrites, EntriesDiffer
     DEF Users, ClientsInv, RequestsMatch, HomeIsTracked, Holds
<1>3. s_proxy_pending /\ \E w \in LimitValues : slot.req = Write(Limit(s_proxy_inflight_slot), w)
  BY <1>2 DEF ClientsInv, RequestsMatch, OwnerRemembers, Holds
<1>4. s_proxy_inflight_slot \in Slots
  BY DEF ClientsInv, TypeOK
<1>5. Limit(i) = Limit(s_proxy_inflight_slot)
  <2>1. PICK w \in LimitValues : slot.req = Write(Limit(s_proxy_inflight_slot), w)
    BY <1>3
  <2>2. Write(Limit(i), v) = Write(Limit(s_proxy_inflight_slot), w)
    BY <2>1
  <2>3. Write(Limit(i), v).obj = Write(Limit(s_proxy_inflight_slot), w).obj
    BY <2>2
  <2> QED  BY <2>3, ReadsAndWrites
<1> QED  BY <1>3, <1>4, <1>5, EntriesDiffer

(* A request loses its way, is answered or is given up.                    *)
LEMMA PhaseKeeps ==
  ASSUME ClientsInv, StandBy, UNCHANGED <<store, ran>>,
         slot # Pipeline!Free, slot' \in SlotRecords,
         slot'.client = slot.client, slot'.req = slot.req,
         Effective' => Effective /\ late' = late /\ slot'.data = slot.data,
         late' \subseteq late \union {slot.req}
  PROVE  ClientsInv'
<1>1. slot \in SlotRecords /\ slot' # Pipeline!Free /\ slot.req \in Requests
  BY RecordsAreBusy DEF ClientsInv, PipelineOK
<1>2. StoreOK /\ StoreOK'
  BY DEF ClientsInv, TypeOK, PipelineOK, StoreOK
<1>3. TypeOK' /\ BootIsFirst' /\ SaveIsLast'
  BY <1>2, StandByKeeps
<1>4. PipelineOK'
  BY <1>1, <1>2 DEF PipelineOK, ClientsInv, StoreOK
<1>5. UNCHANGED Clients /\ \A c \in Users : Holds(c)' <=> Holds(c)
  BY <1>1 DEF StandBy, Holds
<1> USE DEF Clients, load, cache, proxy, bootsync, save, home
<1>6. OwnerRemembers'
  BY <1>5 DEF OwnerRemembers, ClientsInv, Users
<1>7. RequestsMatch'
  BY <1>5 DEF RequestsMatch, ClientsInv, Users
<1>8. HomeIsTracked'
  BY <1>5 DEF HomeIsTracked, ClientsInv, Users, HomeBusy
<1>9. LateIsFailed'
  BY <1>5, LimitWriteIsTheProxys DEF LateIsFailed, ClientsInv
<1>10. LimitsKept'
  BY <1>5 DEF LimitsKept, ClientsInv
<1> QED  BY <1>3, <1>4, <1>6, <1>7, <1>8, <1>9, <1>10 DEF ClientsInv

(* Nothing happens to the slot in this pass.                               *)
LEMMA IdleKeeps ==
  ASSUME ClientsInv, StandBy, UNCHANGED <<store, slot, late, ran>>
  PROVE  ClientsInv'
<1> USE DEF ClientsInv
<1>1. TypeOK' /\ BootIsFirst' /\ SaveIsLast'
  BY StandByKeeps DEF TypeOK, PipelineOK, StoreOK
<1>2. UNCHANGED Clients
  BY DEF StandBy
<1>3. PipelineOK'
  BY DEF PipelineOK
<1> USE DEF Clients, load, cache, proxy, bootsync, save, home
<1>4. OwnerRemembers' /\ RequestsMatch' /\ HomeIsTracked'
  BY <1>2 DEF OwnerRemembers, RequestsMatch, HomeIsTracked, HomeBusy, Holds, Effective
<1>5. LateIsFailed' /\ LimitsKept'
  BY <1>2 DEF LateIsFailed, LimitsKept
<1> QED  BY <1>1, <1>3, <1>4, <1>5

(* The motor serves the request: what the answer carries is what it holds. *)
LEMMA TakeEffectKeeps ==
  ASSUME ClientsInv, StandBy, UNCHANGED ran, Pipeline!TakeEffect
  PROVE  ClientsInv'
<1> USE DEF ClientsInv
<1> DEFINE d == IF slot.req.is_read THEN store[slot.req.obj] ELSE Unset
<1>1. /\ slot # Pipeline!Free /\ slot.phase = "open"
      /\ store' = Pipeline!Put(slot.req) /\ late' = {}
      /\ slot' = [slot EXCEPT !.phase = "effective", !.data = d]
  BY DEF Pipeline!TakeEffect
<1>2. slot \in SlotRecords /\ slot.req \in Requests /\ slot.client \in Users
  BY <1>1, RecordsAreBusy DEF PipelineOK
<1>3. StoreOK
  BY DEF TypeOK, PipelineOK, StoreOK
<1>4. /\ \A o \in Entries : slot.req = Read(o) => d = store[o] /\ store' = store
      /\ \A o, v : slot.req = Write(o, v) => d = Unset /\ store' = [store EXCEPT ![o] = v]
  BY <1>1, PutIs, ReadsAndWrites
<1>5. d \in DataValues \union {Unset}
  <2>1. Limit(1) \in Entries => TRUE
    OBVIOUS
  <2>2. \A o \in Entries : store[o] \in DataValues
    BY <1>3 DEF StoreOK
  <2> HIDE DEF d
  <2> QED  BY <1>2, <1>4, <2>2, RequestsAre
<1> HIDE DEF d
<1>6. /\ slot' \in SlotRecords /\ slot'.phase = "effective" /\ slot'.data = d
      /\ slot'.client = slot.client /\ slot'.req = slot.req /\ slot' # Pipeline!Free
  <2>1. /\ slot' \in SlotRecords /\ slot'.phase = "effective" /\ slot'.data = d
        /\ slot'.client = slot.client /\ slot'.req = slot.req
    BY <1>1, <1>2, <1>5 DEF SlotRecords
  <2> QED  BY <2>1, RecordsAreBusy
<1>7. /\ StoreOK'
      /\ \A i \in Slots : store'[Limit(i)] # store[Limit(i)]
           => \E v \in LimitValues : slot.req = Write(Limit(i), v)
      /\ store'[HomeStatus] # store[HomeStatus] => store'[HomeStatus] = "RUNNING"
  BY <1>1, <1>2, <1>3, PutKeepsStore
<1>8. TypeOK' /\ BootIsFirst' /\ SaveIsLast'
  BY <1>7, StandByKeeps
<1>9. PipelineOK'
  BY <1>1, <1>6, <1>7 DEF PipelineOK, StoreOK
<1>10. UNCHANGED Clients /\ (\A c \in Users : Holds(c)' <=> Holds(c)) /\ Effective'
  BY <1>1, <1>6 DEF StandBy, Holds, Effective
<1> USE DEF Clients, load, cache, proxy, bootsync, save, home
<1>11. OwnerRemembers'
  BY <1>10 DEF OwnerRemembers, Users
<1>12. s_bootsync_inflight_slot \in Slots /\ s_proxy_inflight_slot \in Slots
  BY DEF TypeOK
<1>13. RequestsMatch'
  <2>1. ASSUME Holds("bootsync")
        PROVE  slot'.req = Read(Limit(s_bootsync_inflight_slot)) /\ d = store'[Limit(s_bootsync_inflight_slot)]
    BY <1>4, <1>6, <1>12, <2>1, EntriesDiffer DEF RequestsMatch
  <2>2. ASSUME NEW v \in LimitValues, slot.req = Write(Limit(s_proxy_inflight_slot), v)
        PROVE  store'[Limit(s_proxy_inflight_slot)] = v
    BY <1>3, <1>4, <1>12, <2>2, EntriesDiffer DEF StoreOK
  <2> QED  BY <1>1, <1>6, <1>10, <2>1, <2>2 DEF RequestsMatch, Users
<1>14. HomeIsTracked'
  <2>1. slot.req = Write(HomeStatus, "RUNNING") => store'[HomeStatus] = "RUNNING"
    BY <1>3, <1>4, EntriesDiffer DEF StoreOK
  <2>2. /\ slot.req = Read(HomeStatus) => d = store[HomeStatus]
        /\ slot.req = Read(FaultFlags) => d = store[FaultFlags]
    BY <1>4, EntriesDiffer
  <2> QED  BY <1>3, <1>6, <1>7, <1>10, <2>1, <2>2 DEF HomeIsTracked, Users, HomeBusy, StoreOK
<1>15. LateIsFailed'
  BY <1>1, <1>10 DEF LateIsFailed
<1>16. LimitsKept'
  BY <1>1, <1>7, <1>10, LimitWriteIsTheProxys DEF LimitsKept
<1> QED  BY <1>8, <1>9, <1>11, <1>13, <1>14, <1>15, <1>16

(* A request given up takes effect after all, or never will.               *)
LEMMA LateKeeps ==
  ASSUME ClientsInv, StandBy, UNCHANGED ran, late # {}, Pipeline!LateEffect \/ Pipeline!LateLost
  PROVE  ClientsInv'
<1> USE DEF ClientsInv
<1>1. slot' = slot /\ late' = {} /\ UNCHANGED Clients /\ ~Effective
  BY DEF Pipeline!LateEffect, Pipeline!LateLost, StandBy, RequestsMatch
<1>2. StoreOK
  BY DEF TypeOK, PipelineOK, StoreOK
<1>3. /\ StoreOK'
      /\ \A i \in Slots : store'[Limit(i)] # store[Limit(i)]
           => \E v \in LimitValues : Write(Limit(i), v) \in late
      /\ store'[HomeStatus] # store[HomeStatus] => store'[HomeStatus] = "RUNNING"
  <2>1. CASE Pipeline!LateLost
    BY <1>2, <2>1 DEF Pipeline!LateLost, StoreOK
  <2>2. CASE Pipeline!LateEffect
    <3>1. PICK req \in late : store' = Pipeline!Put(req)
      BY <2>2 DEF Pipeline!LateEffect
    <3>2. req \in Requests
      BY <3>1 DEF PipelineOK
    <3> QED  BY <1>2, <3>1, <3>2, PutKeepsStore
  <2> QED  BY <2>1, <2>2
<1>4. TypeOK' /\ BootIsFirst' /\ SaveIsLast'
  BY <1>3, StandByKeeps
<1>5. PipelineOK'
  BY <1>1, <1>3 DEF PipelineOK, StoreOK
<1>6. (\A c \in Users : Holds(c)' <=> Holds(c)) /\ ~Effective'
  BY <1>1 DEF Holds, Effective
<1> USE DEF Clients, load, cache, proxy, bootsync, save, home
<1>7. OwnerRemembers' /\ RequestsMatch'
  BY <1>1, <1>6 DEF OwnerRemembers, RequestsMatch, Users
<1>8. HomeIsTracked'
  BY <1>1, <1>3, <1>6 DEF HomeIsTracked, Users, HomeBusy
<1>9. LateIsFailed'
  BY <1>1 DEF LateIsFailed
<1>10. LimitsKept'
  BY <1>1, <1>3 DEF LimitsKept, LateIsFailed
<1> QED  BY <1>4, <1>5, <1>7, <1>8, <1>9, <1>10

(* The motor ends its run.                                                 *)
LEMMA MotorHomesKeeps ==
  ASSUME ClientsInv, NEW status \in {"DONE", "FAILED"}, MotorHomes(status)
  PROVE  ClientsInv'
<1> USE DEF ClientsInv
<1>1. /\ StandBy /\ UNCHANGED <<slot, late>>
      /\ store' = [store EXCEPT ![HomeStatus] = status,
                                ![FaultFlags] = IF status = "DONE" THEN "HOMED" ELSE @]
  BY DEF MotorHomes, Elsewhere, StandBy, Clients
<1>2. ran'
  BY Zenon DEF MotorHomes
<1>3. StoreOK
  BY DEF TypeOK, PipelineOK, StoreOK
<1>4. /\ StoreOK'
      /\ \A i \in Slots : store'[Limit(i)] = store[Limit(i)]
  <2>1. status \in DataValues /\ "HOMED" \in DataValues
    BY DEF DataValues, HomeStatuses
  <2>2. /\ store' \in [Entries -> DataValues]
        /\ store'[HomeStatus] = status
        /\ store'[FaultFlags] \in {"HOMED", store[FaultFlags]}
        /\ \A o \in Entries \ {HomeStatus, FaultFlags} : store'[o] = store[o]
    BY <1>1, <1>3, <2>1, EntriesDiffer DEF StoreOK
  <2> QED  BY <1>3, <2>2, EntriesDiffer DEF StoreOK, HomeStatuses
<1>5. TypeOK' /\ BootIsFirst' /\ SaveIsLast'
  BY <1>1, <1>4, StandByKeeps
<1>6. UNCHANGED Clients /\ (\A c \in Users : Holds(c)' <=> Holds(c)) /\ (Effective' <=> Effective)
  BY <1>1 DEF StandBy, Holds, Effective
<1>7. PipelineOK'
  BY <1>1, <1>4 DEF PipelineOK, StoreOK
<1> USE DEF Clients, load, cache, proxy, bootsync, save, home
<1>8. OwnerRemembers'
  BY <1>1, <1>6 DEF OwnerRemembers, Users
<1>9. RequestsMatch'
  BY <1>1, <1>4, <1>6 DEF RequestsMatch, Users, TypeOK
<1>10. HomeIsTracked'
  BY <1>1, <1>2, <1>6 DEF HomeIsTracked, Users, HomeBusy
<1>11. LateIsFailed'
  BY <1>1, <1>6 DEF LateIsFailed
<1>12. LimitsKept'
  BY <1>4, <1>6 DEF LimitsKept
<1> QED  BY <1>5, <1>7, <1>8, <1>9, <1>10, <1>11, <1>12

-----------------------------------------------------------------------------
(* The ticks of the clients *)

LEMMA PassGoesOn ==
  /\ At("load_factor") => pc = "load_factor" /\ pc' = "bootsync"
  /\ At("bootsync") => pc = "bootsync" /\ pc' = "proxy"
  /\ At("proxy") => pc = "proxy" /\ pc' = "save"
  /\ At("save") => pc = "save" /\ pc' = "home"
  /\ At("home") => pc = "home" /\ pc' = "cia402"
  /\ At("cia402") => pc = "cia402" /\ pc' = "handlers"
  /\ At("handlers") => pc = "handlers" /\ pc' = "load_factor"
<1>1. /\ DOMAIN Pass = 1 .. 7 /\ Len(Pass) = 7
      /\ Pass[1] = "load_factor" /\ Pass[2] = "bootsync" /\ Pass[3] = "proxy" /\ Pass[4] = "save"
      /\ Pass[5] = "home" /\ Pass[6] = "cia402" /\ Pass[7] = "handlers"
  BY DEF Pass
<1>2. ASSUME NEW step, At(step)
      PROVE  pc = step /\ \E i \in 1 .. 7 : Pass[i] = step /\ pc' = Pass[(i % 7) + 1]
  BY <1>1, <1>2 DEF At
<1>3. \A i \in 1 .. 7 : i % 7 = IF i = 7 THEN 0 ELSE i
  OBVIOUS
<1>4. ASSUME NEW step, At(step)
      PROVE  pc = step /\ \E i \in 1 .. 7 : Pass[i] = step /\ pc' = IF i = 7 THEN Pass[1] ELSE Pass[i + 1]
  BY <1>2, <1>3, <1>4
<1> QED  BY <1>1, <1>4

LEMMA StepsOfPass ==
  \A step \in {"load_factor", "bootsync", "proxy", "save", "home", "cia402", "handlers"} :
    \E i \in DOMAIN Pass : step = Pass[i]
<1>1. /\ DOMAIN Pass = 1 .. 7
      /\ Pass[1] = "load_factor" /\ Pass[2] = "bootsync" /\ Pass[3] = "proxy" /\ Pass[4] = "save"
      /\ Pass[5] = "home" /\ Pass[6] = "cia402" /\ Pass[7] = "handlers"
  BY DEF Pass
<1> QED  BY <1>1

(* A client's turn: its own answer is collected or the slot is free, and   *)
(* its next request may be begun.                                          *)
SlotTurn(c) ==
  \/ slot' = slot
  \/ /\ slot = Pipeline!Free \/ Holds(c)
     /\ \/ slot' = Pipeline!Free
        \/ \E req \in Requests : slot' = Pipeline!Opened(c, req)

LEMMA TurnsAreFair ==
  ASSUME PipelineOK, NEW c \in Users, SlotTurn(c)
  PROVE  /\ slot' = Pipeline!Free \/ slot' \in SlotRecords
         /\ \A k \in Users : k # c => (Holds(k)' <=> Holds(k)) /\ (Holds(k) => slot' = slot)
         /\ Effective' => slot' = slot /\ Effective
<1>1. CASE slot' = slot
  BY <1>1 DEF PipelineOK, Holds, Effective
<1>2. CASE slot' = Pipeline!Free /\ (slot = Pipeline!Free \/ Holds(c))
  BY <1>2 DEF Holds, Effective
<1>3. CASE (slot = Pipeline!Free \/ Holds(c)) /\ \E req \in Requests : slot' = Pipeline!Opened(c, req)
  <2>1. slot' \in SlotRecords /\ slot' # Pipeline!Free /\ slot'.client = c /\ slot'.phase = "open"
    BY <1>3, OpenedIs
  <2> QED  BY <1>3, <2>1 DEF Holds, Effective
<1> QED  BY <1>1, <1>2, <1>3 DEF SlotTurn

LEMMA LoadFactorKeeps ==
  ASSUME ClientsInv, LoadFactorTick
  PROVE  ClientsInv'
<1> USE DEF ClientsInv
<1> DEFINE polled == s_load_factor_pending /\ Completed("load_factor")
<1>1. /\ pc' = "bootsync" /\ slot' = IF polled THEN Pipeline!Free ELSE slot
      /\ UNCHANGED <<store, late, cache, proxy, bootsync, save, home, history, left>>
  BY PassGoesOn DEF LoadFactorTick, Release
<1>2. s_load_factor_pending' \in BOOLEAN /\ (s_load_factor_pending' <=> s_load_factor_pending /\ ~polled)
  BY Zenon DEF LoadFactorTick
<1>3. polled => Holds("load_factor")
  BY DEF Completed, Holds
<1> HIDE DEF polled
<1> USE DEF cache, proxy, bootsync, save, home, history
<1>4. SlotTurn("load_factor")
  BY <1>1, <1>3 DEF SlotTurn
<1>5. /\ slot' = Pipeline!Free \/ slot' \in SlotRecords
      /\ \A k \in Users : k # "load_factor" => (Holds(k)' <=> Holds(k)) /\ (Holds(k) => slot' = slot)
      /\ Effective' => slot' = slot /\ Effective
  BY <1>4, TurnsAreFair DEF Users
<1>6. Holds("load_factor")' <=> Holds("load_factor") /\ ~polled
  BY <1>1 DEF Holds
<1>7. TypeOK'
  BY <1>1, <1>2, StepsOfPass DEF TypeOK
<1>8. PipelineOK'
  BY <1>1, <1>5 DEF PipelineOK
<1>9. OwnerRemembers'
  BY <1>1, <1>2, <1>3, <1>5, <1>6 DEF OwnerRemembers, Users
<1>10. RequestsMatch'
  BY <1>1, <1>5, <1>6 DEF RequestsMatch, Users
<1>11. HomeIsTracked'
  BY <1>1, <1>5 DEF HomeIsTracked, Users, HomeBusy
<1>12. BootIsFirst' /\ SaveIsLast'
  BY <1>1 DEF BootIsFirst, SaveIsLast
<1>13. LateIsFailed' /\ LimitsKept'
  BY <1>1 DEF LateIsFailed, LimitsKept
<1> QED  BY <1>7, <1>8, <1>9, <1>10, <1>11, <1>12, <1>13

(* boot-sync takes over what the motor holds, and nothing the operator set *)
(* meanwhile.                                                              *)
LEMMA BootsyncKeeps ==
  ASSUME ClientsInv, NEW due \in BOOLEAN, BootsyncTick(due)
  PROVE  ClientsInv'
<1> USE DEF ClientsInv
<1> DEFINE polled == s_bootsync_state = "BUSY" /\ Completed("bootsync")
           runs   == polled \/ (s_bootsync_state # "BUSY" /\ due)
           next   == IF s_bootsync_state = "DONE" THEN 1 ELSE s_bootsync_next_slot
<1>1. /\ pc = "bootsync" /\ pc' = "proxy" /\ (due => s_boot_fault_read_kicked)
      /\ value' = Adopted(s_bootsync_inflight_slot, polled)
      /\ UNCHANGED <<store, late, load, dirty, proxy, save, home, history, left>>
  BY PassGoesOn DEF BootsyncTick
<1>2. polled => Holds("bootsync") /\ (Ok => Effective)
  BY DEF Completed, Holds, Ok, Effective
<1>3. next \in Int /\ next >= 1 /\ (next <= PROXY_SLOT_COUNT => next \in Slots /\ next + 1 \in 1 .. PROXY_SLOT_COUNT + 1)
      /\ (next \in 1 .. PROXY_SLOT_COUNT + 1)
  BY ConstantsAssumption DEF TypeOK, Slots
<1>4. \/ UNCHANGED <<bootsync, slot>> /\ ~polled
      \/ /\ runs /\ slot' = (IF polled THEN Pipeline!Free ELSE slot)
         /\ s_bootsync_state' = "DONE" /\ UNCHANGED <<s_bootsync_inflight_slot, s_bootsync_next_slot>>
      \/ /\ runs /\ next \in Slots /\ (polled \/ slot = Pipeline!Free)
         /\ slot' = Pipeline!Opened("bootsync", Read(Limit(next)))
         /\ s_bootsync_state' = "BUSY" /\ s_bootsync_inflight_slot' = next
         /\ s_bootsync_next_slot' = next + 1
      \/ /\ runs /\ ~polled /\ slot' = slot
         /\ s_bootsync_state' = "IDLE" /\ s_bootsync_next_slot' = next
         /\ UNCHANGED s_bootsync_inflight_slot
  BY <1>3 DEF BootsyncTick, Release, Begin, Vacant
<1>5. runs /\ ~polled => s_bootsync_state # "BUSY" /\ due
  OBVIOUS
<1> HIDE DEF polled, runs, next
<1>6. Read(Limit(next)) \in Requests \/ next \notin Slots
  BY EntriesDiffer, AskedFor
<1>7. SlotTurn("bootsync")
  BY <1>2, <1>4, <1>6 DEF SlotTurn
<1>8. /\ slot' = Pipeline!Free \/ slot' \in SlotRecords
      /\ \A k \in Users : k # "bootsync" => (Holds(k)' <=> Holds(k)) /\ (Holds(k) => slot' = slot)
      /\ Effective' => slot' = slot /\ Effective
  BY <1>7, TurnsAreFair DEF Users
<1> USE DEF load, proxy, save, home, history, bootsync
<1>9. s_bootsync_inflight_slot \in Slots /\ s_proxy_inflight_slot \in Slots
  BY DEF TypeOK
<1>10. /\ value' \in [Slots -> LimitValues \union {Unset}]
       /\ \A i \in Slots :
            value'[i] = value[i] \/ (polled /\ i \notin dirty /\ value'[i] = store[Limit(i)])
  <2>1. CASE polled /\ Ok /\ s_bootsync_inflight_slot \notin dirty
    <3>1. slot.data = store[Limit(s_bootsync_inflight_slot)] /\ slot.data \in LimitValues
      BY <1>2, <1>9, <2>1 DEF RequestsMatch, PipelineOK
    <3>2. value' = [value EXCEPT ![s_bootsync_inflight_slot] = slot.data]
      BY <1>1, <2>1 DEF Adopted
    <3> QED  BY <1>9, <2>1, <3>1, <3>2 DEF TypeOK
  <2>2. CASE ~(polled /\ Ok /\ s_bootsync_inflight_slot \notin dirty)
    <3>1. value' = value
      BY <1>1, <2>2 DEF Adopted
    <3> QED  BY <3>1 DEF TypeOK
  <2> QED  BY <2>1, <2>2
<1>11. /\ s_bootsync_state' \in {"IDLE", "BUSY", "DONE"} /\ s_bootsync_inflight_slot' \in Slots
       /\ s_bootsync_next_slot' \in 1 .. PROXY_SLOT_COUNT + 1
  <2>1. s_bootsync_state' \in {"IDLE", "BUSY", "DONE"} /\ s_bootsync_inflight_slot' \in Slots
    BY <1>4 DEF TypeOK
  <2>2. s_bootsync_next_slot \in 1 .. PROXY_SLOT_COUNT + 1
    BY DEF TypeOK
  <2>3. \/ s_bootsync_next_slot' \in {s_bootsync_next_slot, next}
        \/ next \in Slots /\ s_bootsync_next_slot' = next + 1
    BY <1>4
  <2> QED  BY <1>3, <2>1, <2>2, <2>3 DEF Slots
<1>12. TypeOK'
  BY <1>1, <1>10, <1>11, StepsOfPass DEF TypeOK
<1>13. PipelineOK'
  BY <1>1, <1>8 DEF PipelineOK
<1>14. s_bootsync_state' = "BUSY" <=> Holds("bootsync")'
  <2>1. next \in Slots => /\ Pipeline!Opened("bootsync", Read(Limit(next))) # Pipeline!Free
                         /\ Pipeline!Opened("bootsync", Read(Limit(next))).client = "bootsync"
    BY <1>6, OpenedIs DEF Users
  <2> QED  BY <1>2, <1>4, <1>5, <2>1 DEF OwnerRemembers, Holds
<1>15. OwnerRemembers'
  BY <1>1, <1>8, <1>14 DEF OwnerRemembers, Users
<1>16. RequestsMatch'
  <2>1. Holds("bootsync")' => slot'.req = Read(Limit(s_bootsync_inflight_slot'))
    <3>1. next \in Slots => Pipeline!Opened("bootsync", Read(Limit(next))).req = Read(Limit(next))
      BY <1>6, OpenedIs DEF Users
    <3> QED  BY <1>4, <1>14, <3>1 DEF RequestsMatch, OwnerRemembers, Holds
  <2>2. Holds("bootsync")' /\ Effective' => slot'.data = store'[Limit(s_bootsync_inflight_slot')]
    <3>1. Effective' => s_bootsync_inflight_slot' = s_bootsync_inflight_slot
      <4>1. next \in Slots => Pipeline!Opened("bootsync", Read(Limit(next))).phase = "open"
        BY <1>6, OpenedIs DEF Users
      <4> QED  BY <1>4, <4>1 DEF Effective
    <3> QED  BY <1>1, <1>8, <3>1 DEF RequestsMatch, Holds
  <2>3. Holds("proxy")' => ~polled /\ slot' = slot /\ Holds("proxy")
    BY <1>2, <1>8 DEF Users, Holds
  <2>4. Holds("proxy")' =>
       \E v \in LimitValues :
         /\ slot'.req = Write(Limit(s_proxy_inflight_slot'), v)
         /\ Effective' => store'[Limit(s_proxy_inflight_slot')] = v
         /\ s_proxy_inflight_slot' \notin dirty'
              => asked'[s_proxy_inflight_slot'] = v /\ value'[s_proxy_inflight_slot'] = v
    BY <1>1, <1>8, <1>9, <1>10, <2>3 DEF RequestsMatch
  <2> QED  BY <1>1, <1>8, <2>1, <2>2, <2>4 DEF RequestsMatch, Users
<1>17. HomeIsTracked'
  BY <1>1, <1>8 DEF HomeIsTracked, Users, HomeBusy
<1>18. BootIsFirst' /\ SaveIsLast'
  BY <1>1, <1>2, <1>4, <1>5 DEF BootIsFirst, SaveIsLast, Holds
<1>19. LateIsFailed'
  <2>1. dirty \subseteq Slots
    BY DEF TypeOK
  <2> QED  BY <1>1, <1>10, <2>1 DEF LateIsFailed
<1>20. LimitsKept'
  BY <1>1, <1>10 DEF LimitsKept
<1> QED  BY <1>12, <1>13, <1>15, <1>16, <1>17, <1>18, <1>19, <1>20

(* The scan that goes round finds a marked limit: what NextDirty chooses   *)
(* exists, for the finite sets of distances are well-founded.              *)
LEMMA NextDirtyIsDirty ==
  ASSUME dirty \subseteq Slots, dirty # {}, s_proxy_inflight_slot \in Slots
  PROVE  NextDirty \in dirty
<1> DEFINE N        == PROXY_SLOT_COUNT
           Upto(i)  == {k \in 0 .. N - 1 : k <= Turn(i)}
           Family   == {Upto(i) : i \in dirty}
<1>1. N \in Nat /\ N > 0
  BY ConstantsAssumption
<1>2. \A i \in dirty : Turn(i) \in 0 .. N - 1
  BY <1>1 DEF Turn, Slots
<1>3. IsFiniteSet(0 .. N - 1) /\ Family \subseteq FiniteSubsetsOf(0 .. N - 1)
  <2>1. IsFiniteSet(0 .. N - 1)
    BY <1>1, FS_Interval
  <2>2. \A i \in dirty : Upto(i) \in SUBSET (0 .. N - 1)
    OBVIOUS
  <2>3. \A i \in dirty : Upto(i) \in FiniteSubsetsOf(0 .. N - 1)
    BY <2>1, <2>2, FS_FiniteSubsetsOfFinite
  <2> QED  BY <2>1, <2>3
<1>4. PICK F \in Family : \A G \in Family : <<G, F>> \notin StrictSubsetOrdering(0 .. N - 1)
  <2>1. Family # {}
    OBVIOUS
  <2> HIDE DEF Family
  <2> QED  BY <1>3, <2>1, FS_StrictSubsetOrderingWellFounded, WFMin
<1>5. PICK m \in dirty : F = Upto(m)
  OBVIOUS
<1>6. ASSUME NEW k \in dirty PROVE Turn(m) <= Turn(k)
  <2> SUFFICES ASSUME Turn(k) < Turn(m) PROVE FALSE
    BY <1>1, <1>2
  <2> HIDE DEF N
  <2>1. Turn(k) \in 0 .. N - 1 /\ Turn(m) \in 0 .. N - 1
    BY <1>2
  <2>2. Upto(k) \subseteq Upto(m)
    <3> SUFFICES ASSUME NEW j \in 0 .. N - 1, j <= Turn(k) PROVE j <= Turn(m)
      OBVIOUS
    <3> QED  BY <1>1, <2>1
  <2>3. Turn(m) \in Upto(m) /\ Turn(m) \notin Upto(k)
    BY <1>1, <2>1
  <2>4. <<Upto(k), Upto(m)>> \in StrictSubsetOrdering(0 .. N - 1)
    BY <2>2, <2>3 DEF StrictSubsetOrdering
  <2> QED  BY <1>4, <1>5, <2>4
<1>7. \E i \in dirty : \A j \in dirty : Turn(i) <= Turn(j)
  BY <1>6
<1> QED  BY <1>7, Zenon DEF NextDirty

(* The proxy writes a marked limit as the operator last set it.            *)
LEMMA ProxyKeeps ==
  ASSUME ClientsInv, ProxyTick
  PROVE  ClientsInv'
<1> USE DEF ClientsInv
<1> DEFINE polled == s_proxy_pending /\ Completed("proxy")
           starts == (polled \/ ~s_proxy_pending) /\ dirty # {} /\ Vacant(polled)
           i0     == s_proxy_inflight_slot
           n      == NextDirty
           req    == Write(Limit(n), value[n])
<1>1. /\ pc = "proxy" /\ pc' = "save"
      /\ UNCHANGED <<store, late, load, value, bootsync, save, home, asked, ran, left>>
  BY PassGoesOn DEF ProxyTick
<1>2. polled => Holds("proxy") /\ (Ok <=> Effective)
  BY DEF Completed, Holds, Ok, Effective
<1>3. failed' = CASE polled /\ Ok  -> failed \ {i0}
                  [] polled /\ ~Ok -> failed \union {i0}
                  [] ~polled       -> failed
  BY DEF ProxyTick
<1>4. i0 \in Slots /\ dirty \subseteq Slots /\ failed \subseteq Slots
  BY DEF TypeOK
<1>5. starts => n \in dirty /\ n \in Slots /\ value[n] = asked[n] /\ value[n] \in LimitValues
                /\ (polled \/ (slot = Pipeline!Free /\ ~s_proxy_pending))
  BY <1>4, NextDirtyIsDirty DEF LateIsFailed, Vacant
<1>6. \/ /\ starts /\ slot' = Pipeline!Opened("proxy", req)
         /\ dirty' = dirty \ {n} /\ s_proxy_inflight_slot' = n
      \/ /\ ~starts /\ slot' = (IF polled THEN Pipeline!Free ELSE slot)
         /\ dirty' = dirty /\ s_proxy_inflight_slot' = i0
  BY DEF ProxyTick, Begin, Release, DirtyAfterBegin
<1>7. s_proxy_pending' \in BOOLEAN /\ (s_proxy_pending' <=> starts \/ (s_proxy_pending /\ ~polled))
  <2>1. CASE starts
    BY <2>1, Zenon DEF ProxyTick
  <2>2. CASE ~starts
    BY <2>2, Zenon DEF ProxyTick
  <2> QED  BY <2>1, <2>2
<1>8. ~polled /\ ~starts /\ slot = Pipeline!Free => dirty = {}
  BY DEF OwnerRemembers, Holds, Vacant
<1>9. starts => ~(s_proxy_pending /\ ~polled)
  OBVIOUS
<1>10. starts => req \in Requests
  BY <1>5, AskedFor
<1>11. starts => /\ Pipeline!Opened("proxy", req) # Pipeline!Free
                 /\ Pipeline!Opened("proxy", req).client = "proxy"
                 /\ Pipeline!Opened("proxy", req).req = req
                 /\ Pipeline!Opened("proxy", req).phase = "open"
  BY <1>10, OpenedIs DEF Users
<1>12. polled /\ ~starts => dirty = {}
  BY DEF Vacant
<1> HIDE DEF polled, starts, n, i0, req
<1>13. SlotTurn("proxy")
  BY <1>2, <1>5, <1>6, <1>10 DEF SlotTurn
<1>14. /\ slot' = Pipeline!Free \/ slot' \in SlotRecords
       /\ \A k \in Users : k # "proxy" => (Holds(k)' <=> Holds(k)) /\ (Holds(k) => slot' = slot)
       /\ Effective' => slot' = slot /\ Effective
  BY <1>13, TurnsAreFair DEF Users
<1> USE DEF load, save, home, bootsync
<1>15. /\ s_proxy_inflight_slot' \in Slots /\ dirty' \in SUBSET Slots /\ failed' \in SUBSET Slots
  BY <1>3, <1>4, <1>5, <1>6
<1>16. TypeOK'
  BY <1>1, <1>7, <1>15, StepsOfPass DEF TypeOK
<1>17. PipelineOK'
  BY <1>1, <1>14 DEF PipelineOK
<1>18. OwnerRemembers'
  <2>1. s_proxy_pending' <=> Holds("proxy")'
    BY <1>2, <1>6, <1>7, <1>11 DEF OwnerRemembers, Holds
  <2> QED  BY <1>1, <1>14, <2>1 DEF OwnerRemembers, Users
<1>19. RequestsMatch'
  <2>1. ASSUME starts
        PROVE  /\ slot'.req = Write(Limit(s_proxy_inflight_slot'), value[n]) /\ ~Effective'
               /\ value[n] \in LimitValues
               /\ asked'[s_proxy_inflight_slot'] = value[n] /\ value'[s_proxy_inflight_slot'] = value[n]
    BY <1>1, <1>5, <1>6, <1>11, <2>1 DEF req, Effective
  <2>2. ASSUME ~starts, Holds("proxy")'
        PROVE  slot' = slot /\ Holds("proxy") /\ UNCHANGED <<dirty, s_proxy_inflight_slot>>
    BY <1>6, <2>2 DEF Holds, i0
  <2>3. Holds("proxy")' =>
       \E v \in LimitValues :
         /\ slot'.req = Write(Limit(s_proxy_inflight_slot'), v)
         /\ Effective' => store'[Limit(s_proxy_inflight_slot')] = v
         /\ s_proxy_inflight_slot' \notin dirty'
              => asked'[s_proxy_inflight_slot'] = v /\ value'[s_proxy_inflight_slot'] = v
    <3>1. CASE starts
      BY <2>1, <3>1
    <3>2. CASE ~starts
      BY <1>1, <1>14, <2>2, <3>2 DEF RequestsMatch
    <3> QED  BY <3>1, <3>2
  <2> QED  BY <1>1, <1>14, <2>3 DEF RequestsMatch, Users
<1>20. HomeIsTracked'
  BY <1>1, <1>14 DEF HomeIsTracked, Users, HomeBusy
<1>21. BootIsFirst'
  BY <1>1, <1>2, <1>5, <1>6 DEF BootIsFirst, Holds
<1>22. SaveIsLast'
  BY <1>1, <1>6, <1>8, <1>11, <1>12 DEF SaveIsLast
<1>23. LateIsFailed'
  <2>1. \A i \in dirty' : value'[i] = asked'[i] /\ value'[i] \in LimitValues
    BY <1>1, <1>6 DEF LateIsFailed
  <2>2. polled /\ Ok => late = {}
    BY <1>2 DEF RequestsMatch
  <2>3. ASSUME NEW i \in Slots, NEW v \in LimitValues, Write(Limit(i), v) \in late'
        PROVE  i \in failed' \union dirty' \/ (s_proxy_pending' /\ s_proxy_inflight_slot' = i)
    <3>1. i \in failed \union dirty \/ (s_proxy_pending /\ i0 = i)
      BY <1>1, <2>3 DEF LateIsFailed, i0
    <3>2. ~(polled /\ Ok)
      BY <1>1, <2>2, <2>3
    <3> QED  BY <1>3, <1>6, <1>7, <1>9, <3>1, <3>2
  <2> QED  BY <2>1, <2>3 DEF LateIsFailed
<1>24. LimitsKept'
  <2> SUFFICES ASSUME NEW i \in Slots, asked[i] # Unset, i \notin failed', i \notin dirty',
                      ~(s_proxy_pending' /\ s_proxy_inflight_slot' = i)
               PROVE  store[Limit(i)] = asked[i] /\ value[i] = asked[i]
    BY <1>1 DEF LimitsKept
  <2>1. i \notin dirty
    BY <1>6, <1>7
  <2>2. CASE polled /\ i = i0
    <3>1. Ok
      BY <1>3, <2>2
    <3> QED  BY <1>2, <2>1, <2>2, <3>1 DEF RequestsMatch, i0
  <2>3. CASE ~(polled /\ i = i0)
    <3>1. i \notin failed
      BY <1>3, <2>3
    <3>2. ~(s_proxy_pending /\ i0 = i)
      BY <1>6, <1>7, <1>9, <2>3
    <3> QED  BY <2>1, <3>1, <3>2 DEF LimitsKept, i0
  <2> QED  BY <2>2, <2>3
<1> QED  BY <1>16, <1>17, <1>18, <1>19, <1>20, <1>21, <1>22, <1>23, <1>24

(* The motor save borrows the slot, and gives the drive back.              *)
LEMMA SaveKeeps ==
  ASSUME ClientsInv, NEW elapsed \in BOOLEAN, NEW overdue \in BOOLEAN, SaveTick(elapsed, overdue)
  PROVE  ClientsInv'
<1> USE DEF ClientsInv
<1> DEFINE Steps == SaveAborts \/ SaveWaits(elapsed) \/ SaveAnswered \/ SaveWrites \/ SaveReenables
           req   == Write(OtherEntry, "other")
<1>1. /\ pc = "save" /\ pc' = "home" /\ Steps
      /\ UNCHANGED <<store, late, load, cache, proxy, bootsync, home, history, left>>
  BY PassGoesOn DEF SaveTick
<1>2. enable_latch' \in BOOLEAN
  <2>1. CASE SaveReenables
    BY <2>1, Zenon DEF SaveReenables
  <2>2. CASE ~SaveReenables
    BY <1>1, <2>2 DEF SaveAborts, SaveWaits, SaveAnswered, SaveWrites, save, TypeOK
  <2> QED  BY <2>1, <2>2
<1>3. s_motor_save_was_enabled' = s_motor_save_was_enabled
      /\ s_motor_save_state' \in {"IDLE", "DISABLING", "WRITING_SDO", "REENABLE"}
  BY <1>1 DEF SaveAborts, SaveWaits, SaveAnswered, SaveWrites, SaveReenables, save, TypeOK
<1>4. s_motor_save_handle' \in BOOLEAN
  <2>1. CASE SaveAborts \/ SaveAnswered \/ SaveWrites
    BY <2>1, Zenon DEF SaveAborts, SaveAnswered, SaveWrites
  <2>2. CASE SaveWaits(elapsed) \/ SaveReenables
    BY <2>2 DEF SaveWaits, SaveReenables, save, TypeOK
  <2> QED  BY <1>1, <2>1, <2>2
<1>5. req \in Requests /\ Pipeline!Opened("save", req) # Pipeline!Free
      /\ Pipeline!Opened("save", req).client = "save" /\ Pipeline!Opened("save", req).req = req
      /\ Pipeline!Opened("save", req).phase = "open"
  BY AskedFor, OpenedIs DEF Users
<1> HIDE DEF req
<1>6. SlotTurn("save")
  BY <1>1, <1>5 DEF SaveAborts, SaveWaits, SaveAnswered, SaveWrites, SaveReenables, save, SlotTurn,
     Completed, Holds, Begin, req
<1>7. /\ slot' = Pipeline!Free \/ slot' \in SlotRecords
      /\ \A k \in Users : k # "save" => (Holds(k)' <=> Holds(k)) /\ (Holds(k) => slot' = slot)
      /\ Effective' => slot' = slot /\ Effective
  BY <1>6, TurnsAreFair DEF Users
<1> USE DEF load, cache, proxy, bootsync, home, history
<1>8. TypeOK'
  BY <1>1, <1>2, <1>3, <1>4, StepsOfPass DEF TypeOK
<1>9. PipelineOK'
  BY <1>1, <1>7 DEF PipelineOK
<1>10. /\ s_motor_save_handle' => Holds("save")' /\ s_motor_save_state' = "WRITING_SDO"
       /\ Holds("save")' => s_motor_save_handle' \/ "save" \in Overruns
       /\ Holds("save")' => slot'.req = req
  <2>1. CASE SaveAborts
    BY <2>1 DEF SaveAborts, OwnerRemembers, SaveIsLast, RequestsMatch, Holds, req
  <2>2. CASE SaveWaits(elapsed)
    BY <2>2 DEF SaveWaits, save, OwnerRemembers, SaveIsLast, RequestsMatch, Holds, req
  <2>3. CASE SaveAnswered
    BY <2>3 DEF SaveAnswered, Holds
  <2>4. CASE SaveWrites
    BY <1>5, <2>4 DEF SaveWrites, Begin, Holds, req
  <2>5. CASE SaveReenables
    BY <2>5 DEF SaveReenables, OwnerRemembers, SaveIsLast, RequestsMatch, Holds, req
  <2> QED  BY <1>1, <2>1, <2>2, <2>3, <2>4, <2>5
<1>11. OwnerRemembers'
  BY <1>1, <1>7, <1>10 DEF OwnerRemembers, Users
<1>12. RequestsMatch'
  BY <1>1, <1>7, <1>10 DEF RequestsMatch, Users, req
<1>13. HomeIsTracked'
  BY <1>1, <1>7 DEF HomeIsTracked, Users, HomeBusy
<1>14. BootIsFirst'
  BY <1>1 DEF BootIsFirst, SaveAborts, SaveWaits, SaveAnswered, SaveWrites, SaveReenables, save
<1>15. SaveIsLast'
  BY <1>1, <1>10 DEF SaveIsLast
<1>16. LateIsFailed' /\ LimitsKept'
  BY <1>1 DEF LateIsFailed, LimitsKept
<1> QED  BY <1>8, <1>9, <1>11, <1>12, <1>13, <1>14, <1>15, <1>16

(* The home sequencer reads each answer as the one its state waits for,    *)
(* and that is what it is.                                                 *)
LEMMA HomeKeeps ==
  ASSUME ClientsInv, NEW due \in BOOLEAN, NEW overdue \in BOOLEAN, HomeTick(due, overdue)
  PROVE  ClientsInv'
<1> USE DEF ClientsInv
<1> DEFINE limited == s_home_seq_state \notin {"IDLE", "READING_FAULT"}
           asks    == {Write(HomeStatus, "RUNNING"), Read(HomeStatus), Read(FaultFlags)}
<1>1. /\ pc = "home" /\ pc' = "cia402"
      /\ overdue => "home" \in Overruns /\ limited /\ s_boot_fault_read_kicked
      /\ \/ BootFaultRead
         \/ limited /\ home_overdue' /\ HomeTimesOut
         \/ /\ s_boot_fault_read_kicked \/ slot # Pipeline!Free
            /\ ~(limited /\ home_overdue')
            /\ HomeBody(due)
      /\ UNCHANGED <<store, late, load, cache, proxy, bootsync, save, history, left>>
  BY PassGoesOn DEF HomeTick
<1>2. home_overdue' \in BOOLEAN /\ (home_overdue' <=> home_overdue \/ overdue)
  BY Zenon DEF HomeTick
<1>3. home_overdue' => limited
  BY <1>1, <1>2 DEF HomeIsTracked
<1>4. \A req \in asks : /\ req \in Requests /\ Pipeline!Opened("home", req) # Pipeline!Free
                        /\ Pipeline!Opened("home", req).client = "home"
                        /\ Pipeline!Opened("home", req).req = req
                        /\ Pipeline!Opened("home", req).phase = "open"
  BY AskedFor, EntriesDiffer, OpenedIs DEF Users
<1>5. s_home_last_motor_status \in HomeStatuses /\ s_is_homed \in {"unknown", "HOMED", "NOT_HOMED"}
      /\ s_home_seq_handle \in BOOLEAN /\ s_boot_fault_read_kicked \in BOOLEAN
  BY DEF TypeOK
<1> DEFINE States == {"IDLE", "WRITING_CMD", "POLLING_STATUS", "READING_FAULT",
                      "TERMINAL_DONE", "TERMINAL_FAILED"}
<1> USE DEF load, cache, proxy, bootsync, save, history
(* What each branch must show, and why it is enough. *)
<1>6. ASSUME /\ SlotTurn("home")
             /\ s_home_seq_state' \in States /\ s_home_seq_handle' \in BOOLEAN
             /\ s_home_last_motor_status' \in HomeStatuses
             /\ s_is_homed' \in {"unknown", "HOMED", "NOT_HOMED"}
             /\ s_boot_fault_read_kicked' \in BOOLEAN /\ s_boot_fault_read_kicked'
             /\ s_home_seq_handle' <=> Holds("home")'
             /\ HomeIsTracked'
      PROVE  ClientsInv'
  <2>1. /\ slot' = Pipeline!Free \/ slot' \in SlotRecords
        /\ \A k \in Users : k # "home" => (Holds(k)' <=> Holds(k)) /\ (Holds(k) => slot' = slot)
        /\ Effective' => slot' = slot /\ Effective
    BY <1>6, TurnsAreFair DEF Users
  <2>2. TypeOK'
    BY <1>1, <1>2, <1>6, StepsOfPass DEF TypeOK
  <2>3. PipelineOK'
    BY <1>1, <2>1 DEF PipelineOK
  <2>4. OwnerRemembers'
    BY <1>1, <1>6, <2>1 DEF OwnerRemembers, Users
  <2>5. RequestsMatch'
    BY <1>1, <2>1 DEF RequestsMatch, Users
  <2>6. BootIsFirst' /\ SaveIsLast'
    BY <1>1, <1>6 DEF BootIsFirst, SaveIsLast
  <2>7. LateIsFailed' /\ LimitsKept'
    BY <1>1 DEF LateIsFailed, LimitsKept
  <2> QED  BY <1>6, <2>2, <2>3, <2>4, <2>5, <2>6, <2>7
<1>7. CASE BootFaultRead
  <2>1. /\ ~s_boot_fault_read_kicked /\ slot = Pipeline!Free
        /\ slot' = Pipeline!Opened("home", Read(FaultFlags))
        /\ UNCHANGED <<s_home_last_motor_status, s_is_homed>>
        /\ s_home_seq_state = "IDLE" /\ s_home_seq_state' = "READING_FAULT"
        /\ s_home_last_motor_status = "IDLE"
    BY <1>7 DEF BootFaultRead, Begin, BootIsFirst
  <2>2. /\ s_home_seq_handle' \in BOOLEAN /\ s_home_seq_handle'
        /\ s_boot_fault_read_kicked' \in BOOLEAN /\ s_boot_fault_read_kicked'
    BY <1>7, Zenon DEF BootFaultRead
  <2>3. /\ slot' # Pipeline!Free /\ slot'.client = "home" /\ slot'.req = Read(FaultFlags)
        /\ slot'.phase = "open" /\ SlotTurn("home")
    BY <1>4, <2>1 DEF SlotTurn
  <2>4. HomeIsTracked'
    BY <1>2, <1>3, <2>1, <2>2, <2>3 DEF HomeIsTracked, HomeBusy, Holds, Effective
  <2> QED  BY <1>5, <1>6, <2>1, <2>2, <2>3, <2>4 DEF Holds
<1>8. CASE ~BootFaultRead
  <2>1. s_boot_fault_read_kicked
    <3>1. CASE limited
      BY <3>1 DEF BootIsFirst
    <3>2. CASE slot # Pipeline!Free
      BY <3>2 DEF BootIsFirst
    <3> QED  BY <1>1, <1>8, <3>1, <3>2
  <2>2. CASE limited /\ home_overdue' /\ HomeTimesOut
    <3>1. /\ s_home_seq_state' = "TERMINAL_FAILED" /\ s_home_last_motor_status' = "FAILED"
          /\ UNCHANGED <<slot, s_home_seq_handle, s_is_homed, s_boot_fault_read_kicked>>
      BY <2>2 DEF HomeTimesOut
    <3>2. HomeIsTracked'
      BY <1>1, <2>2, <3>1 DEF HomeIsTracked, HomeBusy, Holds
    <3> QED  BY <1>5, <1>6, <2>1, <3>1, <3>2 DEF SlotTurn, Holds, OwnerRemembers, HomeStatuses
  <2>3. CASE ~home_overdue' /\ HomeBody(due)
    <3>1. CASE HomeBegins(due)
      <4>1. /\ s_home_seq_state \in {"WRITING_CMD", "POLLING_STATUS", "READING_FAULT"}
            /\ ~s_home_seq_handle /\ slot = Pipeline!Free
            /\ slot' = Pipeline!Opened("home", HomeRequest)
            /\ UNCHANGED <<s_home_seq_state, s_home_last_motor_status, s_is_homed, s_boot_fault_read_kicked>>
        BY <3>1 DEF HomeBegins, Begin
      <4>2. s_home_seq_handle' \in BOOLEAN /\ s_home_seq_handle'
        BY <3>1, Zenon DEF HomeBegins
      <4>3. /\ HomeRequest \in asks
            /\ s_home_seq_state = "WRITING_CMD" => HomeRequest = Write(HomeStatus, "RUNNING")
            /\ s_home_seq_state = "POLLING_STATUS" => HomeRequest = Read(HomeStatus)
            /\ s_home_seq_state = "READING_FAULT" => HomeRequest = Read(FaultFlags)
        BY <4>1 DEF HomeRequest
      <4>4. /\ slot' # Pipeline!Free /\ slot'.client = "home" /\ slot'.req = HomeRequest
            /\ slot'.phase = "open" /\ SlotTurn("home")
        BY <1>4, <4>1, <4>3 DEF SlotTurn
      <4>5. HomeIsTracked'
        BY <1>1, <2>3, <4>1, <4>3, <4>4 DEF HomeIsTracked, HomeBusy, Holds, Effective
      <4>6. s_home_seq_state' \in States
        BY <4>1
      <4> QED  BY <1>5, <1>6, <2>1, <4>1, <4>2, <4>4, <4>5, <4>6 DEF Holds
    <3>2. CASE HomeAnswered
      <4>1. /\ s_home_seq_handle /\ Holds("home") /\ slot' = Pipeline!Free
            /\ UNCHANGED s_boot_fault_read_kicked
            /\ CommandAnswered \/ StatusAnswered \/ FaultFlagsAnswered
            /\ Ok => Effective
        BY <3>2 DEF HomeAnswered, Completed, Holds, Ok, Effective
      <4>2. s_home_seq_handle' \in BOOLEAN /\ ~s_home_seq_handle'
        BY <3>2, Zenon DEF HomeAnswered
      <4>3. SlotTurn("home") /\ ~Holds("home")'
        BY <4>1 DEF SlotTurn, Holds
      <4>4. CASE CommandAnswered
        <5>1. /\ s_home_seq_state' \in {"POLLING_STATUS", "TERMINAL_FAILED"} /\ UNCHANGED s_is_homed
              /\ s_home_last_motor_status' \in {s_home_last_motor_status, "FAILED"}
              /\ s_home_seq_state' = "POLLING_STATUS" => store[HomeStatus] = "RUNNING" \/ ran
          BY <4>1, <4>4 DEF CommandAnswered, HomeIsTracked
        <5>2. HomeIsTracked'
          BY <1>1, <2>3, <4>2, <4>3, <5>1 DEF HomeIsTracked, HomeBusy
        <5> QED  BY <1>5, <1>6, <2>1, <4>1, <4>2, <4>3, <5>1, <5>2 DEF HomeStatuses
      <4>5. CASE StatusAnswered
        <5>1. /\ s_home_seq_state' \in {"POLLING_STATUS", "READING_FAULT"} /\ UNCHANGED s_is_homed
              /\ s_home_last_motor_status' \in HomeStatuses
              /\ s_home_seq_state' = "READING_FAULT" /\ s_home_last_motor_status' = "DONE" => ran
              /\ store[HomeStatus] = "RUNNING" \/ ran
          BY <1>5, <4>1, <4>5 DEF StatusAnswered, HomeIsTracked
        <5>2. HomeIsTracked'
          BY <1>1, <2>3, <4>2, <4>3, <5>1 DEF HomeIsTracked, HomeBusy
        <5> QED  BY <1>6, <1>5, <2>1, <4>1, <4>2, <4>3, <5>1, <5>2
      <4>6. CASE FaultFlagsAnswered
        <5>1. /\ s_home_seq_state' \in {"TERMINAL_DONE", "TERMINAL_FAILED", "IDLE"}
              /\ s_is_homed' \in {"unknown", "HOMED", "NOT_HOMED"} /\ UNCHANGED s_home_last_motor_status
          BY <1>5, <4>1, <4>6 DEF FaultFlagsAnswered, HomeIsTracked
        <5>2. HomeIsTracked'
          BY <1>1, <2>3, <4>2, <4>3, <5>1 DEF HomeIsTracked, HomeBusy
        <5> QED  BY <1>6, <1>5, <2>1, <4>1, <4>2, <4>3, <5>1, <5>2
      <4> QED  BY <4>1, <4>4, <4>5, <4>6
    <3>3. CASE HomeEnds
      <4>1. /\ s_home_seq_state \in {"TERMINAL_DONE", "TERMINAL_FAILED"} /\ s_home_seq_state' = "IDLE"
            /\ UNCHANGED <<slot, s_home_seq_handle, s_home_last_motor_status,
                           s_is_homed, s_boot_fault_read_kicked>>
        BY <3>3 DEF HomeEnds
      <4>2. ~s_home_seq_handle /\ ~Holds("home")
        BY <1>2, <2>3, <4>1 DEF HomeIsTracked, HomeBusy, OwnerRemembers
      <4>3. HomeIsTracked'
        BY <1>1, <2>3, <4>1, <4>2 DEF HomeIsTracked, HomeBusy, Holds
      <4> QED  BY <1>5, <1>6, <2>1, <4>1, <4>2, <4>3 DEF SlotTurn, Holds
    <3>4. CASE HomeWaits(due)
      <4>1. UNCHANGED <<slot, s_home_seq_state, s_home_seq_handle, s_home_last_motor_status,
                        s_is_homed, s_boot_fault_read_kicked>>
        BY <3>4 DEF HomeWaits
      <4>2. HomeIsTracked'
        BY <1>1, <1>2, <2>3, <4>1 DEF HomeIsTracked, HomeBusy, Holds, Effective
      <4>3. s_home_seq_state' \in States
        BY <4>1 DEF TypeOK
      <4> QED  BY <1>5, <1>6, <2>1, <4>1, <4>2, <4>3 DEF SlotTurn, Holds, OwnerRemembers
    <3> QED  BY <2>3, <3>1, <3>2, <3>3, <3>4 DEF HomeBody
  <2> QED  BY <1>1, <1>3, <1>8, <2>2, <2>3
<1> QED  BY <1>7, <1>8

LEMMA HomeEndsWell ==
  ASSUME ClientsInv, NEW due \in BOOLEAN, NEW overdue \in BOOLEAN, HomeTick(due, overdue),
         s_home_seq_state # "TERMINAL_DONE", s_home_seq_state' = "TERMINAL_DONE"
  PROVE  ran
<1>1. BootFaultRead \/ HomeTimesOut \/ HomeBody(due)
  BY DEF HomeTick
<1>2. s_home_seq_state = "READING_FAULT" /\ s_home_last_motor_status = "DONE"
  BY <1>1 DEF BootFaultRead, HomeTimesOut, HomeBody, HomeBegins, HomeAnswered, HomeEnds, HomeWaits,
     CommandAnswered, StatusAnswered, FaultFlagsAnswered
<1> QED  BY <1>2 DEF ClientsInv, HomeIsTracked

-----------------------------------------------------------------------------
(* The operator's requests *)

(* A request at the end of the pass leaves store and pipeline alone, but   *)
(* for a write of the load factor.                                         *)
LEMMA OperatorKeeps ==
  ASSUME ClientsInv, Operator
  PROVE  ClientsInv'
<1> USE DEF ClientsInv
<1>1. pc = "handlers" /\ pc' = pc /\ UNCHANGED <<store, late>>
  BY DEF Operator, SetLoadFactor, RequestMotorSave, RequestHome, SetLimit, RequestEnable, Request, Handler
<1>2. s_boot_fault_read_kicked
  BY <1>1 DEF BootIsFirst
<1>3. CASE SetLoadFactor
  <2> DEFINE req == Write(OtherEntry, "other")
  <2>1. UNCHANGED <<cache, proxy, bootsync, save, home, history>>
    BY <1>3 DEF SetLoadFactor
  <2>2. req \in Requests
    BY AskedFor
  <2>3. \/ /\ slot = Pipeline!Free /\ slot' = Pipeline!Opened("load_factor", req)
           /\ s_load_factor_pending' \in BOOLEAN /\ s_load_factor_pending'
        \/ slot' = slot /\ s_load_factor_pending' = s_load_factor_pending
    <3>1. CASE ~s_load_factor_pending /\ slot = Pipeline!Free
      <4>1. s_load_factor_pending' = TRUE
        BY <1>3, <3>1 DEF SetLoadFactor
      <4>2. s_load_factor_pending' \in BOOLEAN /\ s_load_factor_pending'
        BY <4>1, Zenon
      <4> QED  BY <1>3, <3>1, <4>2 DEF SetLoadFactor, Begin
    <3>2. CASE ~(~s_load_factor_pending /\ slot = Pipeline!Free)
      BY <1>3, <3>2 DEF SetLoadFactor
    <3> QED  BY <3>1, <3>2
  <2>4. /\ Pipeline!Opened("load_factor", req) # Pipeline!Free
        /\ Pipeline!Opened("load_factor", req).client = "load_factor"
        /\ Pipeline!Opened("load_factor", req).req = req
    BY <2>2, OpenedIs DEF Users
  <2> HIDE DEF req
  <2>5. SlotTurn("load_factor")
    BY <2>2, <2>3 DEF SlotTurn
  <2>6. /\ slot' = Pipeline!Free \/ slot' \in SlotRecords
        /\ \A k \in Users : k # "load_factor" => (Holds(k)' <=> Holds(k)) /\ (Holds(k) => slot' = slot)
        /\ Effective' => slot' = slot /\ Effective
    BY <2>5, TurnsAreFair DEF Users
  <2>7. /\ s_load_factor_pending' <=> Holds("load_factor")'
        /\ Holds("load_factor")' => slot'.req = req
    BY <2>3, <2>4 DEF OwnerRemembers, RequestsMatch, Holds, req
  <2> USE DEF cache, proxy, bootsync, save, home, history
  <2>8. TypeOK'
    BY <1>1, <2>1, <2>3, StepsOfPass DEF TypeOK
  <2>9. PipelineOK'
    BY <1>1, <2>6 DEF PipelineOK
  <2>10. OwnerRemembers'
    BY <2>1, <2>6, <2>7 DEF OwnerRemembers, Users
  <2>11. RequestsMatch'
    BY <1>1, <2>1, <2>6, <2>7 DEF RequestsMatch, Users, req
  <2>12. HomeIsTracked'
    BY <1>1, <2>1, <2>6 DEF HomeIsTracked, Users, HomeBusy
  <2>13. BootIsFirst' /\ SaveIsLast' /\ LateIsFailed' /\ LimitsKept'
    BY <1>1, <1>2, <2>1 DEF BootIsFirst, SaveIsLast, LateIsFailed, LimitsKept
  <2> QED  BY <2>8, <2>9, <2>10, <2>11, <2>12, <2>13
<1>4. CASE \E i \in Slots, v \in LimitValues : SetLimit(i, v)
  <2>1. PICK i \in Slots, v \in LimitValues : SetLimit(i, v)
    BY <1>4
  <2>2. /\ UNCHANGED <<slot, load, proxy, bootsync, save, home, ran>>
        /\ value' = [value EXCEPT ![i] = v] /\ asked' = [asked EXCEPT ![i] = v]
        /\ dirty' = dirty \union {i} /\ failed' = failed \ {i}
    BY <2>1 DEF SetLimit
  <2>3. /\ value' \in [Slots -> LimitValues \union {Unset}] /\ asked' \in [Slots -> LimitValues \union {Unset}]
        /\ dirty' \in SUBSET Slots /\ failed' \in SUBSET Slots
        /\ value'[i] = v /\ asked'[i] = v
        /\ \A j \in Slots : j # i => value'[j] = value[j] /\ asked'[j] = asked[j]
    BY <2>2 DEF TypeOK
  <2> USE DEF load, proxy, bootsync, save, home
  <2>4. TypeOK'
    BY <1>1, <2>2, <2>3, StepsOfPass DEF TypeOK
  <2>5. PipelineOK' /\ OwnerRemembers' /\ HomeIsTracked'
    BY <1>1, <2>2 DEF PipelineOK, OwnerRemembers, HomeIsTracked, HomeBusy, Holds, Effective
  <2>6. RequestsMatch'
    <3>1. s_proxy_inflight_slot \in Slots
      BY DEF TypeOK
    <3> QED  BY <1>1, <2>2, <2>3, <3>1 DEF RequestsMatch, Holds, Effective
  <2>7. BootIsFirst' /\ SaveIsLast'
    BY <1>1, <1>2, <2>2 DEF BootIsFirst, SaveIsLast
  <2>8. LateIsFailed' /\ LimitsKept'
    <3>1. dirty \subseteq Slots
      BY DEF TypeOK
    <3> QED  BY <1>1, <2>2, <2>3, <3>1 DEF LateIsFailed, LimitsKept
  <2> QED  BY <2>4, <2>5, <2>6, <2>7, <2>8
<1>5. CASE RequestMotorSave \/ \E on \in BOOLEAN : RequestEnable(on)
  <2>1. UNCHANGED <<slot, s_motor_save_handle, load, cache, proxy, bootsync, home, history>>
    BY <1>5 DEF RequestMotorSave, RequestEnable
  <2>2. enable_latch' \in BOOLEAN
    <3>1. CASE RequestMotorSave
      BY <3>1, Zenon DEF RequestMotorSave
    <3>2. CASE \E on \in BOOLEAN : RequestEnable(on)
      BY <3>2 DEF RequestEnable
    <3> QED  BY <1>5, <3>1, <3>2
  <2>3. /\ s_motor_save_was_enabled' \in BOOLEAN
        /\ \/ s_motor_save_state' = s_motor_save_state
           \/ s_motor_save_state = "IDLE" /\ s_motor_save_state' = "DISABLING"
    BY <1>5 DEF RequestMotorSave, RequestEnable, TypeOK
  <2> USE DEF load, cache, proxy, bootsync, home, history
  <2>4. TypeOK'
    BY <1>1, <2>1, <2>2, <2>3, StepsOfPass DEF TypeOK
  <2>5. PipelineOK' /\ OwnerRemembers' /\ HomeIsTracked' /\ RequestsMatch'
    BY <1>1, <2>1 DEF PipelineOK, OwnerRemembers, HomeIsTracked, HomeBusy, RequestsMatch, Holds, Effective
  <2>6. BootIsFirst' /\ SaveIsLast'
    BY <1>1, <1>2, <2>1, <2>3 DEF BootIsFirst, SaveIsLast
  <2>7. LateIsFailed' /\ LimitsKept'
    BY <1>1, <2>1 DEF LateIsFailed, LimitsKept
  <2> QED  BY <2>4, <2>5, <2>6, <2>7
<1>6. CASE RequestHome
  <2>1. /\ s_home_seq_state = "IDLE" /\ s_home_seq_state' = "WRITING_CMD"
        /\ UNCHANGED <<slot, s_home_seq_handle, s_home_last_motor_status, s_is_homed,
                       s_boot_fault_read_kicked, load, cache, proxy, bootsync, save, asked, failed>>
    BY <1>6 DEF RequestHome
  <2>2. home_overdue' \in BOOLEAN /\ ~home_overdue'
    BY <1>6, Zenon DEF RequestHome
  <2>3. ~Holds("home")
    BY <2>1 DEF HomeIsTracked, HomeBusy, OwnerRemembers
  <2> USE DEF load, cache, proxy, bootsync, save
  <2>4. TypeOK'
    BY <1>1, <2>1, <2>2, StepsOfPass DEF TypeOK
  <2>5. PipelineOK' /\ OwnerRemembers' /\ RequestsMatch'
    BY <1>1, <2>1 DEF PipelineOK, OwnerRemembers, RequestsMatch, Holds, Effective
  <2>6. HomeIsTracked'
    BY <1>1, <2>1, <2>2, <2>3 DEF HomeIsTracked, HomeBusy, Holds
  <2>7. BootIsFirst' /\ SaveIsLast' /\ LateIsFailed' /\ LimitsKept'
    BY <1>1, <1>2, <2>1 DEF BootIsFirst, SaveIsLast, LateIsFailed, LimitsKept
  <2> QED  BY <2>4, <2>5, <2>6, <2>7
<1> QED  BY <1>3, <1>4, <1>5, <1>6 DEF Operator

(* The other users of the slot come and go.                                *)
LEMMA OthersKeep ==
  ASSUME ClientsInv, OtherBegins \/ OtherPolls \/ PassEnds
  PROVE  ClientsInv'
<1> USE DEF ClientsInv
<1> DEFINE req == Write(OtherEntry, "other")
<1>1. /\ StandBy /\ UNCHANGED <<store, late, ran>>
      /\ \/ slot' = slot
         \/ slot = Pipeline!Free /\ slot' = Pipeline!Opened("other", req)
         \/ Holds("other") /\ slot' = Pipeline!Free
  <2>1. CASE OtherBegins
    BY <2>1 DEF OtherBegins, Handler, Pipeline!Begin, StandBy, Clients, history
  <2>2. CASE OtherPolls
    BY <2>2 DEF OtherPolls, Elsewhere, Pipeline!Collect, StandBy, Clients, Holds
  <2>3. CASE PassEnds
    BY <2>3, PassGoesOn DEF PassEnds, pipeline, StandBy, Clients, history
  <2> QED  BY <2>1, <2>2, <2>3
<1>2. /\ req \in Requests /\ Pipeline!Opened("other", req) # Pipeline!Free
      /\ Pipeline!Opened("other", req).client = "other"
      /\ Pipeline!Opened("other", req).req = req
  BY AskedFor, OpenedIs DEF Users
<1> HIDE DEF req
<1>3. SlotTurn("other")
  BY <1>1, <1>2 DEF SlotTurn
<1>4. /\ slot' = Pipeline!Free \/ slot' \in SlotRecords
      /\ \A k \in Users : k # "other" => (Holds(k)' <=> Holds(k)) /\ (Holds(k) => slot' = slot)
      /\ Effective' => slot' = slot /\ Effective
  BY <1>3, TurnsAreFair DEF Users
<1>5. Holds("other")' => slot'.req = req
  BY <1>1, <1>2 DEF Holds, RequestsMatch, req
<1>6. StoreOK'
  BY <1>1 DEF TypeOK, PipelineOK, StoreOK
<1>7. TypeOK' /\ BootIsFirst' /\ SaveIsLast'
  BY <1>1, <1>6, StandByKeeps
<1>8. UNCHANGED Clients
  BY <1>1 DEF StandBy
<1>9. PipelineOK'
  BY <1>1, <1>4 DEF PipelineOK
<1> USE DEF Clients, load, cache, proxy, bootsync, save, home
<1>10. OwnerRemembers' /\ HomeIsTracked'
  BY <1>1, <1>4, <1>8 DEF OwnerRemembers, HomeIsTracked, HomeBusy, Users
<1>11. RequestsMatch'
  BY <1>1, <1>4, <1>5, <1>8 DEF RequestsMatch, Users, req
<1>12. LateIsFailed' /\ LimitsKept'
  BY <1>1, <1>8 DEF LateIsFailed, LimitsKept
<1> QED  BY <1>7, <1>9, <1>10, <1>11, <1>12

-----------------------------------------------------------------------------
(* Every step *)

LEMMA InitClients == Init => ClientsInv
<1> SUFFICES ASSUME Init PROVE ClientsInv
  OBVIOUS
<1>1. 1 \in Slots
  BY ConstantsAssumption DEF Slots
<1>2. StoreOK
  <2>1. PICK limits \in [Slots -> LimitValues], status \in HomeStatuses \ {"RUNNING"} :
          store = [o \in Entries |->
                     CASE o = HomeStatus -> status
                       [] o = FaultFlags -> IF status = "DONE" THEN "HOMED" ELSE "NOT_HOMED"
                       [] o = OtherEntry -> "other"
                       [] OTHER -> limits[o[2]]]
    BY DEF Init
  <2>2. ASSUME NEW i \in Slots PROVE store[Limit(i)] = limits[i]
    <3>1. Limit(i)[2] = i
      BY DEF Limit
    <3> QED  BY <2>1, <3>1, EntriesDiffer
  <2>3. /\ store[HomeStatus] = status
        /\ store[FaultFlags] \in {"HOMED", "NOT_HOMED"}
        /\ store[OtherEntry] = "other"
    BY <2>1, EntriesDiffer
  <2>4. ASSUME NEW o \in Entries PROVE store[o] \in DataValues
    BY <2>2, <2>3 DEF Entries, DataValues, HomeStatuses
  <2>5. store \in [Entries -> DataValues]
    BY <2>1, <2>4
  <2> QED  BY <2>2, <2>3, <2>5 DEF StoreOK
<1>3. /\ s_load_factor_pending \in BOOLEAN /\ s_proxy_pending \in BOOLEAN
      /\ enable_latch \in BOOLEAN /\ s_motor_save_was_enabled \in BOOLEAN
      /\ s_motor_save_handle \in BOOLEAN /\ s_home_seq_handle \in BOOLEAN
      /\ home_overdue \in BOOLEAN /\ s_boot_fault_read_kicked \in BOOLEAN
  BY Zenon DEF Init
<1>4. /\ ~s_load_factor_pending /\ ~s_proxy_pending /\ ~s_motor_save_handle
      /\ ~s_home_seq_handle /\ ~home_overdue
  BY DEF Init
<1>5. TypeOK
  BY <1>1, <1>2, <1>3, StepsOfPass, ConstantsAssumption DEF Init, TypeOK, StoreOK, HomeStatuses
<1>6. PipelineOK
  BY <1>2 DEF Init, PipelineOK, StoreOK
<1>7. slot = Pipeline!Free
  BY DEF Init
<1>8. OwnerRemembers /\ RequestsMatch /\ HomeIsTracked
  BY <1>4, <1>7 DEF Init, OwnerRemembers, RequestsMatch, HomeIsTracked, HomeBusy, Holds, Effective
<1>9. BootIsFirst /\ SaveIsLast
  BY <1>4 DEF Init, BootIsFirst, SaveIsLast
<1>10. LateIsFailed /\ LimitsKept
  BY DEF Init, LateIsFailed, LimitsKept
<1> QED  BY <1>5, <1>6, <1>8, <1>9, <1>10 DEF ClientsInv

LEMMA PipelineKeeps ==
  ASSUME ClientsInv, \/ \E ends \in {"ok", "fail", "no"} : Cia402Tick(ends)
                     \/ MotorServes \/ Lost \/ LateRequest
  PROVE  ClientsInv'
<1>1. StandBy /\ UNCHANGED ran
  BY PassGoesOn DEF Cia402Tick, MotorServes, Lost, LateRequest, Elsewhere, StandBy, Clients, history
<1>2. slot # Pipeline!Free => slot \in SlotRecords
  BY DEF ClientsInv, PipelineOK
<1>3. ASSUME slot # Pipeline!Free,
             NEW p \in {"ok", "mute", "failed"},
             slot' = [slot EXCEPT !.phase = p] \/ slot' = [slot EXCEPT !.phase = p, !.data = Unset]
      PROVE  /\ slot' \in SlotRecords /\ slot'.client = slot.client /\ slot'.req = slot.req
             /\ slot'.phase = p
             /\ slot' = [slot EXCEPT !.phase = p] => slot'.data = slot.data
  <2>1. CASE slot' = [slot EXCEPT !.phase = p]
    BY <1>2, <1>3, <2>1 DEF SlotRecords
  <2>2. CASE slot' = [slot EXCEPT !.phase = p, !.data = Unset]
    <3>1. /\ slot' \in SlotRecords /\ slot'.client = slot.client /\ slot'.req = slot.req
          /\ slot'.phase = p /\ slot'.data = Unset
      BY <1>2, <1>3, <2>2 DEF SlotRecords
    <3>2. slot' = [slot EXCEPT !.phase = p] => slot'.data = slot.data
      BY <1>2, <1>3 DEF SlotRecords
    <3> QED  BY <3>1, <3>2
  <2> QED  BY <1>3, <2>1, <2>2
<1>4. CASE Pipeline!Succeed
  <2>1. /\ slot # Pipeline!Free /\ slot.phase = "effective" /\ slot' = [slot EXCEPT !.phase = "ok"]
        /\ UNCHANGED <<store, late>>
    BY <1>4 DEF Pipeline!Succeed
  <2>2. /\ slot' \in SlotRecords /\ slot'.client = slot.client /\ slot'.req = slot.req
        /\ slot'.data = slot.data
    BY <1>3, <2>1
  <2> QED  BY <1>1, <2>1, <2>2, PhaseKeeps DEF Effective
<1>5. CASE Pipeline!GiveUp \/ Pipeline!Lose
  <2>1. /\ slot # Pipeline!Free /\ UNCHANGED store
        /\ \E p \in {"mute", "failed"} : slot' = [slot EXCEPT !.phase = p, !.data = Unset]
        /\ late' \subseteq late \union {slot.req}
    BY <1>5 DEF Pipeline!GiveUp, Pipeline!Lose, Pipeline!Forget
  <2>2. /\ slot' \in SlotRecords /\ slot'.client = slot.client /\ slot'.req = slot.req
        /\ slot'.phase \in {"mute", "failed"}
    BY <1>3, <2>1
  <2>3. ~Effective'
    BY <2>2 DEF Effective
  <2> QED  BY <1>1, <2>1, <2>2, <2>3, PhaseKeeps
<1>6. CASE \E ends \in {"ok", "fail", "no"} : Cia402Tick(ends)
  <2>1. Pipeline!Succeed \/ Pipeline!GiveUp \/ UNCHANGED pipeline
    BY <1>6 DEF Cia402Tick
  <2>2. CASE UNCHANGED pipeline
    BY <1>1, <2>2, IdleKeeps DEF pipeline
  <2> QED  BY <1>4, <1>5, <2>1, <2>2
<1>7. CASE MotorServes
  BY <1>1, <1>7, TakeEffectKeeps DEF MotorServes
<1>8. CASE Lost
  BY <1>5, <1>8 DEF Lost
<1>9. CASE LateRequest
  BY <1>1, <1>9, LateKeeps DEF LateRequest
<1> QED  BY <1>6, <1>7, <1>8, <1>9

LEMMA NextClients == ClientsInv /\ [Next]_vars => ClientsInv'
<1> SUFFICES ASSUME ClientsInv, [Next]_vars PROVE ClientsInv'
  OBVIOUS
<1>1. CASE LoadFactorTick \/ ProxyTick \/ \E due \in BOOLEAN : BootsyncTick(due)
  BY <1>1, LoadFactorKeeps, ProxyKeeps, BootsyncKeeps
<1>2. CASE \E elapsed, overdue \in BOOLEAN : SaveTick(elapsed, overdue)
  BY <1>2, SaveKeeps
<1>3. CASE \E due, overdue \in BOOLEAN : HomeTick(due, overdue)
  BY <1>3, HomeKeeps
<1>4. CASE (\E ends \in {"ok", "fail", "no"} : Cia402Tick(ends)) \/ MotorServes \/ Lost \/ LateRequest
  BY <1>4, PipelineKeeps
<1>5. CASE PassEnds \/ OtherPolls \/ OtherBegins
  BY <1>5, OthersKeep
<1>6. CASE Operator
  BY <1>6, OperatorKeeps
<1>7. CASE \E status \in {"DONE", "FAILED"} : MotorHomes(status)
  BY <1>7, MotorHomesKeeps
<1>8. CASE UNCHANGED vars
  <2> USE DEF vars, pipeline, load, cache, proxy, bootsync, save, home, history, ClientsInv
  <2>1. TypeOK' /\ PipelineOK'
    BY <1>8 DEF TypeOK, PipelineOK
  <2>2. OwnerRemembers' /\ RequestsMatch' /\ HomeIsTracked'
    BY <1>8 DEF OwnerRemembers, RequestsMatch, HomeIsTracked, HomeBusy, Holds, Effective
  <2>3. BootIsFirst' /\ SaveIsLast' /\ LateIsFailed' /\ LimitsKept'
    BY <1>8 DEF BootIsFirst, SaveIsLast, LateIsFailed, LimitsKept
  <2> QED  BY <2>1, <2>2, <2>3
<1> QED  BY <1>1, <1>2, <1>3, <1>4, <1>5, <1>6, <1>7, <1>8 DEF Next, GoesRound

-----------------------------------------------------------------------------
(* The theorems *)

(* One owner to each request, and to each owner its own answer: the five   *)
(* state machines that share the slot never mix up what they asked for.    *)
THEOREM ClientsCorrect == Spec => []ClientsInv
  BY InitClients, NextClients, PTL DEF Spec

(* A limit the operator set is not undone by what boot-sync reads, nor by  *)
(* a request that was given up and takes effect late.                      *)
THEOREM LimitsAreKept == Spec => []LimitsKept
<1>1. ClientsInv => LimitsKept
  BY DEF ClientsInv
<1> QED  BY <1>1, ClientsCorrect, PTL

(* The save is begun only when no limit is waiting to be written: the      *)
(* order of axis_manager_tick.                                             *)
THEOREM SavesAreComplete == Spec => SaveIsComplete
<1> DEFINE Complete ==
      s_motor_save_state # "WRITING_SDO" /\ s_motor_save_state' = "WRITING_SDO"
       => \A i \in Slots : asked[i] # Unset /\ i \notin failed => store[Limit(i)] = asked[i]
<1>1. ASSUME ClientsInv, Next, s_motor_save_state # "WRITING_SDO", s_motor_save_state' = "WRITING_SDO"
      PROVE  pc = "save" /\ slot = Pipeline!Free
  <2>1. CASE \E elapsed, overdue \in BOOLEAN : SaveTick(elapsed, overdue)
    BY <1>1, <2>1, PassGoesOn
       DEF SaveTick, SaveAborts, SaveWaits, SaveWrites, SaveAnswered, SaveReenables, save
  <2>2. CASE ~\E elapsed, overdue \in BOOLEAN : SaveTick(elapsed, overdue)
    <3>1. s_motor_save_state' \in {s_motor_save_state, "DISABLING"}
      BY <1>1, <2>2 DEF Next, GoesRound, Operator, LoadFactorTick, BootsyncTick, ProxyTick, HomeTick,
         Cia402Tick, PassEnds, OtherPolls, OtherBegins, SetLoadFactor, RequestMotorSave, RequestHome,
         SetLimit, RequestEnable, MotorServes, Lost, LateRequest, MotorHomes, Elsewhere, save
    <3> QED  BY <1>1, <3>1
  <2> QED  BY <2>1, <2>2
<1>2. ASSUME ClientsInv, [Next]_vars PROVE [Complete]_vars
  <2> SUFFICES ASSUME Next, s_motor_save_state # "WRITING_SDO", s_motor_save_state' = "WRITING_SDO",
                      NEW i \in Slots, asked[i] # Unset, i \notin failed
               PROVE  store[Limit(i)] = asked[i]
    BY <1>2
  <2>1. pc = "save" /\ slot = Pipeline!Free
    BY <1>1, <1>2
  <2>2. dirty = {} /\ ~s_proxy_pending
    BY <1>2, <2>1 DEF ClientsInv, SaveIsLast, OwnerRemembers, Holds
  <2> QED  BY <1>2, <2>2 DEF ClientsInv, LimitsKept
<1> QED  BY <1>2, ClientsCorrect, PTL DEF Spec, SaveIsComplete

(* TERMINAL_DONE is reached only when the motor homed for this sequence.   *)
THEOREM DoneMeansHomed == Spec => HomeMeansHomed
<1>1. ASSUME ClientsInv, [Next]_vars
      PROVE  [s_home_seq_state # "TERMINAL_DONE" /\ s_home_seq_state' = "TERMINAL_DONE" => ran]_vars
  <2> SUFFICES ASSUME Next, s_home_seq_state # "TERMINAL_DONE", s_home_seq_state' = "TERMINAL_DONE"
               PROVE  ran
    BY <1>1
  <2>1. CASE \E due, overdue \in BOOLEAN : HomeTick(due, overdue)
    BY <1>1, <2>1, HomeEndsWell
  <2>2. CASE ~\E due, overdue \in BOOLEAN : HomeTick(due, overdue)
    <3>1. s_home_seq_state' \in {s_home_seq_state, "WRITING_CMD"}
      BY <2>2 DEF Next, GoesRound, Operator, LoadFactorTick, BootsyncTick, ProxyTick, SaveTick,
         Cia402Tick, PassEnds, OtherPolls, OtherBegins, SetLoadFactor, RequestMotorSave, RequestHome,
         SetLimit, RequestEnable, MotorServes, Lost, LateRequest, MotorHomes, Elsewhere, home
    <3> QED  BY <3>1
  <2> QED  BY <2>1, <2>2
<1> QED  BY <1>1, ClientsCorrect, PTL DEF Spec, HomeMeansHomed
=============================================================================
