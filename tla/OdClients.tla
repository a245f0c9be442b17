------------------------------ MODULE OdClients ------------------------------
(***************************************************************************)
(* app/axis_manager: the state machines that use the OD pipeline beside    *)
(* the setup sequencer.  axis_manager_tick calls them in a fixed order,    *)
(* and each one finishes its request or begins the next: the load factor,  *)
(* the boot-sync that mirrors the motor's limits into the CMC, the proxy   *)
(* that writes the operator's limits to the motor, the motor save, and the *)
(* home sequence.  A client remembers that the request in the slot is its  *)
(* own (its handle); whoever forgets a request leaves it there for ever.   *)
(*                                                                         *)
(* Delays (due, elapsed) are nondeterministic.  The motor's home_command   *)
(* and home_status are one entry: commanding home writes RUNNING.          *)
(***************************************************************************)
EXTENDS Integers, Sequences

CONSTANTS
  PROXY_SLOT_COUNT,  \* limits proxied to the motor (7)
  LimitValues,       \* values of a limit
  Overruns,          \* sequences that may exceed their absolute time limit:
                     \* "home", and "save" with its write under way
  MaxRequests,       \* bound: operator requests
  MaxTrouble         \* bound: requests of other clients, and requests or
                     \* answers lost, late or refused, together

ASSUME ConstantsAssumption ==
  /\ PROXY_SLOT_COUNT \in Nat \ {0}
  /\ Overruns \subseteq {"home", "save"}
  /\ MaxRequests \in Nat /\ MaxTrouble \in Nat

VARIABLES
  pc,                        \* the tick that comes next in the pass
  store, slot, late,         \* the OD pipeline (OdService)
  s_load_factor_pending,
  value, dirty,              \* s_proxy_slots
  s_proxy_pending, s_proxy_inflight_slot,
  s_bootsync_state, s_bootsync_inflight_slot, s_bootsync_next_slot,
  enable_latch, s_motor_save_state, s_motor_save_was_enabled, s_motor_save_handle,
  s_home_seq_state, s_home_seq_handle, s_home_last_motor_status, home_overdue,
  s_is_homed,                \* "unknown" while ~s_is_homed_known
  s_boot_fault_read_kicked,
  asked,                     \* history: the operator's last value of a limit
  failed,                    \* history: limits whose last write failed
  ran,                       \* history: the motor homed since home was asked for
  left                       \* bounds: events still to come

pipeline == <<store, slot, late>>
load     == <<s_load_factor_pending>>
cache    == <<value, dirty>>
proxy    == <<s_proxy_pending, s_proxy_inflight_slot>>
bootsync == <<s_bootsync_state, s_bootsync_inflight_slot, s_bootsync_next_slot>>
save     == <<enable_latch, s_motor_save_state, s_motor_save_was_enabled, s_motor_save_handle>>
home     == <<s_home_seq_state, s_home_seq_handle, s_home_last_motor_status,
              home_overdue, s_is_homed, s_boot_fault_read_kicked>>
history  == <<asked, failed, ran>>
vars == <<pc, pipeline, load, cache, proxy, bootsync, save, home, history, left>>

-----------------------------------------------------------------------------
(* Data *)

Slots        == 1 .. PROXY_SLOT_COUNT
Unset        == "unset"
HomeStatuses == {"IDLE", "RUNNING", "DONE", "FAILED"}

Limit(i)     == <<"limit", i>>
HomeStatus   == <<"home_status", 0>>
FaultFlags   == <<"fault_flags", 0>>
OtherEntry   == <<"other", 0>>
Entries      == {Limit(i) : i \in Slots} \union {HomeStatus, FaultFlags, OtherEntry}

DataValues   == LimitValues \union HomeStatuses \union {"HOMED", "NOT_HOMED", "other"}

Pipeline == INSTANCE OdService WITH
  Clients <- {"load_factor", "bootsync", "proxy", "save", "home", "other"},
  Objects <- Entries,
  Values  <- DataValues,
  Unknown <- Unset

Read(o)     == [is_read |-> TRUE, obj |-> o, val |-> Unset]
Write(o, v) == [is_read |-> FALSE, obj |-> o, val |-> v]

Completed_OkOnly(c) == slot # Pipeline!Free /\ slot.client = c /\ slot.phase = "ok"

(* cia402_od_poll has an answer for the client, good or bad. *)
Completed(c) == slot # Pipeline!Free /\ slot.client = c /\ slot.phase \in {"ok", "failed"}
Ok == slot.phase = "ok"

(* cia402_od_read_begin and _write_begin, after the client's own request   *)
(* was collected or while the slot is free.                                *)
Begin(c, req) == slot' = Pipeline!Opened(c, req)
Vacant_Ignored(polled) == TRUE

(* A begin that finds the slot taken returns CIA402_OD_HANDLE_INVALID.     *)
Vacant(polled) == polled \/ slot = Pipeline!Free
Release(polled) == slot' = IF polled THEN Pipeline!Free ELSE slot

Pass_SaveFirst == <<"load_factor", "bootsync", "save", "proxy", "home", "cia402", "handlers">>

(* axis_manager_tick calls the clients' ticks in this order. *)
Pass == <<"load_factor", "bootsync", "proxy", "save", "home", "cia402", "handlers">>

(* One step of the pass. *)
At(step) ==
  /\ pc = step
  /\ \E i \in DOMAIN Pass : Pass[i] = step /\ pc' = Pass[(i % Len(Pass)) + 1]

-----------------------------------------------------------------------------
(* poll_load_factor_sdo *)
LoadFactorTick ==
  LET polled == s_load_factor_pending /\ Completed("load_factor")
  IN /\ At("load_factor")
     /\ s_load_factor_pending' = (s_load_factor_pending /\ ~polled)
     /\ Release(polled)
     /\ UNCHANGED <<store, late, cache, proxy, bootsync, save, home, history, left>>

-----------------------------------------------------------------------------
(* tick_proxy_bootsync *)

Adopted_Always(i, polled) ==
  IF polled /\ Ok THEN [value EXCEPT ![i] = slot.data] ELSE value

(* A value the operator set and that is not written yet is kept. *)
Adopted(i, polled) ==
  IF polled /\ Ok /\ i \notin dirty THEN [value EXCEPT ![i] = slot.data] ELSE value

(* due: the kick-off delay or the resync period is over. *)
BootsyncTick(due) ==
  LET polled == s_bootsync_state = "BUSY" /\ Completed("bootsync")
      runs   == polled \/ (s_bootsync_state # "BUSY" /\ due)
      next   == IF s_bootsync_state = "DONE" THEN 1 ELSE s_bootsync_next_slot
  IN /\ At("bootsync")
     (* The boot read of fault_flags began long before. *)
     /\ due => s_boot_fault_read_kicked
     /\ value' = Adopted(s_bootsync_inflight_slot, polled)
     /\ \/ ~runs /\ UNCHANGED <<bootsync, slot>>
        \/ /\ runs /\ next > PROXY_SLOT_COUNT
           /\ s_bootsync_state' = "DONE"
           /\ Release(polled)
           /\ UNCHANGED <<s_bootsync_inflight_slot, s_bootsync_next_slot>>
        \/ /\ runs /\ next <= PROXY_SLOT_COUNT /\ Vacant(polled)
           /\ Begin("bootsync", Read(Limit(next)))
           /\ s_bootsync_state' = "BUSY"
           /\ s_bootsync_inflight_slot' = next
           /\ s_bootsync_next_slot' = next + 1
        \/ /\ runs /\ next <= PROXY_SLOT_COUNT /\ ~Vacant(polled)
           /\ s_bootsync_state' = "IDLE"
           /\ s_bootsync_next_slot' = next
           /\ UNCHANGED <<s_bootsync_inflight_slot, slot>>
     /\ UNCHANGED <<store, late, load, dirty, proxy, save, home, history, left>>

-----------------------------------------------------------------------------
(* poll_motor_proxy_sdo *)

(* Distance of slot i from the last one written, going round. *)
Turn(i) == (i - s_proxy_inflight_slot - 1) % PROXY_SLOT_COUNT

NextDirty == CHOOSE i \in dirty : \A j \in dirty : Turn(i) <= Turn(j)

DirtyAfterBegin_Kept(i) == dirty

(* The mark goes when the write is begun, whatever becomes of it. *)
DirtyAfterBegin(i) == dirty \ {i}

ProxyTick ==
  LET polled == s_proxy_pending /\ Completed("proxy")
      runs   == polled \/ ~s_proxy_pending
      starts == runs /\ dirty # {} /\ Vacant(polled)
  IN /\ At("proxy")
     /\ failed' = CASE polled /\ Ok  -> failed \ {s_proxy_inflight_slot}
                    [] polled /\ ~Ok -> failed \union {s_proxy_inflight_slot}
                    [] ~polled       -> failed
     /\ \/ /\ starts
           /\ Begin("proxy", Write(Limit(NextDirty), value[NextDirty]))
           /\ dirty' = DirtyAfterBegin(NextDirty)
           /\ s_proxy_pending' = TRUE
           /\ s_proxy_inflight_slot' = NextDirty
        \/ /\ ~starts
           /\ Release(polled)
           /\ s_proxy_pending' = (s_proxy_pending /\ ~polled)
           /\ UNCHANGED <<dirty, s_proxy_inflight_slot>>
     /\ UNCHANGED <<store, late, load, value, bootsync, save, home, asked, ran, left>>

-----------------------------------------------------------------------------
(* tick_motor_save *)

SaveAborts ==
  /\ s_motor_save_state # "IDLE"
  /\ s_motor_save_state = "WRITING_SDO" => "save" \in Overruns
  /\ enable_latch' = s_motor_save_was_enabled
  /\ s_motor_save_state' = "IDLE"
  /\ s_motor_save_handle' = FALSE
  /\ UNCHANGED <<slot, s_motor_save_was_enabled>>

SaveWrites ==
  /\ s_motor_save_state = "DISABLING" /\ slot = Pipeline!Free
  /\ Begin("save", Write(OtherEntry, "other"))
  /\ s_motor_save_handle' = TRUE
  /\ s_motor_save_state' = "WRITING_SDO"
  /\ UNCHANGED <<enable_latch, s_motor_save_was_enabled>>

SaveAnswered ==
  /\ s_motor_save_state = "WRITING_SDO" /\ s_motor_save_handle /\ Completed("save")
  /\ slot' = Pipeline!Free
  /\ s_motor_save_handle' = FALSE
  /\ s_motor_save_state' = "REENABLE"
  /\ UNCHANGED <<enable_latch, s_motor_save_was_enabled>>

SaveReenables ==
  /\ s_motor_save_state = "REENABLE"
  /\ enable_latch' = (enable_latch \/ s_motor_save_was_enabled)
  /\ s_motor_save_state' = "IDLE"
  /\ UNCHANGED <<slot, s_motor_save_was_enabled, s_motor_save_handle>>

SaveWaits(elapsed) ==
  /\ \/ s_motor_save_state = "IDLE"
     \/ s_motor_save_state = "DISABLING" /\ (~elapsed \/ slot # Pipeline!Free)
     \/ s_motor_save_state = "WRITING_SDO" /\ ~Completed("save")
     \/ s_motor_save_state = "REENABLE" /\ ~elapsed
  /\ UNCHANGED <<slot, save>>

(* elapsed: the settling time of the state is over; overdue: the whole     *)
(* sequence took longer than MOTOR_SAVE_OVERALL_TIMEOUT_MS.                *)
SaveTick(elapsed, overdue) ==
  /\ At("save")
  /\ \/ overdue /\ SaveAborts
     \/ ~overdue /\ SaveWaits(elapsed)
     \/ ~overdue /\ SaveAnswered
     \/ ~overdue /\ elapsed /\ (SaveWrites \/ SaveReenables)
  /\ UNCHANGED <<store, late, load, cache, proxy, bootsync, home, history, left>>

-----------------------------------------------------------------------------
(* tick_home_sequencer *)

BootFaultRead ==
  /\ ~s_boot_fault_read_kicked /\ slot = Pipeline!Free
  /\ Begin("home", Read(FaultFlags))
  /\ s_home_seq_handle' = TRUE
  /\ s_boot_fault_read_kicked' = TRUE
  /\ s_home_seq_state' = IF s_home_seq_state = "IDLE" THEN "READING_FAULT" ELSE s_home_seq_state
  /\ UNCHANGED <<s_home_last_motor_status, s_is_homed>>

(* The absolute time limit is looked at before the state is. *)
HomeTimesOut ==
  /\ s_home_seq_state' = "TERMINAL_FAILED"
  /\ s_home_last_motor_status' = "FAILED"
  /\ UNCHANGED <<slot, s_home_seq_handle, s_is_homed, s_boot_fault_read_kicked>>

HomeRequest ==
  CASE s_home_seq_state = "WRITING_CMD"    -> Write(HomeStatus, "RUNNING")
    [] s_home_seq_state = "POLLING_STATUS" -> Read(HomeStatus)
    [] s_home_seq_state = "READING_FAULT"  -> Read(FaultFlags)

HomeBegins(due) ==
  /\ s_home_seq_state \in {"WRITING_CMD", "POLLING_STATUS", "READING_FAULT"}
  /\ ~s_home_seq_handle /\ slot = Pipeline!Free
  /\ s_home_seq_state = "POLLING_STATUS" => due
  /\ Begin("home", HomeRequest)
  /\ s_home_seq_handle' = TRUE
  /\ UNCHANGED <<s_home_seq_state, s_home_last_motor_status, s_is_homed, s_boot_fault_read_kicked>>

CommandAnswered_Unchecked ==
  /\ s_home_seq_state = "WRITING_CMD"
  /\ s_home_seq_state' = "POLLING_STATUS"
  /\ UNCHANGED <<s_home_last_motor_status, s_is_homed>>

CommandAnswered ==
  /\ s_home_seq_state = "WRITING_CMD"
  /\ s_home_seq_state' = IF Ok THEN "POLLING_STATUS" ELSE "TERMINAL_FAILED"
  /\ s_home_last_motor_status' = IF Ok THEN s_home_last_motor_status ELSE "FAILED"
  /\ UNCHANGED s_is_homed

StatusAnswered ==
  /\ s_home_seq_state = "POLLING_STATUS"
  /\ s_home_last_motor_status' = IF Ok THEN slot.data ELSE s_home_last_motor_status
  /\ s_home_seq_state' = IF Ok /\ slot.data \in {"DONE", "FAILED"}
                         THEN "READING_FAULT" ELSE "POLLING_STATUS"
  /\ UNCHANGED s_is_homed

FaultFlagsAnswered ==
  /\ s_home_seq_state = "READING_FAULT"
  /\ s_is_homed' = IF Ok THEN slot.data ELSE s_is_homed
  /\ s_home_seq_state' =
       CASE Ok /\ s_home_last_motor_status = "DONE"   -> "TERMINAL_DONE"
         [] Ok /\ s_home_last_motor_status = "FAILED" -> "TERMINAL_FAILED"
         [] OTHER -> "IDLE"
  /\ UNCHANGED s_home_last_motor_status

(* An answer is read as the one the state expects. *)
HomeAnswered ==
  /\ s_home_seq_handle /\ Completed("home")
  /\ CommandAnswered \/ StatusAnswered \/ FaultFlagsAnswered
  /\ slot' = Pipeline!Free
  /\ s_home_seq_handle' = FALSE
  /\ UNCHANGED s_boot_fault_read_kicked

HomeEnds ==
  /\ s_home_seq_state \in {"TERMINAL_DONE", "TERMINAL_FAILED"}
  /\ s_home_seq_state' = "IDLE"
  /\ UNCHANGED <<slot, s_home_seq_handle, s_home_last_motor_status,
                 s_is_homed, s_boot_fault_read_kicked>>

HomeBusy == s_home_seq_state \in {"WRITING_CMD", "POLLING_STATUS", "READING_FAULT"}

HomeWaits(due) ==
  /\ \/ s_home_seq_state = "IDLE"
     \/ HomeBusy /\ s_home_seq_handle /\ ~Completed("home")
     \/ HomeBusy /\ ~s_home_seq_handle /\ slot # Pipeline!Free
     \/ s_home_seq_state = "POLLING_STATUS" /\ ~s_home_seq_handle /\ ~due
  /\ UNCHANGED <<slot, s_home_seq_state, s_home_seq_handle,
                 s_home_last_motor_status, s_is_homed, s_boot_fault_read_kicked>>

HomeBody(due) == HomeBegins(due) \/ HomeAnswered \/ HomeEnds \/ HomeWaits(due)

(* due: HOME_POLL_PERIOD_MS is over.  The sequence may become overdue at   *)
(* any time after the first one began its boot read, and stays so.         *)
HomeTick(due, overdue) ==
  LET limited == s_home_seq_state \notin {"IDLE", "READING_FAULT"}
  IN /\ At("home")
     /\ overdue => "home" \in Overruns /\ limited /\ s_boot_fault_read_kicked
     /\ home_overdue' = (home_overdue \/ overdue)
     /\ \/ BootFaultRead
        \/ limited /\ home_overdue' /\ HomeTimesOut
        \/ /\ s_boot_fault_read_kicked \/ slot # Pipeline!Free
           /\ ~(limited /\ home_overdue')
           /\ HomeBody(due)
     /\ UNCHANGED <<store, late, load, cache, proxy, bootsync, save, history, left>>

-----------------------------------------------------------------------------
(* The rest of the pass *)

Spend(kind) == left[kind] > 0 /\ left' = [left EXCEPT ![kind] = @ - 1]

Mute == slot # Pipeline!Free /\ slot.phase = "mute"

(* cia402_tick: the request in service may end. *)
Cia402Tick(ends) ==
  /\ At("cia402")
  /\ \/ ends = "no" /\ UNCHANGED <<pipeline, left>>
     \/ ends = "ok" /\ Pipeline!Succeed /\ UNCHANGED left
     \/ ends = "fail" /\ Pipeline!GiveUp /\ IF Mute THEN UNCHANGED left ELSE Spend("trouble")
  /\ UNCHANGED <<load, cache, proxy, bootsync, save, home, history>>

PassEnds ==
  /\ At("handlers") /\ ~Completed("other")
  /\ UNCHANGED <<pipeline, load, cache, proxy, bootsync, save, home, history, left>>

Handler(kind) == pc = "handlers" /\ Spend(kind) /\ UNCHANGED pc

Request == Handler("requests") /\ UNCHANGED <<store, late>>

(* axis_manager_set_load_factor: written only if the pipeline is free now. *)
SetLoadFactor ==
  /\ Request
  /\ IF ~s_load_factor_pending /\ slot = Pipeline!Free
     THEN Begin("load_factor", Write(OtherEntry, "other")) /\ s_load_factor_pending' = TRUE
     ELSE UNCHANGED <<slot, s_load_factor_pending>>
  /\ UNCHANGED <<cache, proxy, bootsync, save, home, history>>

(* A limit's setter: proxy_motor_f32_begin. *)
SetLimit(i, v) ==
  /\ Request
  /\ value' = [value EXCEPT ![i] = v]
  /\ dirty' = dirty \union {i}
  /\ asked' = [asked EXCEPT ![i] = v]
  /\ failed' = failed \ {i}
  /\ UNCHANGED <<slot, load, proxy, bootsync, save, home, ran>>

RequestEnable(on) ==
  /\ Request
  /\ enable_latch' = on
  /\ UNCHANGED <<slot, load, cache, proxy, bootsync, home, history,
                 s_motor_save_state, s_motor_save_was_enabled, s_motor_save_handle>>

RequestMotorSave ==
  /\ Request /\ s_motor_save_state = "IDLE"
  /\ s_motor_save_was_enabled' = enable_latch
  /\ enable_latch' = FALSE
  /\ s_motor_save_state' = "DISABLING"
  /\ UNCHANGED <<slot, s_motor_save_handle, load, cache, proxy, bootsync, home, history>>

RequestHome ==
  /\ Request /\ s_home_seq_state = "IDLE"
  /\ s_home_seq_state' = "WRITING_CMD"
  /\ home_overdue' = FALSE
  /\ ran' = FALSE
  /\ UNCHANGED <<slot, s_home_seq_handle, s_home_last_motor_status, s_is_homed,
                 s_boot_fault_read_kicked, load, cache, proxy, bootsync, save, asked, failed>>

(* Other users of the slot: the setup sequencer, app/od. *)
OtherBegins ==
  /\ Handler("trouble")
  /\ Pipeline!Begin("other", Write(OtherEntry, "other"))
  /\ UNCHANGED <<load, cache, proxy, bootsync, save, home, history>>

Elsewhere ==
  /\ pc = "handlers"
  /\ UNCHANGED <<pc, load, cache, proxy, bootsync, save, home, asked, failed>>

OtherPolls == Elsewhere /\ Pipeline!Collect("other") /\ UNCHANGED <<ran, left>>

-----------------------------------------------------------------------------
(* The motor *)

MotorServes == Elsewhere /\ Pipeline!TakeEffect /\ UNCHANGED <<ran, left>>

Lost == Elsewhere /\ Pipeline!Lose /\ Spend("trouble") /\ UNCHANGED ran

LateRequest ==
  Elsewhere /\ late # {} /\ (Pipeline!LateEffect \/ Pipeline!LateLost) /\ UNCHANGED <<ran, left>>

(* The motor finds its end stop, or gives up. *)
MotorHomes(status) ==
  /\ Elsewhere
  /\ store[HomeStatus] = "RUNNING"
  /\ store' = [store EXCEPT ![HomeStatus] = status,
                            ![FaultFlags] = IF status = "DONE" THEN "HOMED" ELSE @]
  /\ ran' = TRUE
  /\ UNCHANGED <<slot, late, left>>

-----------------------------------------------------------------------------
(* After the reset of the CMC; the motor may have been up before. *)
Init ==
  /\ pc = "load_factor"
  /\ \E limits \in [Slots -> LimitValues], status \in HomeStatuses \ {"RUNNING"} :
       store = [o \in Entries |->
                  CASE o = HomeStatus -> status
                    [] o = FaultFlags -> IF status = "DONE" THEN "HOMED" ELSE "NOT_HOMED"
                    [] o = OtherEntry -> "other"
                    [] OTHER -> limits[o[2]]]
  /\ slot = Pipeline!Free /\ late = {}
  /\ s_load_factor_pending = FALSE
  /\ value = [i \in Slots |-> Unset] /\ dirty = {}
  /\ s_proxy_pending = FALSE /\ s_proxy_inflight_slot = 1
  /\ s_bootsync_state = "IDLE" /\ s_bootsync_inflight_slot = 1 /\ s_bootsync_next_slot = 1
  /\ enable_latch = FALSE
  /\ s_motor_save_state = "IDLE" /\ s_motor_save_was_enabled = FALSE
  /\ s_motor_save_handle = FALSE
  /\ s_home_seq_state = "IDLE" /\ s_home_seq_handle = FALSE
  /\ s_home_last_motor_status = "IDLE" /\ home_overdue = FALSE
  /\ s_is_homed = "unknown" /\ s_boot_fault_read_kicked = FALSE
  /\ asked = [i \in Slots |-> Unset] /\ failed = {} /\ ran = FALSE
  /\ left = [requests |-> MaxRequests, trouble |-> MaxTrouble]

Operator ==
  \/ SetLoadFactor \/ RequestMotorSave \/ RequestHome
  \/ \E i \in Slots, v \in LimitValues : SetLimit(i, v)
  \/ \E on \in BOOLEAN : RequestEnable(on)

(* The super-loop *)
GoesRound ==
  \/ LoadFactorTick
  \/ \E due \in BOOLEAN : BootsyncTick(due)
  \/ ProxyTick
  \/ \E elapsed, overdue \in BOOLEAN : SaveTick(elapsed, overdue)
  \/ \E due, overdue \in BOOLEAN : HomeTick(due, overdue)
  \/ \E ends \in {"ok", "fail", "no"} : Cia402Tick(ends)
  \/ PassEnds \/ OtherPolls

Next ==
  \/ GoesRound
  \/ Operator \/ OtherBegins
  \/ MotorServes \/ Lost \/ LateRequest
  \/ \E status \in {"DONE", "FAILED"} : MotorHomes(status)

Spec == Init /\ [][Next]_vars

(* The super-loop goes round, the motor serves requests and answers, and a *)
(* homing run comes to an end.  A delay that is over stays so, and the     *)
(* slot is free for seconds between two resyncs, so that a client whose    *)
(* turn comes again and again gets it.                                     *)
Fairness ==
  /\ WF_vars(GoesRound)
  /\ SF_vars(SaveTick(TRUE, FALSE) /\ save' # save)
  /\ SF_vars(HomeTick(TRUE, FALSE) /\ home' # home)
  /\ SF_vars(Cia402Tick("ok")) /\ SF_vars(Cia402Tick("fail"))
  /\ SF_vars(MotorServes)
  /\ SF_vars(\E status \in {"DONE", "FAILED"} : MotorHomes(status))

FairSpec == Spec /\ Fairness

-----------------------------------------------------------------------------
(* Properties *)

(* Every variable stays in its range. *)
TypeOK ==
  /\ \E i \in DOMAIN Pass : pc = Pass[i]
  /\ store \in [Entries -> DataValues]
  /\ s_load_factor_pending \in BOOLEAN
  /\ value \in [Slots -> LimitValues \union {Unset}] /\ dirty \in SUBSET Slots
  /\ s_proxy_pending \in BOOLEAN /\ s_proxy_inflight_slot \in Slots
  /\ s_bootsync_state \in {"IDLE", "BUSY", "DONE"}
  /\ s_bootsync_inflight_slot \in Slots /\ s_bootsync_next_slot \in 1 .. PROXY_SLOT_COUNT + 1
  /\ enable_latch \in BOOLEAN /\ s_motor_save_was_enabled \in BOOLEAN
  /\ s_motor_save_state \in {"IDLE", "DISABLING", "WRITING_SDO", "REENABLE"}
  /\ s_motor_save_handle \in BOOLEAN /\ s_home_seq_handle \in BOOLEAN
  /\ s_home_seq_state \in {"IDLE", "WRITING_CMD", "POLLING_STATUS", "READING_FAULT",
                           "TERMINAL_DONE", "TERMINAL_FAILED"}
  /\ s_home_last_motor_status \in HomeStatuses /\ home_overdue \in BOOLEAN
  /\ s_is_homed \in {"unknown", "HOMED", "NOT_HOMED"}
  /\ s_boot_fault_read_kicked \in BOOLEAN
  /\ asked \in [Slots -> LimitValues \union {Unset}] /\ failed \in SUBSET Slots

Holds(c) == slot # Pipeline!Free /\ slot.client = c

(* No client mistakes another one's answer for its own, and none forgets   *)
(* the request it has in the slot: the flags and handles of the five       *)
(* clients say whose it is (axis_manager.c:1320-1325).  A save that runs   *)
(* into its time limit with the write under way is the exception.          *)
OwnerRemembers ==
  /\ s_load_factor_pending <=> Holds("load_factor")
  /\ s_bootsync_state = "BUSY" <=> Holds("bootsync")
  /\ s_proxy_pending <=> Holds("proxy")
  /\ s_home_seq_handle <=> Holds("home")
  /\ s_motor_save_handle => Holds("save")
  /\ Holds("save") => s_motor_save_handle \/ "save" \in Overruns

(* A limit the operator set is what the motor holds and what the CMC shows *)
(* once it is written, whatever boot-sync read meanwhile, unless its last  *)
(* write failed.                                                           *)
LimitsKept ==
  \A i \in Slots :
    asked[i] # Unset /\ i \notin failed /\ i \notin dirty
      /\ ~(s_proxy_pending /\ s_proxy_inflight_slot = i)
    => store[Limit(i)] = asked[i] /\ value[i] = asked[i]

(* What the clients ask, and what the slot and the motor's store then hold. *)
Requests ==
  {Read(o) : o \in Entries} \union {Write(Limit(i), v) : i \in Slots, v \in LimitValues}
    \union {Write(HomeStatus, "RUNNING"), Write(OtherEntry, "other")}

SlotRecords ==
  [phase : {"open", "effective", "mute", "ok", "failed"}, req : Requests,
   client : {"load_factor", "bootsync", "proxy", "save", "home", "other"},
   data : DataValues \union {Unset}]

PipelineOK ==
  /\ slot = Pipeline!Free \/ slot \in SlotRecords
  /\ late \in SUBSET Requests
  /\ \A i \in Slots : store[Limit(i)] \in LimitValues
  /\ store[HomeStatus] \in HomeStatuses /\ store[FaultFlags] \in {"HOMED", "NOT_HOMED"}

(* The request took effect, so that no older one can any more. *)
Effective == slot # Pipeline!Free /\ slot.phase \in {"effective", "ok"}

(* The request in the slot is the one its client's state speaks of, and an *)
(* answer to boot-sync is the limit the motor holds.                       *)
RequestsMatch ==
  /\ Effective => late = {}
  /\ Holds("bootsync") =>
       /\ slot.req = Read(Limit(s_bootsync_inflight_slot))
       /\ Effective => slot.data = store[Limit(s_bootsync_inflight_slot)]
  /\ Holds("proxy") =>
       \E v \in LimitValues :
         /\ slot.req = Write(Limit(s_proxy_inflight_slot), v)
         /\ Effective => store[Limit(s_proxy_inflight_slot)] = v
         /\ s_proxy_inflight_slot \notin dirty
              => asked[s_proxy_inflight_slot] = v /\ value[s_proxy_inflight_slot] = v
  /\ Holds("load_factor") \/ Holds("save") \/ Holds("other")
       => slot.req = Write(OtherEntry, "other")

(* The home sequence asks what its state says.  The motor's DONE counts    *)
(* from the command on; a sequence over its time limit is never left, and  *)
(* its request in the slot is never mistaken for the next one's.           *)
HomeIsTracked ==
  /\ Holds("home") =>
       /\ slot.req \in {Write(HomeStatus, "RUNNING"), Read(HomeStatus), Read(FaultFlags)}
       /\ s_home_seq_state = "WRITING_CMD" =>
            /\ slot.req = Write(HomeStatus, "RUNNING")
            /\ Effective => store[HomeStatus] = "RUNNING" \/ ran
       /\ s_home_seq_state = "POLLING_STATUS" =>
            /\ slot.req = Read(HomeStatus)
            /\ Effective => slot.data \in HomeStatuses /\ (slot.data = "DONE" => ran)
       /\ s_home_seq_state = "READING_FAULT" =>
            /\ slot.req = Read(FaultFlags)
            /\ Effective => slot.data \in {"HOMED", "NOT_HOMED"}
  /\ s_home_seq_state = "POLLING_STATUS" => store[HomeStatus] = "RUNNING" \/ ran
  /\ s_home_seq_state = "READING_FAULT" /\ s_home_last_motor_status = "DONE" => ran
  /\ home_overdue => s_home_seq_state = "TERMINAL_FAILED"
  /\ s_home_seq_handle => HomeBusy \/ home_overdue

(* The first tick of the home sequencer begins the boot read. *)
BootIsFirst ==
  ~s_boot_fault_read_kicked =>
    /\ pc \in {"load_factor", "bootsync", "proxy", "save", "home"}
    /\ slot = Pipeline!Free /\ dirty = {}
    /\ s_motor_save_state = "IDLE" /\ s_home_seq_state = "IDLE"
    /\ s_home_last_motor_status = "IDLE"

(* The proxy has its turn before the save has.                             *)
SaveIsLast ==
  /\ s_motor_save_handle => s_motor_save_state = "WRITING_SDO"
  /\ pc = "save" /\ slot = Pipeline!Free => dirty = {}

(* A marked limit shows what the operator set, and a write of a limit that *)
(* was given up and may still take effect is one that failed, is under way *)
(* again or will be.                                                       *)
LateIsFailed ==
  /\ \A i \in dirty : value[i] = asked[i] /\ value[i] \in LimitValues
  /\ \A i \in Slots, v \in LimitValues :
       Write(Limit(i), v) \in late
         => i \in failed \union dirty \/ (s_proxy_pending /\ s_proxy_inflight_slot = i)

(* States, flags and handles in range, one owner to each request (what     *)
(* keeps five state machines on one slot apart), and to each owner the     *)
(* answer it waits for: inductive for the pass, the operator, the pipeline *)
(* and the motor.                                                          *)
ClientsInv ==
  /\ TypeOK /\ PipelineOK /\ OwnerRemembers /\ RequestsMatch
  /\ HomeIsTracked /\ BootIsFirst /\ SaveIsLast /\ LateIsFailed /\ LimitsKept

(* The motor is told to save when it holds every limit set before, but for *)
(* those whose write failed: the web page sets limits with one POST and    *)
(* asks for the save with the next one (web.c:491-510, 602-611).           *)
SaveIsComplete ==
  [][s_motor_save_state # "WRITING_SDO" /\ s_motor_save_state' = "WRITING_SDO"
       => \A i \in Slots : asked[i] # Unset /\ i \notin failed => store[Limit(i)] = asked[i]]_vars

(* A home sequence that ends well is one in which the motor homed: the     *)
(* DONE of an earlier one is never taken for it.                           *)
HomeMeansHomed ==
  [][s_home_seq_state # "TERMINAL_DONE" /\ s_home_seq_state' = "TERMINAL_DONE" => ran]_vars

(* Whoever takes the slot gives it back: a stuck one stops every client    *)
(* (axis_manager.c:1320-1325).                                             *)
SlotReleased == slot # Pipeline!Free ~> slot = Pipeline!Free

(* A limit set is sent, however busy the others keep the slot.             *)
EveryLimitIsSent == \A i \in Slots : i \in dirty ~> i \notin dirty

(* A motor save ends, and the drive is enabled or disabled again.          *)
SaveEnds == s_motor_save_state # "IDLE" ~> s_motor_save_state = "IDLE"

(* A home sequence ends, and the next one can be asked for: DONE and       *)
(* FAILED last one tick, then IDLE (axis_manager.c:1818).                  *)
HomeSequenceEnds == s_home_seq_state # "IDLE" ~> s_home_seq_state = "IDLE"

(* Neither sequence locks the operator out of the next one.                *)
SequencesEnd == SaveEnds /\ HomeSequenceEnds
=============================================================================
