------------------------------- MODULE Persist ------------------------------
(***************************************************************************)
(* app/persist over bsp/flash, and its three users: the axis configuration *)
(* (axis_manager), the shot table (cmc_state, saved with every stored      *)
(* shot) and the network settings (config).  persist_save erases the       *)
(* region's pages and programs header, payload and tail word by word; it   *)
(* blocks the super-loop, so that only a reset or a flash error comes      *)
(* between.  Boot loads each region into RAM or keeps the defaults.        *)
(*                                                                         *)
(* A word is a double word of flash.  An erase or a program that is cut    *)
(* short leaves a word as it was, as it should be, or unreadable.  The     *)
(* CRC tells any two payloads apart; all blobs have one size.              *)
(***************************************************************************)
EXTENDS Integers, Sequences

CONSTANTS
  Words,      \* contents of a payload word
  Blobs,      \* payloads: an aligned part and a tail
  Default,    \* the payload a region's user starts with
  Versions,   \* schema versions of the firmware
  Bounds      \* bounds: saves, and resets and flash errors (trouble), in a behaviour

ASSUME ConstantsAssumption ==
  /\ Blobs \subseteq Words \X Words
  /\ Default \in Blobs
  /\ Bounds \subseteq [saves : Nat, trouble : Nat]

VARIABLES
  flash,    \* content of every word of every page
  saving,   \* the save under way and its next step
  ram,      \* what the users of the regions have in RAM
  version,  \* schema version of the firmware that runs
  kept,     \* history: what the last save left, from its success to the
            \* next save of the region
  tried,    \* history: the last save that was done, and those begun since
  left      \* bounds: events still to come

vars == <<flash, saving, ram, version, kept, tried, left>>

-----------------------------------------------------------------------------
(* Flash *)

None   == [none |-> TRUE]
Erased == <<"erased">>   \* also a word a payload may contain
Junk   == <<"junk">>

Regions == {"CONFIG", "SHOTS", "NETWORK"}
Pages   == 60 .. 63
Offsets == 1 .. 4       \* two words of header, aligned payload, tail

NumPages_ConfigTwo(r) == IF r = "NETWORK" THEN 1 ELSE 2

(* s_regions *)
NumPages(r) == IF r = "SHOTS" THEN 2 ELSE 1

BasePage(r) == CASE r = "SHOTS" -> 60 [] r = "CONFIG" -> 62 [] r = "NETWORK" -> 63

Magic(v)  == <<"PRST", v>>
Crc(blob) == <<"CRC32", blob>>

(* The words persist_save programs, in their order. *)
Image(s) == <<Magic(s.version), Crc(s.blob), s.blob[1], s.blob[2]>>

-----------------------------------------------------------------------------
(* persist_load *)

Payload(r) == <<flash[BasePage(r)][3], flash[BasePage(r)][4]>>

CrcMatches_Never(r) == Payload(r) \in Blobs

CrcMatches(r) == flash[BasePage(r)][2] = Crc(Payload(r))

HasMagic(r) == \E v \in Versions : flash[BasePage(r)][1] = Magic(v)

Valid(r) == HasMagic(r) /\ CrcMatches(r)

VersionOf(r) == flash[BasePage(r)][1][2]

VersionMatches_Any(r, v) == TRUE

VersionMatches(r, v) == VersionOf(r) = v

Load(r, v) == IF Valid(r) /\ VersionMatches(r, v) THEN Payload(r) ELSE Default

-----------------------------------------------------------------------------
(* persist_save, one step for each page erased and each word programmed *)

Spend(kind) == left[kind] > 0 /\ left' = [left EXCEPT ![kind] = @ - 1]

Idle == saving = None

Starts(r, blob) ==
  /\ Idle
  /\ saving' = [region |-> r, saved |-> [blob |-> blob, version |-> version], step |-> 1]
  /\ kept' = [kept EXCEPT ![r] = None]
  /\ tried' = [tried EXCEPT ![r] = @ \union {saving'.saved}]

Erases == ~Idle /\ saving.step <= NumPages(saving.region)

PageToErase == BasePage(saving.region) + saving.step - 1

Offset == saving.step - NumPages(saving.region)

Programs == ~Idle /\ Offset \in Offsets

Word == Image(saving.saved)[Offset]

Target == flash[BasePage(saving.region)][Offset]

Advance == saving' = [saving EXCEPT !.step = @ + 1]

ErasePage ==
  /\ Erases /\ Advance
  /\ flash' = [flash EXCEPT ![PageToErase] = [o \in Offsets |-> Erased]]
  /\ UNCHANGED <<ram, version, kept, tried, left>>

(* The flash would refuse to program a word that is not erased; the save  *)
(* would then be stuck here, and TLC would report the deadlock.            *)
ProgramWord ==
  /\ Programs /\ Target = Erased /\ Advance
  /\ flash' = [flash EXCEPT ![BasePage(saving.region)][Offset] = Word]
  /\ UNCHANGED <<ram, version, kept, tried, left>>

SaveSucceeds ==
  /\ ~Idle /\ Offset > 4
  /\ saving' = None
  /\ kept' = [kept EXCEPT ![saving.region] = saving.saved]
  /\ tried' = [tried EXCEPT ![saving.region] = {saving.saved}]
  /\ UNCHANGED <<flash, ram, version, left>>

(* What the step under way may leave when it is cut short: any words of    *)
(* the page erased, or none of it readable; the word as it was, as it      *)
(* should be, or unreadable.                                               *)
TornErase ==
  {[flash EXCEPT ![PageToErase] = [o \in Offsets |-> Junk]]} \union
  {[flash EXCEPT ![PageToErase] = [o \in Offsets |-> IF o \in done THEN Erased ELSE @[o]]] :
     done \in SUBSET Offsets}

TornProgram ==
  {[flash EXCEPT ![BasePage(saving.region)][Offset] = w] : w \in {Target, Word, Junk}}

Torn == CASE Erases -> TornErase [] Programs -> TornProgram [] OTHER -> {flash}

(* flash_erase_page or flash_program_dword fails: persist_save returns     *)
(* false and leaves the region as it is.                                   *)
FlashFails ==
  /\ Erases \/ Programs
  /\ Spend("trouble")
  /\ flash' \in Torn
  /\ saving' = None
  /\ UNCHANGED <<ram, version, kept, tried>>

-----------------------------------------------------------------------------
(* The users *)

(* Setters of axis_manager and config: RAM only. *)
Edit(r, blob) ==
  /\ Idle
  /\ r # "SHOTS"
  /\ ram' = [ram EXCEPT ![r] = blob]
  /\ UNCHANGED <<flash, saving, version, kept, tried, left>>

(* axis_manager_save_to_flash, config_save_network_to_flash *)
SaveRegion(r) ==
  /\ r # "SHOTS"
  /\ Spend("saves")
  /\ Starts(r, ram[r])
  /\ UNCHANGED <<flash, ram, version>>

(* cmc_state_store_shot: changes the table and saves it. *)
StoreShot(blob) ==
  /\ Spend("saves")
  /\ ram' = [ram EXCEPT !["SHOTS"] = blob]
  /\ Starts("SHOTS", blob)
  /\ UNCHANGED <<flash, version>>

(* A reset, perhaps into other firmware: config_init, axis_manager_init    *)
(* and cmc_state_init load their regions.                                  *)
Reset(v) ==
  /\ Spend("trouble")
  /\ flash' \in Torn
  /\ saving' = None
  /\ version' = v
  /\ ram' = [r \in Regions |-> Load(r, v)']
  /\ UNCHANGED <<kept, tried>>

-----------------------------------------------------------------------------
(* A new board *)
Init ==
  /\ flash = [p \in Pages |-> [o \in Offsets |-> Erased]]
  /\ saving = None
  /\ ram = [r \in Regions |-> Default]
  /\ version \in Versions
  /\ kept = [r \in Regions |-> None]
  /\ tried = [r \in Regions |-> {}]
  /\ left \in Bounds

SaveSteps == ErasePage \/ ProgramWord \/ SaveSucceeds

Next ==
  \/ SaveSteps \/ FlashFails
  \/ \E r \in Regions : SaveRegion(r) \/ \E blob \in Blobs : Edit(r, blob)
  \/ \E blob \in Blobs : StoreShot(blob)
  \/ \E v \in Versions : Reset(v)

Spec == Init /\ [][Next]_vars

-----------------------------------------------------------------------------
(* Properties *)

(* What a save reported as done left is what the next boot finds, however  *)
(* many saves of other regions, cut short or not, came between; firmware   *)
(* of another schema version starts with its defaults instead.             *)
SavedSurvives ==
  [][\A r \in Regions :
       \A v \in Versions : Reset(v) /\ kept[r] # None
         => ram'[r] = IF kept[r].version = v THEN kept[r].blob ELSE Default]_vars

(* What a load would find. *)
Content(r) == IF Valid(r) THEN [blob |-> Payload(r), version |-> VersionOf(r)] ELSE None

Store == INSTANCE BlobStore WITH
  content <- [r \in Regions |-> Content(r)],
  writing <- IF Idle THEN None ELSE [region |-> saving.region, saved |-> saving.saved]

(* A region never shows a mixture of two blobs, whatever is cut short.     *)
ImplementsBlobStore == Store!Spec
=============================================================================
