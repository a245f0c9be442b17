---------------------------- MODULE PersistProofs ---------------------------
(***************************************************************************)
(* Theorems about app/persist and its users for every set of blobs and of  *)
(* schema versions, and any number of saves, resets and flash errors: what *)
(* BlobStore promises, and that a save once done survives.                 *)
(***************************************************************************)
EXTENDS Persist, TLAPS

-----------------------------------------------------------------------------
(* The invariant *)

Saved == [blob : Blobs, version : Versions]

FlashWords ==
  Words \union {Erased, Junk} \union {Magic(v) : v \in Versions} \union {Crc(blob) : blob \in Blobs}

TypeOK ==
  /\ flash \in [Pages -> [Offsets -> FlashWords]]
  /\ saving = None \/ saving \in [region : Regions, saved : Saved, step : 1 .. 7]
  /\ ram \in [Regions -> Blobs]
  /\ version \in Versions
  /\ kept \in [Regions -> Saved \union {None}]
  /\ tried \in [Regions -> SUBSET Saved]

(* A save under way was begun, and has programmed, of a page it erased     *)
(* before, the words up to its step.                                       *)
SaveInOrder ==
  saving # None =>
    /\ saving.saved \in tried[saving.region] /\ kept[saving.region] = None
    /\ Offset <= 5
    /\ saving.step > 1 =>
         \A o \in Offsets : flash[BasePage(saving.region)][o] =
                              IF o < Offset THEN Image(saving.saved)[o] ELSE Erased

(* The version of a header and its CRC are of one save that was begun.     *)
HeaderOf(page, T) ==
  (\E v \in Versions : page[1] = Magic(v)) =>
    page[2] \in {Erased, Junk} \union {Crc(s.blob) : s \in {s \in T : s.version = page[1][2]}}

HeaderIsOfOneSave == \A r \in Regions : HeaderOf(flash[BasePage(r)], tried[r])

(* What the last save left is still there.                                 *)
KeptIsThere == \A r \in Regions : kept[r] # None => Content(r) = kept[r]

PersistInv == TypeOK /\ SaveInOrder /\ HeaderIsOfOneSave /\ KeptIsThere

-----------------------------------------------------------------------------
(* Words and pages *)

LEMMA WordsAre ==
  /\ \A v : Magic(v) \notin {Erased, Junk} /\ Magic(v)[2] = v
  /\ \A blob : Crc(blob) \notin {Erased, Junk}
  /\ \A v, w : Magic(v) = Magic(w) => v = w
  /\ \A blob, other : Crc(blob) = Crc(other) => blob = other
<1>1. \A v : Magic(v) \notin {Erased, Junk}
  BY DEF Magic, Erased, Junk
<1>2. \A v : Magic(v)[2] = v
  BY DEF Magic
<1>3. \A blob : Crc(blob) \notin {Erased, Junk}
  BY DEF Crc, Erased, Junk
<1>4. \A v, w : Magic(v) = Magic(w) => v = w
  BY DEF Magic
<1>5. \A blob, other : Crc(blob) = Crc(other) => blob = other
  BY DEF Crc
<1> QED  BY <1>1, <1>2, <1>3, <1>4, <1>5

LEMMA NoneIsNoRecord ==
  /\ None \notin Saved
  /\ None \notin [region : Regions, saved : Saved, step : 1 .. 7]
  BY DEF None, Saved

LEMMA RegionsAre ==
  ASSUME NEW r \in Regions
  PROVE  /\ NumPages(r) \in {1, 2} /\ BasePage(r) \in Pages
         /\ \A k \in 1 .. NumPages(r) : BasePage(r) + k - 1 \in Pages
         /\ \A q \in Regions, k \in 1 .. NumPages(r) :
              q # r \/ k > 1 => BasePage(r) + k - 1 # BasePage(q)
  BY DEF Regions, NumPages, BasePage, Pages

LEMMA SavedIs ==
  ASSUME NEW s \in Saved
  PROVE  /\ s.blob \in Blobs /\ s.version \in Versions /\ s.blob = <<s.blob[1], s.blob[2]>>
         /\ s.blob[1] \in Words /\ s.blob[2] \in Words
         /\ s = [blob |-> s.blob, version |-> s.version]
<1>1. s.blob \in Blobs /\ s.version \in Versions /\ s = [blob |-> s.blob, version |-> s.version]
  BY DEF Saved
<1>2. s.blob \in Words \X Words
  BY <1>1, ConstantsAssumption
<1>3. s.blob = <<s.blob[1], s.blob[2]>> /\ s.blob[1] \in Words /\ s.blob[2] \in Words
  BY <1>2
<1> QED  BY <1>1, <1>3

(* What a load finds in a region whose first page is this one.             *)
Found(page) ==
  IF (\E v \in Versions : page[1] = Magic(v)) /\ page[2] = Crc(<<page[3], page[4]>>)
  THEN [blob |-> <<page[3], page[4]>>, version |-> page[1][2]] ELSE None

LEMMA ContentIs ==
  ASSUME NEW r \in Regions
  PROVE  Content(r) = Found(flash[BasePage(r)]) /\ Content(r)' = Found(flash'[BasePage(r)])
<1>1. Content(r) = Found(flash[BasePage(r)])
  BY DEF Content, Found, Valid, HasMagic, CrcMatches, Payload, VersionOf
<1>2. Content(r)' = Found(flash'[BasePage(r)])
  BY DEF Content, Found, Valid, HasMagic, CrcMatches, Payload, VersionOf
<1> QED  BY <1>1, <1>2

(* It is one of the saves the header may be of.                            *)
LEMMA FoundIsTried ==
  ASSUME NEW page, NEW T \in SUBSET Saved, HeaderOf(page, T)
  PROVE  Found(page) \in {None} \union T
<1> SUFFICES ASSUME \E v \in Versions : page[1] = Magic(v), page[2] = Crc(<<page[3], page[4]>>)
             PROVE  [blob |-> <<page[3], page[4]>>, version |-> page[1][2]] \in T
  BY DEF Found
<1>1. page[2] \in {Crc(s.blob) : s \in {s \in T : s.version = page[1][2]}}
  BY WordsAre DEF HeaderOf
<1>2. PICK s \in T : s.version = page[1][2] /\ page[2] = Crc(s.blob)
  BY <1>1
<1>3. s.blob = <<page[3], page[4]>>
  BY <1>2, WordsAre
<1>4. s = [blob |-> s.blob, version |-> s.version]
  BY SavedIs
<1> QED  BY <1>2, <1>3, <1>4

(* A page programmed to its end shows its save.                            *)
LEMMA FoundIsSaved ==
  ASSUME NEW page, NEW s \in Saved, \A o \in Offsets : page[o] = Image(s)[o]
  PROVE  Found(page) = s
<1>1. /\ page[1] = Magic(s.version) /\ page[2] = Crc(s.blob)
      /\ page[3] = s.blob[1] /\ page[4] = s.blob[2]
  BY DEF Offsets, Image
<1>2. <<page[3], page[4]>> = s.blob /\ page[1][2] = s.version /\ s.version \in Versions
  BY <1>1, SavedIs, WordsAre
<1> QED  BY <1>1, <1>2, SavedIs DEF Found

-----------------------------------------------------------------------------
(* What a step of a save, whole or cut short, makes of the flash *)

LEMMA SavingIs ==
  ASSUME PersistInv, saving # None
  PROVE  /\ saving.region \in Regions /\ saving.saved \in Saved /\ saving.step \in 1 .. 7
         /\ saving \in [region : Regions, saved : Saved, step : 1 .. 7]
         /\ Offset \in Int /\ Offset = saving.step - NumPages(saving.region)
         /\ NumPages(saving.region) \in {1, 2}
         /\ saving.saved \in tried[saving.region] /\ tried[saving.region] \in SUBSET Saved
  BY RegionsAre DEF PersistInv, TypeOK, SaveInOrder, Offset

(* A page of which any words have been erased.                             *)
LEMMA ErasedKeepsHeader ==
  ASSUME NEW page, NEW new, NEW T, HeaderOf(page, T),
         \A o \in Offsets : new[o] \in {Erased, Junk, page[o]}
  PROVE  HeaderOf(new, T)
<1> SUFFICES ASSUME NEW v \in Versions, new[1] = Magic(v)
             PROVE  new[2] \in {Erased, Junk} \union {Crc(s.blob) : s \in {s \in T : s.version = new[1][2]}}
  BY DEF HeaderOf
<1>1. new[1] = page[1]
  BY WordsAre DEF Offsets
<1>2. page[2] \in {Erased, Junk} \union {Crc(s.blob) : s \in {s \in T : s.version = new[1][2]}}
  BY <1>1 DEF HeaderOf
<1>3. new[2] \in {Erased, Junk, page[2]}
  BY DEF Offsets
<1> QED  BY <1>2, <1>3

(* Other regions keep their first page, and that of the save a header of   *)
(* one save.                                                               *)
LEMMA TornIs ==
  ASSUME PersistInv, NEW f \in Torn
  PROVE  /\ f \in [Pages -> [Offsets -> FlashWords]]
         /\ \A r \in Regions : HeaderOf(f[BasePage(r)], tried[r])
         /\ \A r \in Regions : saving = None \/ r # saving.region => f[BasePage(r)] = flash[BasePage(r)]
         /\ saving = None => f = flash
<1> DEFINE Fine == /\ f \in [Pages -> [Offsets -> FlashWords]]
                   /\ \A r \in Regions : HeaderOf(f[BasePage(r)], tried[r])
                   /\ \A r \in Regions : saving = None \/ r # saving.region => f[BasePage(r)] = flash[BasePage(r)]
                   /\ saving = None => f = flash
<1>1. /\ flash \in [Pages -> [Offsets -> FlashWords]]
      /\ \A r \in Regions : HeaderOf(flash[BasePage(r)], tried[r])
      /\ Erased \in FlashWords /\ Junk \in FlashWords
  BY DEF PersistInv, TypeOK, HeaderIsOfOneSave, FlashWords
<1>2. CASE Erases
  <2> DEFINE p == PageToErase
             r0 == saving.region
  <2>1. /\ r0 \in Regions /\ saving # None /\ p \in Pages
        /\ \A q \in Regions : q # r0 => p # BasePage(q)
    <3>1. saving # None /\ saving.step \in 1 .. 7 /\ saving.step <= NumPages(saving.region)
      BY <1>2, SavingIs DEF Erases, Idle
    <3>2. saving.region \in Regions /\ saving.step \in 1 .. NumPages(saving.region)
      BY <3>1, SavingIs
    <3> QED  BY <3>1, <3>2, RegionsAre DEF PageToErase
  <2>2. PICK new \in [Offsets -> FlashWords] :
          /\ f = [flash EXCEPT ![p] = new]
          /\ \A o \in Offsets : new[o] \in {Erased, Junk, flash[p][o]}
    <3>1. CASE f = [flash EXCEPT ![p] = [o \in Offsets |-> Junk]]
      <4> DEFINE new == [o \in Offsets |-> Junk]
      <4>1. new \in [Offsets -> FlashWords] /\ \A o \in Offsets : new[o] = Junk
        BY <1>1
      <4> QED  BY <3>1, <4>1
    <3>2. CASE \E done \in SUBSET Offsets :
                 f = [flash EXCEPT ![p] = [o \in Offsets |-> IF o \in done THEN Erased ELSE @[o]]]
      <4>1. PICK done \in SUBSET Offsets :
              f = [flash EXCEPT ![p] = [o \in Offsets |-> IF o \in done THEN Erased ELSE flash[p][o]]]
        BY <3>2
      <4> DEFINE new == [o \in Offsets |-> IF o \in done THEN Erased ELSE flash[p][o]]
      <4>2. new \in [Offsets -> FlashWords]
        BY <1>1, <2>1
      <4>3. \A o \in Offsets : new[o] \in {Erased, Junk, flash[p][o]}
        OBVIOUS
      <4> QED  BY <4>1, <4>2, <4>3
    <3>3. f \in {[flash EXCEPT ![p] = [o \in Offsets |-> Junk]]} \union
                {[flash EXCEPT ![p] = [o \in Offsets |-> IF o \in done THEN Erased ELSE @[o]]] :
                   done \in SUBSET Offsets}
      <4>1. ~Programs
        <5>1. Offset \in Int /\ Offset <= 0
          BY <1>2, <2>1, SavingIs DEF Erases
        <5> QED  BY <5>1 DEF Programs, Offsets
      <4>2. f \in TornErase
        BY <1>2, <4>1 DEF Torn
      <4> QED  BY <4>2, Zenon DEF TornErase
    <3> QED  BY <3>1, <3>2, <3>3
  <2> HIDE DEF p
  <2>3. f \in [Pages -> [Offsets -> FlashWords]]
    BY <1>1, <2>2
  <2>4. \A q \in Pages : f[q] = IF q = p THEN new ELSE flash[q]
    BY <1>1, <2>2
  <2>5. \A r \in Regions : r # r0 => f[BasePage(r)] = flash[BasePage(r)]
    BY <2>1, <2>4, RegionsAre
  <2>6. ASSUME NEW r \in Regions
        PROVE  HeaderOf(f[BasePage(r)], tried[r])
    <3>1. \A o \in Offsets : f[BasePage(r)][o] \in {Erased, Junk, flash[BasePage(r)][o]}
      BY <2>2, <2>4, RegionsAre
    <3> QED  BY <1>1, <3>1, ErasedKeepsHeader
  <2> QED  BY <2>1, <2>3, <2>5, <2>6
<1>3. CASE Programs
  <2> DEFINE r0 == saving.region
             b == BasePage(r0)
             n == Offset
             s == saving.saved
  <2>1. /\ saving # None /\ n \in Offsets /\ r0 \in Regions /\ s \in Saved /\ s \in tried[r0]
        /\ b \in Pages /\ \A q \in Regions : q # r0 => b # BasePage(q)
    <3>1. saving # None /\ n \in Offsets
      BY <1>3 DEF Programs, Idle
    <3>2. r0 \in Regions /\ s \in Saved /\ s \in tried[r0] /\ b \in Pages
      BY <3>1, SavingIs, RegionsAre
    <3>3. \A q \in Regions : q # r0 => b # BasePage(q)
      BY <3>2 DEF Regions, BasePage
    <3> QED  BY <3>1, <3>2, <3>3
  <2>2. \A o \in Offsets : flash[b][o] = IF o < n THEN Image(s)[o] ELSE Erased
    <3>1. saving.step > 1
      BY <2>1, SavingIs DEF Offsets
    <3> QED  BY <2>1, <3>1 DEF PersistInv, SaveInOrder
  <2>3. PICK w \in {Target, Word, Junk} : f = [flash EXCEPT ![b][n] = w]
    <3>1. ~Erases
      BY <1>3, <2>1, SavingIs DEF Erases, Offsets
    <3>2. f \in {[flash EXCEPT ![BasePage(saving.region)][Offset] = w] : w \in {Target, Word, Junk}}
      <4>1. f \in TornProgram
        BY <1>3, <3>1 DEF Torn
      <4> QED  BY <4>1, Zenon DEF TornProgram
    <3> QED  BY <3>2
  <2>4. w \in {Erased, Image(s)[n], Junk}
    BY <2>1, <2>2, <2>3 DEF Target, Word
  <2>5. Image(s)[n] \in FlashWords
    BY <2>1, SavedIs DEF Image, Offsets, FlashWords
  <2> HIDE DEF b, n, s
  <2>6. /\ f \in [Pages -> [Offsets -> FlashWords]]
        /\ \A q \in Pages : q # b => f[q] = flash[q]
        /\ \A o \in Offsets : f[b][o] = IF o = n THEN w ELSE flash[b][o]
    BY <1>1, <2>1, <2>3, <2>4, <2>5
  <2>7. \A r \in Regions : r # r0 => f[BasePage(r)] = flash[BasePage(r)]
    BY <2>1, <2>6, RegionsAre
  <2>8. HeaderOf(f[b], tried[r0])
    <3> SUFFICES ASSUME NEW v \in Versions, f[b][1] = Magic(v)
                 PROVE  f[b][2] \in {Erased, Junk} \union
                          {Crc(x.blob) : x \in {x \in tried[r0] : x.version = f[b][1][2]}}
      BY DEF HeaderOf
    <3>1. Image(s)[1] = Magic(s.version) /\ Image(s)[2] = Crc(s.blob)
      BY DEF Image
    <3>2. 1 \in Offsets /\ 2 \in Offsets /\ n \in {1, 2, 3, 4}
      BY <2>1 DEF Offsets
    <3>3. f[b][2] \in {Erased, Junk, Crc(s.blob)}
      BY <2>2, <2>4, <2>6, <3>1, <3>2
    <3>4. f[b][1] \in {Erased, Junk, Magic(s.version)}
      BY <2>2, <2>4, <2>6, <3>1, <3>2
    <3>5. s.version = f[b][1][2]
      BY <3>4, WordsAre
    <3> QED  BY <2>1, <3>3, <3>5
  <2>9. \A r \in Regions : HeaderOf(f[BasePage(r)], tried[r])
    BY <1>1, <2>7, <2>8 DEF b
  <2> QED  BY <2>1, <2>6, <2>7, <2>9
<1>4. CASE ~Erases /\ ~Programs
  <2>1. f = flash
    BY <1>4 DEF Torn
  <2> QED  BY <1>1, <2>1
<1> QED  BY <1>2, <1>3, <1>4

(* The whole step is one of the ways it may be cut short.                  *)
LEMMA WholeIsTorn ==
  ASSUME PersistInv, ErasePage \/ ProgramWord
  PROVE  flash' \in Torn
<1>1. CASE ErasePage
  <2>1. Erases /\ flash' = [flash EXCEPT ![PageToErase] = [o \in Offsets |-> Erased]]
    BY <1>1 DEF ErasePage
  <2>2. ~Programs
    <3>1. saving # None /\ saving.step <= NumPages(saving.region)
      BY <2>1 DEF Erases, Idle
    <3> QED  BY <3>1, SavingIs DEF Programs, Offsets
  <2>3. flash' = [flash EXCEPT ![PageToErase] = [o \in Offsets |-> IF o \in Offsets THEN Erased ELSE @[o]]]
    BY <2>1
  <2>4. flash' \in TornErase
    BY <2>3 DEF TornErase
  <2> QED  BY <2>1, <2>2, <2>4 DEF Torn
<1>2. CASE ProgramWord
  <2>1. Programs /\ flash' = [flash EXCEPT ![BasePage(saving.region)][Offset] = Word]
    BY <1>2 DEF ProgramWord
  <2>2. ~Erases
    <3>1. saving # None /\ Offset \in 1 .. 4
      BY <2>1 DEF Programs, Idle, Offsets
    <3> QED  BY <3>1, SavingIs DEF Erases
  <2>3. flash' \in TornProgram
    BY <2>1 DEF TornProgram
  <2> QED  BY <2>1, <2>2, <2>3 DEF Torn
<1> QED  BY <1>1, <1>2

-----------------------------------------------------------------------------
(* Every step preserves the invariant *)

LEMMA InitPersist == Init => PersistInv
<1> SUFFICES ASSUME Init  PROVE PersistInv
  OBVIOUS
<1>1. TypeOK
  <2>1. Erased \in FlashWords
    BY DEF FlashWords
  <2>2. flash \in [Pages -> [Offsets -> FlashWords]]
    BY <2>1 DEF Init
  <2>3. ram \in [Regions -> Blobs] /\ saving = None /\ version \in Versions
    BY ConstantsAssumption DEF Init
  <2>4. kept \in [Regions -> Saved \union {None}] /\ tried \in [Regions -> SUBSET Saved]
    BY DEF Init
  <2> QED  BY <2>2, <2>3, <2>4 DEF TypeOK
<1>2. SaveInOrder
  BY DEF Init, SaveInOrder
<1>3. HeaderIsOfOneSave
  <2> SUFFICES ASSUME NEW r \in Regions  PROVE HeaderOf(flash[BasePage(r)], tried[r])
    BY DEF HeaderIsOfOneSave
  <2>1. flash[BasePage(r)][1] = Erased
    BY RegionsAre DEF Init, Offsets
  <2> QED  BY <2>1, WordsAre DEF HeaderOf
<1>4. KeptIsThere
  BY DEF Init, KeptIsThere
<1> QED  BY <1>1, <1>2, <1>3, <1>4 DEF PersistInv

(* A region of which no save is under way, in a flash that a step left.    *)
LEMMA OthersKept ==
  ASSUME PersistInv, flash' \in Torn, kept' = kept,
         NEW r \in Regions, kept[r] # None
  PROVE  Content(r)' = kept'[r]
<1>1. saving # None => r # saving.region
  BY DEF PersistInv, SaveInOrder
<1>2. flash'[BasePage(r)] = flash[BasePage(r)]
  BY <1>1, TornIs
<1>3. Content(r)' = Content(r)
  BY <1>2, ContentIs
<1> QED  BY <1>3 DEF PersistInv, KeptIsThere

LEMMA EraseKeeps ==
  ASSUME PersistInv, ErasePage
  PROVE  PersistInv'
<1> DEFINE r0 == saving.region
           b == BasePage(r0)
           p == PageToErase
<1>1. /\ saving # None /\ saving.step <= NumPages(r0) /\ saving' = [saving EXCEPT !.step = @ + 1]
      /\ flash' = [flash EXCEPT ![p] = [o \in Offsets |-> Erased]]
      /\ UNCHANGED <<ram, version, kept, tried>>
  BY DEF ErasePage, Erases, Idle, Advance
<1>2. flash' \in Torn
  BY WholeIsTorn
<1>3. /\ flash' \in [Pages -> [Offsets -> FlashWords]]
      /\ \A r \in Regions : HeaderOf(flash'[BasePage(r)], tried[r])
  BY <1>2, TornIs
<1>4. /\ r0 \in Regions /\ saving.saved \in Saved /\ saving.step \in 1 .. 7 /\ NumPages(r0) \in {1, 2}
      /\ saving \in [region : Regions, saved : Saved, step : 1 .. 7]
      /\ b \in Pages /\ p \in Pages
  <2>1. /\ r0 \in Regions /\ saving.saved \in Saved /\ saving.step \in 1 .. 7 /\ NumPages(r0) \in {1, 2}
        /\ saving \in [region : Regions, saved : Saved, step : 1 .. 7]
    BY <1>1, SavingIs
  <2>2. saving.step \in 1 .. NumPages(r0)
    BY <1>1, <2>1
  <2> QED  BY <2>1, <2>2, RegionsAre DEF PageToErase
<1>5. /\ saving'.region = r0 /\ saving'.saved = saving.saved /\ saving'.step = saving.step + 1
      /\ saving' \in [region : Regions, saved : Saved, step : 1 .. 7]
  <2>1. saving.step + 1 \in 1 .. 7
    BY <1>1, <1>4
  <2> QED  BY <1>1, <1>4, <2>1
<1>6. TypeOK'
  BY <1>1, <1>3, <1>5 DEF PersistInv, TypeOK
<1>7. SaveInOrder'
  <2>1. saving'.saved \in tried'[saving'.region] /\ kept'[saving'.region] = None
    BY <1>1, <1>5 DEF PersistInv, SaveInOrder
  <2>2. Offset' = saving.step + 1 - NumPages(r0)
    BY <1>4, <1>5 DEF Offset
  <2>3. \A o \in Offsets : flash'[b][o] = Erased
    <3>1. CASE saving.step = 1
      <4>1. p = b
        BY <1>4, <3>1 DEF PageToErase, Pages
      <4> QED  BY <1>1, <1>4, <4>1 DEF PersistInv, TypeOK
    <3>2. CASE saving.step > 1
      <4>1. p # b
        BY <1>4, <3>2 DEF PageToErase, Pages
      <4>2. flash'[b] = flash[b]
        BY <1>1, <1>4, <4>1 DEF PersistInv, TypeOK
      <4>3. Offset <= 0
        BY <1>1, <1>4 DEF Offset
      <4>4. \A o \in Offsets : ~(o < Offset)
        BY <1>1, <4>3, SavingIs DEF Offsets
      <4> QED  BY <1>1, <3>2, <4>2, <4>4 DEF PersistInv, SaveInOrder
    <3> QED  BY <1>4, <3>1, <3>2
  <2>4. Offset' <= 1 /\ Offset' \in Int
    BY <1>1, <1>4, <2>2
  <2>5. \A o \in Offsets : ~(o < Offset')
    BY <2>4 DEF Offsets
  <2>6. BasePage(saving.region)' = b
    BY <1>5 DEF BasePage
  <2> QED  BY <2>1, <2>3, <2>4, <2>5, <2>6 DEF SaveInOrder
<1>8. HeaderIsOfOneSave'
  <2>1. \A r \in Regions : BasePage(r)' = BasePage(r)
    BY DEF BasePage
  <2> QED  BY <1>1, <1>3 DEF HeaderIsOfOneSave, HeaderOf
<1>9. KeptIsThere'
  BY <1>1, <1>2, OthersKept DEF KeptIsThere
<1> QED  BY <1>6, <1>7, <1>8, <1>9 DEF PersistInv

LEMMA ProgramKeeps ==
  ASSUME PersistInv, ProgramWord
  PROVE  PersistInv'
<1> DEFINE r0 == saving.region
           b == BasePage(r0)
           n == Offset
           s == saving.saved
<1>1. /\ saving # None /\ n \in Offsets /\ saving' = [saving EXCEPT !.step = @ + 1]
      /\ flash' = [flash EXCEPT ![b][n] = Word]
      /\ UNCHANGED <<ram, version, kept, tried>>
  BY DEF ProgramWord, Programs, Idle, Advance
<1>2. flash' \in Torn
  BY WholeIsTorn
<1>3. /\ flash' \in [Pages -> [Offsets -> FlashWords]]
      /\ \A r \in Regions : HeaderOf(flash'[BasePage(r)], tried[r])
  BY <1>2, TornIs
<1>4. /\ r0 \in Regions /\ s \in Saved /\ saving.step \in 1 .. 7 /\ NumPages(r0) \in {1, 2}
      /\ saving \in [region : Regions, saved : Saved, step : 1 .. 7]
      /\ b \in Pages /\ n = saving.step - NumPages(r0)
  BY <1>1, SavingIs, RegionsAre
<1>5. n \in 1 .. 4 /\ saving.step + 1 \in 1 .. 7 /\ saving.step > 1
  BY <1>1, <1>4 DEF Offsets
<1>6. /\ saving'.region = r0 /\ saving'.saved = s /\ saving'.step = saving.step + 1
      /\ saving' \in [region : Regions, saved : Saved, step : 1 .. 7]
  BY <1>1, <1>4, <1>5
<1>7. TypeOK'
  BY <1>1, <1>3, <1>6 DEF PersistInv, TypeOK
<1>8. SaveInOrder'
  <2>1. saving'.saved \in tried'[saving'.region] /\ kept'[saving'.region] = None
    BY <1>1, <1>6 DEF PersistInv, SaveInOrder
  <2>2. Offset' = n + 1
    <3>1. Offset' = saving.step + 1 - NumPages(r0)
      BY <1>4, <1>6 DEF Offset
    <3>2. NumPages(r0) \in Int /\ saving.step \in Int
      BY <1>4
    <3> QED  BY <1>4, <3>1, <3>2
  <2>3. \A o \in Offsets : flash[b][o] = IF o < n THEN Image(s)[o] ELSE Erased
    BY <1>1, <1>5 DEF PersistInv, SaveInOrder
  <2>4. \A o \in Offsets : flash'[b][o] = IF o = n THEN Image(s)[n] ELSE flash[b][o]
    <3>1. flash \in [Pages -> [Offsets -> FlashWords]]
      BY DEF PersistInv, TypeOK
    <3> HIDE DEF b, n, s
    <3>2. Word = Image(s)[n]
      BY DEF Word, s, n
    <3> QED  BY <1>1, <1>4, <3>1, <3>2
  <2> HIDE DEF b, n, s
  <2>5. \A o \in Offsets : flash'[b][o] = IF o < n + 1 THEN Image(s)[o] ELSE Erased
    BY <1>5, <2>3, <2>4 DEF Offsets
  <2>6. BasePage(saving.region)' = b /\ Image(saving.saved)' = Image(s)
    BY <1>6 DEF BasePage, Image, Magic, Crc, b, s
  <2>7. n + 1 <= 5
    BY <1>5
  <2>8. \A o \in Offsets : flash'[BasePage(saving.region)'][o] =
                             IF o < Offset' THEN Image(saving.saved)'[o] ELSE Erased
    BY <2>2, <2>5, <2>6
  <2> QED  BY <2>1, <2>2, <2>7, <2>8 DEF SaveInOrder
<1>9. HeaderIsOfOneSave'
  BY <1>1, <1>3 DEF HeaderIsOfOneSave, HeaderOf
<1>10. KeptIsThere'
  BY <1>1, <1>2, OthersKept DEF KeptIsThere
<1> QED  BY <1>7, <1>8, <1>9, <1>10 DEF PersistInv

LEMMA SucceedKeeps ==
  ASSUME PersistInv, SaveSucceeds
  PROVE  /\ PersistInv' /\ saving # None /\ Content(saving.region) = saving.saved
<1> DEFINE r0 == saving.region
           s == saving.saved
<1>1. /\ saving # None /\ Offset > 4 /\ saving' = None
      /\ kept' = [kept EXCEPT ![r0] = s] /\ tried' = [tried EXCEPT ![r0] = {s}]
      /\ UNCHANGED <<flash, ram, version>>
  BY DEF SaveSucceeds, Idle
<1>2. r0 \in Regions /\ s \in Saved /\ Offset \in Int /\ saving.step > 1
  BY <1>1, SavingIs
<1>3. \A o \in Offsets : flash[BasePage(r0)][o] = Image(s)[o]
  <2>1. \A o \in Offsets : o < Offset
    BY <1>1, <1>2 DEF Offsets
  <2> QED  BY <1>1, <1>2, <2>1 DEF PersistInv, SaveInOrder
<1>4. Content(r0) = s
  BY <1>2, <1>3, FoundIsSaved, ContentIs
<1> HIDE DEF r0, s
<1>5. TypeOK'
  <2>1. kept' \in [Regions -> Saved \union {None}] /\ tried' \in [Regions -> SUBSET Saved]
    BY <1>1, <1>2 DEF PersistInv, TypeOK
  <2> QED  BY <1>1, <2>1 DEF PersistInv, TypeOK
<1>6. SaveInOrder'
  BY <1>1 DEF SaveInOrder
<1>7. /\ \A r \in Regions : kept'[r] = IF r = r0 THEN s ELSE kept[r]
      /\ \A r \in Regions : tried'[r] = IF r = r0 THEN {s} ELSE tried[r]
  BY <1>1, <1>2 DEF PersistInv, TypeOK
<1>8. HeaderIsOfOneSave'
  <2> SUFFICES ASSUME NEW r \in Regions  PROVE HeaderOf(flash[BasePage(r)], tried'[r])
    BY <1>1 DEF HeaderIsOfOneSave, HeaderOf
  <2>1. CASE r = r0
    <3> DEFINE page == flash[BasePage(r)]
    <3>1. page[1] = Magic(s.version) /\ page[2] = Crc(s.blob)
      BY <1>3, <2>1 DEF Offsets, Image
    <3>2. page[1][2] = s.version
      BY <3>1, WordsAre
    <3> HIDE DEF page
    <3>3. page[2] \in {Crc(x.blob) : x \in {x \in {s} : x.version = page[1][2]}}
      BY <3>1, <3>2
    <3>4. HeaderOf(page, {s})
      BY <3>3 DEF HeaderOf
    <3> QED  BY <1>7, <2>1, <3>4 DEF page
  <2>2. CASE r # r0
    BY <1>7, <2>2 DEF PersistInv, HeaderIsOfOneSave
  <2> QED  BY <2>1, <2>2
<1>9. KeptIsThere'
  <2> SUFFICES ASSUME NEW r \in Regions, kept'[r] # None  PROVE Content(r)' = kept'[r]
    BY DEF KeptIsThere
  <2>1. Content(r)' = Content(r)
    BY <1>1, ContentIs
  <2> QED  BY <1>4, <1>7, <2>1 DEF PersistInv, KeptIsThere
<1>10. saving # None /\ Content(saving.region) = saving.saved
  BY <1>1, <1>4 DEF r0, s
<1> QED  BY <1>5, <1>6, <1>8, <1>9, <1>10 DEF PersistInv

(* What the users of the regions load from what a reset leaves.            *)
LEMMA LoadIs ==
  ASSUME PersistInv, flash' \in Torn, tried' = tried, NEW r \in Regions, NEW v \in Versions
  PROVE  /\ Load(r, v)' = IF Content(r)' # None /\ Content(r)'.version = v
                          THEN Content(r)'.blob ELSE Default
         /\ Load(r, v)' \in Blobs
<1> DEFINE page == flash'[BasePage(r)]
<1>1. tried[r] \in SUBSET Saved
  BY DEF PersistInv, TypeOK
<1>2. HeaderOf(page, tried[r])
  BY TornIs
<1>3. Found(page) \in {None} \union Saved
  BY <1>1, <1>2, FoundIsTried
<1>4. Content(r)' = Found(page)
  BY ContentIs
<1>5. Load(r, v)' = IF /\ (\E w \in Versions : page[1] = Magic(w))
                       /\ page[2] = Crc(<<page[3], page[4]>>) /\ page[1][2] = v
                    THEN <<page[3], page[4]>> ELSE Default
  BY DEF Load, Valid, HasMagic, CrcMatches, Payload, VersionMatches, VersionOf
<1> HIDE DEF page
<1>6. CASE (\E w \in Versions : page[1] = Magic(w)) /\ page[2] = Crc(<<page[3], page[4]>>)
  <2>1. Found(page) = [blob |-> <<page[3], page[4]>>, version |-> page[1][2]]
    BY <1>6 DEF Found
  <2>2. Found(page) # None /\ Found(page) \in Saved
    <3>1. \A b, w : [blob |-> b, version |-> w] # None
      BY DEF None
    <3> QED  BY <1>3, <2>1, <3>1
  <2>3. Found(page).blob = <<page[3], page[4]>> /\ Found(page).version = page[1][2]
    BY <2>1
  <2>4. Found(page).blob \in Blobs
    BY <2>2, SavedIs
  <2> QED  BY <1>4, <1>5, <1>6, <2>2, <2>3, <2>4, ConstantsAssumption
<1>7. CASE ~((\E w \in Versions : page[1] = Magic(w)) /\ page[2] = Crc(<<page[3], page[4]>>))
  <2>1. Found(page) = None
    BY <1>7, Zenon DEF Found
  <2>2. Load(r, v)' = Default
    BY <1>5, <1>7
  <2> QED  BY <1>4, <2>1, <2>2, ConstantsAssumption
<1> QED  BY <1>6, <1>7

(* A reset or an error of the flash ends the step and the save.            *)
LEMMA TornKeeps ==
  ASSUME PersistInv, flash' \in Torn, saving' = None, UNCHANGED <<kept, tried>>,
         ram' \in [Regions -> Blobs], version' \in Versions
  PROVE  PersistInv'
<1>1. TypeOK'
  BY TornIs DEF PersistInv, TypeOK
<1>2. SaveInOrder'
  BY DEF SaveInOrder
<1>3. HeaderIsOfOneSave'
  BY TornIs DEF HeaderIsOfOneSave, HeaderOf
<1>4. KeptIsThere'
  BY OthersKept DEF KeptIsThere
<1> QED  BY <1>1, <1>2, <1>3, <1>4 DEF PersistInv

LEMMA FailsKeeps ==
  ASSUME PersistInv, FlashFails
  PROVE  PersistInv'
<1>1. flash' \in Torn /\ saving' = None /\ UNCHANGED <<ram, version, kept, tried>>
  BY DEF FlashFails
<1> QED  BY <1>1, TornKeeps DEF PersistInv, TypeOK

LEMMA ResetKeeps ==
  ASSUME PersistInv, NEW v \in Versions, Reset(v)
  PROVE  PersistInv'
<1>1. /\ flash' \in Torn /\ saving' = None /\ version' = v
      /\ ram' = [r \in Regions |-> Load(r, v)'] /\ UNCHANGED <<kept, tried>>
  BY DEF Reset
<1>2. ram' \in [Regions -> Blobs]
  BY <1>1, LoadIs
<1> QED  BY <1>1, <1>2, TornKeeps

LEMMA EditKeeps ==
  ASSUME PersistInv, NEW r \in Regions, NEW blob \in Blobs, Edit(r, blob)
  PROVE  PersistInv'
<1>1. ram' = [ram EXCEPT ![r] = blob] /\ UNCHANGED <<flash, saving, version, kept, tried>>
  BY DEF Edit
<1>2. TypeOK'
  BY <1>1 DEF PersistInv, TypeOK
<1>3. SaveInOrder'
  BY <1>1 DEF PersistInv, SaveInOrder, Offset, Image, Magic, Crc, BasePage, NumPages
<1>4. HeaderIsOfOneSave'
  BY <1>1 DEF PersistInv, HeaderIsOfOneSave, HeaderOf
<1>5. KeptIsThere'
  BY <1>1, ContentIs DEF PersistInv, KeptIsThere
<1> QED  BY <1>2, <1>3, <1>4, <1>5 DEF PersistInv

(* A header stays of one save when another save is begun.                  *)
LEMMA MoreTried ==
  ASSUME NEW page, NEW T, NEW U, T \subseteq U, HeaderOf(page, T)
  PROVE  HeaderOf(page, U)
  BY DEF HeaderOf

LEMMA StartKeeps ==
  ASSUME PersistInv, NEW r \in Regions, NEW blob \in Blobs, Starts(r, blob),
         UNCHANGED <<flash, version>>, ram' \in [Regions -> Blobs]
  PROVE  PersistInv'
<1> DEFINE s == [blob |-> blob, version |-> version]
<1>1. /\ saving = None /\ saving' = [region |-> r, saved |-> s, step |-> 1]
      /\ kept' = [kept EXCEPT ![r] = None]
      /\ tried' = [tried EXCEPT ![r] = @ \union {s}]
  BY DEF Starts, Idle
<1>2. s \in Saved
  BY DEF Saved, PersistInv, TypeOK
<1> HIDE DEF s
<1>3. saving'.region = r /\ saving'.saved = s /\ saving'.step = 1
  BY <1>1
<1>4. /\ \A q \in Regions : kept'[q] = IF q = r THEN None ELSE kept[q]
      /\ \A q \in Regions : tried'[q] = IF q = r THEN tried[r] \union {s} ELSE tried[q]
  BY <1>1 DEF PersistInv, TypeOK
<1>5. TypeOK'
  <2>1. saving' \in [region : Regions, saved : Saved, step : 1 .. 7]
    BY <1>1, <1>2
  <2>2. kept' \in [Regions -> Saved \union {None}] /\ tried' \in [Regions -> SUBSET Saved]
    BY <1>1, <1>2 DEF PersistInv, TypeOK
  <2> QED  BY <2>1, <2>2 DEF PersistInv, TypeOK
<1>6. SaveInOrder'
  <2>1. Offset' <= 5
    <3>1. Offset' = 1 - NumPages(r)
      BY <1>3 DEF Offset
    <3> QED  BY <3>1, RegionsAre
  <2>2. ~(saving'.step > 1)
    BY <1>3
  <2> QED  BY <1>3, <1>4, <2>1, <2>2 DEF SaveInOrder
<1>7. HeaderIsOfOneSave'
  <2> SUFFICES ASSUME NEW q \in Regions  PROVE HeaderOf(flash[BasePage(q)], tried'[q])
    BY DEF HeaderIsOfOneSave, HeaderOf
  <2>1. tried[q] \subseteq tried'[q]
    BY <1>4
  <2> QED  BY <2>1, MoreTried DEF PersistInv, HeaderIsOfOneSave
<1>8. KeptIsThere'
  BY <1>4, ContentIs DEF PersistInv, KeptIsThere
<1> QED  BY <1>5, <1>6, <1>7, <1>8 DEF PersistInv

LEMMA SaveRegionKeeps ==
  ASSUME PersistInv, NEW r \in Regions, SaveRegion(r)
  PROVE  PersistInv'
<1>1. Starts(r, ram[r]) /\ UNCHANGED <<flash, ram, version>>
  BY DEF SaveRegion
<1>2. ram \in [Regions -> Blobs]
  BY DEF PersistInv, TypeOK
<1> QED  BY <1>1, <1>2, StartKeeps

LEMMA StoreShotKeeps ==
  ASSUME PersistInv, NEW blob \in Blobs, StoreShot(blob)
  PROVE  PersistInv'
<1>1. /\ Starts("SHOTS", blob) /\ UNCHANGED <<flash, version>>
      /\ ram' = [ram EXCEPT !["SHOTS"] = blob]
  BY DEF StoreShot
<1>2. ram' \in [Regions -> Blobs]
  BY <1>1 DEF PersistInv, TypeOK
<1>3. "SHOTS" \in Regions
  BY DEF Regions
<1> QED  BY <1>1, <1>2, <1>3, StartKeeps

LEMMA StutterKeeps ==
  ASSUME PersistInv, UNCHANGED vars
  PROVE  PersistInv'
<1>1. UNCHANGED <<flash, saving, ram, version, kept, tried>>
  BY DEF vars
<1>2. TypeOK'
  BY <1>1 DEF PersistInv, TypeOK
<1>3. SaveInOrder'
  BY <1>1 DEF PersistInv, SaveInOrder, Offset, Image, Magic, Crc, BasePage, NumPages
<1>4. HeaderIsOfOneSave'
  BY <1>1 DEF PersistInv, HeaderIsOfOneSave, HeaderOf
<1>5. KeptIsThere'
  BY <1>1, ContentIs DEF PersistInv, KeptIsThere
<1> QED  BY <1>2, <1>3, <1>4, <1>5 DEF PersistInv

LEMMA NextPersist == PersistInv /\ [Next]_vars => PersistInv'
<1> SUFFICES ASSUME PersistInv, [Next]_vars  PROVE PersistInv'
  OBVIOUS
<1>1. CASE ErasePage
  BY <1>1, EraseKeeps
<1>2. CASE ProgramWord
  BY <1>2, ProgramKeeps
<1>3. CASE SaveSucceeds
  BY <1>3, SucceedKeeps
<1>4. CASE FlashFails
  BY <1>4, FailsKeeps
<1>5. ASSUME NEW r \in Regions, SaveRegion(r)  PROVE PersistInv'
  BY <1>5, SaveRegionKeeps
<1>6. ASSUME NEW r \in Regions, NEW blob \in Blobs, Edit(r, blob)  PROVE PersistInv'
  BY <1>6, EditKeeps
<1>7. ASSUME NEW blob \in Blobs, StoreShot(blob)  PROVE PersistInv'
  BY <1>7, StoreShotKeeps
<1>8. ASSUME NEW v \in Versions, Reset(v)  PROVE PersistInv'
  BY <1>8, ResetKeeps
<1>9. CASE UNCHANGED vars
  BY <1>9, StutterKeeps
<1> QED  BY <1>1, <1>2, <1>3, <1>4, <1>5, <1>6, <1>7, <1>8, <1>9 DEF Next, SaveSteps

-----------------------------------------------------------------------------
(* Theorems *)

(* Words of a save and pages of a region are in order at every moment, a   *)
(* header and its CRC are of one save that was begun, and what the last    *)
(* save left is what a load of its region would find: persist_save and     *)
(* persist_load (persist.c), whatever resets and flash errors cut short.   *)
THEOREM PersistCorrect == Spec => []PersistInv
<1>1. Init => PersistInv
  BY InitPersist
<1>2. PersistInv /\ [Next]_vars => PersistInv'
  BY NextPersist
<1> QED  BY <1>1, <1>2, PTL DEF Spec

(* What a save reported as done left is what the next boot finds, however  *)
(* many saves of other regions, cut short or not, came between.            *)
THEOREM SavedBlobsSurvive == Spec => SavedSurvives
<1> DEFINE Survives ==
      \A r \in Regions :
        \A v \in Versions : Reset(v) /\ kept[r] # None
          => ram'[r] = IF kept[r].version = v THEN kept[r].blob ELSE Default
<1>1. PersistInv /\ [Next]_vars => [Survives]_vars
  <2> SUFFICES ASSUME PersistInv, NEW r \in Regions, NEW v \in Versions, Reset(v), kept[r] # None
               PROVE  ram'[r] = IF kept[r].version = v THEN kept[r].blob ELSE Default
    OBVIOUS
  <2>1. /\ flash' \in Torn /\ ram' = [q \in Regions |-> Load(q, v)'] /\ kept' = kept /\ tried' = tried
    BY DEF Reset
  <2>2. ram'[r] = Load(r, v)'
    BY <2>1
  <2>3. Content(r)' = kept[r]
    BY <2>1, OthersKept
  <2>4. Load(r, v)' = IF Content(r)' # None /\ Content(r)'.version = v
                      THEN Content(r)'.blob ELSE Default
    BY <2>1, LoadIs
  <2> QED  BY <2>2, <2>3, <2>4
<1>2. Spec => []PersistInv
  BY PersistCorrect
<1>3. Spec => [][Next]_vars
  BY PTL DEF Spec
<1> QED  BY <1>1, <1>2, <1>3, PTL DEF SavedSurvives

-----------------------------------------------------------------------------
(* The blob store *)

Shows == [r \in Regions |-> Content(r)]

Writes == IF Idle THEN None ELSE [region |-> saving.region, saved |-> saving.saved]

(* Of the flash, a step shows at most another save in the region under way. *)
LEMMA TornShows ==
  ASSUME PersistInv, flash' \in Torn, UNCHANGED tried
  PROVE  /\ saving = None => Shows' = Shows
         /\ saving # None =>
              \E s \in {None} \union tried[saving.region] :
                Shows' = [Shows EXCEPT ![saving.region] = s]
<1>1. \A r \in Regions : saving = None \/ r # saving.region => Content(r)' = Content(r)
  BY TornIs, ContentIs
<1>2. CASE saving = None
  BY <1>1, <1>2 DEF Shows
<1>3. CASE saving # None
  <2>1. PICK r0 \in Regions : r0 = saving.region
    BY <1>3, SavingIs
  <2>2. tried[r0] \in SUBSET Saved
    BY DEF PersistInv, TypeOK
  <2>3. PICK s \in {None} \union tried[r0] : s = Content(r0)'
    <3>1. HeaderOf(flash'[BasePage(r0)], tried[r0])
      BY TornIs
    <3>2. Found(flash'[BasePage(r0)]) \in {None} \union tried[r0]
      BY <2>2, <3>1, FoundIsTried
    <3> QED  BY <3>2, ContentIs
  <2>4. \A r \in Regions : Content(r)' = IF r = r0 THEN s ELSE Content(r)
    BY <1>1, <1>3, <2>1, <2>3
  <2>5. Shows' = [Shows EXCEPT ![r0] = s]
    BY <2>4 DEF Shows
  <2> QED  BY <1>3, <2>1, <2>3, <2>5
<1> QED  BY <1>2, <1>3

(* The blob store changes as the region's user promises.                   *)
LEMMA WorkImplements ==
  ASSUME PersistInv, ErasePage \/ ProgramWord
  PROVE  Store!Work
<1>1. saving # None /\ UNCHANGED <<kept, tried>> /\ Writes' = Writes
  <2>1. saving # None /\ saving' = [saving EXCEPT !.step = @ + 1] /\ UNCHANGED <<kept, tried>>
    BY DEF ErasePage, Erases, ProgramWord, Programs, Idle, Advance
  <2>2. /\ saving' \in [region : Regions, saved : Saved, step : {saving.step + 1}]
        /\ saving'.region = saving.region /\ saving'.saved = saving.saved
    BY <2>1, SavingIs
  <2>3. saving' # None
    <3>1. \A r, s, n : [region |-> r, saved |-> s, step |-> n] # None
      BY DEF None
    <3> QED  BY <2>2, <3>1
  <2> QED  BY <2>1, <2>2, <2>3 DEF Writes, Idle
<1>2. \E s \in {None} \union tried[saving.region] : Shows' = [Shows EXCEPT ![saving.region] = s]
  BY <1>1, WholeIsTorn, TornShows
<1>3. Writes # None /\ Writes.region = saving.region
  <2>1. \A r, s : [region |-> r, saved |-> s] # None
    BY DEF None
  <2> QED  BY <1>1, <2>1 DEF Writes, Idle
<1> QED  BY <1>1, <1>2, <1>3 DEF Store!Work, Store!Shown, Shows, Writes

LEMMA CutImplements ==
  ASSUME PersistInv, flash' \in Torn, saving' = None, UNCHANGED <<kept, tried>>
  PROVE  Store!CutShort \/ UNCHANGED Store!vars
<1>1. Writes' = None
  BY DEF Writes, Idle
<1>2. CASE saving = None
  <2>1. Shows' = Shows /\ Writes' = Writes
    BY <1>1, <1>2, TornShows DEF Writes, Idle
  <2> QED  BY <2>1 DEF Store!vars, Shows, Writes
<1>3. CASE saving # None
  <2>1. \E s \in {None} \union tried[saving.region] : Shows' = [Shows EXCEPT ![saving.region] = s]
    BY <1>3, TornShows
  <2>2. Writes # None /\ Writes.region = saving.region
    <3>1. \A r, s : [region |-> r, saved |-> s] # None
      BY DEF None
    <3> QED  BY <1>3, <3>1 DEF Writes, Idle
  <2> QED  BY <1>1, <2>1, <2>2 DEF Store!CutShort, Store!Shown, Shows, Writes
<1> QED  BY <1>2, <1>3

LEMMA SucceedImplements ==
  ASSUME PersistInv, SaveSucceeds
  PROVE  Store!Succeed
<1>1. saving # None /\ Content(saving.region) = saving.saved /\ saving.region \in Regions
  BY SucceedKeeps, SavingIs
<1>2. /\ saving' = None /\ UNCHANGED flash
      /\ kept' = [kept EXCEPT ![saving.region] = saving.saved]
      /\ tried' = [tried EXCEPT ![saving.region] = {saving.saved}]
  BY DEF SaveSucceeds
<1>3. Writes # None /\ Writes.region = saving.region /\ Writes.saved = saving.saved /\ Writes' = None
  <2>1. \A r, s : [region |-> r, saved |-> s] # None
    BY DEF None
  <2> QED  BY <1>1, <1>2, <2>1 DEF Writes, Idle
<1>4. Shows' = Shows /\ Shows[saving.region] = saving.saved
  BY <1>1, <1>2, ContentIs DEF Shows
<1> QED  BY <1>2, <1>3, <1>4 DEF Store!Succeed, Shows, Writes

LEMMA BeginImplements ==
  ASSUME PersistInv, NEW r \in Regions, NEW blob \in Blobs, Starts(r, blob), UNCHANGED flash
  PROVE  \E s \in Store!Saved : Store!Begin(r, s)
<1> DEFINE s == [blob |-> blob, version |-> version]
<1>1. /\ saving = None /\ saving' = [region |-> r, saved |-> s, step |-> 1]
      /\ kept' = [kept EXCEPT ![r] = None]
      /\ tried' = [tried EXCEPT ![r] = @ \union {s}]
  BY DEF Starts, Idle
<1>2. s \in Store!Saved
  BY DEF Store!Saved, PersistInv, TypeOK
<1> HIDE DEF s
<1>3. Writes = None /\ Writes' = [region |-> r, saved |-> s]
  <2>1. \A x, y, n : [region |-> x, saved |-> y, step |-> n] # None
    BY DEF None
  <2> QED  BY <1>1, <2>1 DEF Writes, Idle
<1>4. Shows' = Shows
  BY ContentIs DEF Shows
<1>5. Store!Begin(r, s)
  BY <1>1, <1>3, <1>4 DEF Store!Begin, Shows, Writes
<1> QED  BY <1>2, <1>5

LEMMA StoreStutters ==
  ASSUME UNCHANGED <<flash, saving, kept, tried>>
  PROVE  UNCHANGED Store!vars
<1>1. Shows' = Shows
  BY ContentIs DEF Shows
<1>2. Writes' = Writes
  BY DEF Writes, Idle
<1> QED  BY <1>1, <1>2 DEF Store!vars, Shows, Writes

(* No region ever shows a mixture of two blobs, or a blob no save of it    *)
(* tried since the last that was done (persist.h).                         *)
THEOREM PersistImplementsBlobStore == Spec => ImplementsBlobStore
<1>1. Init => Store!Init
  <2> SUFFICES ASSUME Init  PROVE Store!Init
    OBVIOUS
  <2>1. \A r \in Regions : Content(r) = None
    <3> SUFFICES ASSUME NEW r \in Regions  PROVE Content(r) = None
      OBVIOUS
    <3>1. flash[BasePage(r)][1] = Erased
      BY RegionsAre DEF Init, Offsets
    <3>2. ~(\E v \in Versions : flash[BasePage(r)][1] = Magic(v))
      BY <3>1, WordsAre
    <3>3. Found(flash[BasePage(r)]) = None
      BY <3>2, Zenon DEF Found
    <3> QED  BY <3>3, ContentIs
  <2>2. Writes = None
    BY DEF Init, Writes, Idle
  <2> QED  BY <2>1, <2>2 DEF Init, Store!Init, Writes
<1>2. PersistInv /\ [Next]_vars => [Store!Next]_(Store!vars)
  <2> SUFFICES ASSUME PersistInv, [Next]_vars  PROVE Store!Next \/ UNCHANGED Store!vars
    OBVIOUS
  <2>1. CASE ErasePage \/ ProgramWord
    BY <2>1, WorkImplements DEF Store!Next
  <2>2. CASE SaveSucceeds
    BY <2>2, SucceedImplements DEF Store!Next
  <2>3. CASE FlashFails
    <3>1. flash' \in Torn /\ saving' = None /\ UNCHANGED <<kept, tried>>
      BY <2>3 DEF FlashFails
    <3> QED  BY <3>1, CutImplements DEF Store!Next
  <2>4. ASSUME NEW v \in Versions, Reset(v)  PROVE Store!Next \/ UNCHANGED Store!vars
    <3>1. flash' \in Torn /\ saving' = None /\ UNCHANGED <<kept, tried>>
      BY <2>4 DEF Reset
    <3> QED  BY <3>1, CutImplements DEF Store!Next
  <2>5. ASSUME NEW r \in Regions, SaveRegion(r)  PROVE Store!Next
    <3>1. Starts(r, ram[r]) /\ UNCHANGED flash /\ ram[r] \in Blobs
      BY <2>5 DEF SaveRegion, PersistInv, TypeOK
    <3>2. \E s \in Store!Saved : Store!Begin(r, s)
      BY <3>1, BeginImplements
    <3> QED  BY <3>2 DEF Store!Next
  <2>6. ASSUME NEW blob \in Blobs, StoreShot(blob)  PROVE Store!Next
    <3>1. Starts("SHOTS", blob) /\ UNCHANGED flash /\ "SHOTS" \in Regions
      BY <2>6 DEF StoreShot, Regions
    <3>2. \E s \in Store!Saved : Store!Begin("SHOTS", s)
      BY <3>1, BeginImplements
    <3> QED  BY <3>1, <3>2 DEF Store!Next
  <2>7. ASSUME NEW r \in Regions, NEW blob \in Blobs, Edit(r, blob)  PROVE UNCHANGED Store!vars
    <3>1. UNCHANGED <<flash, saving, kept, tried>>
      BY <2>7 DEF Edit
    <3> QED  BY <3>1, StoreStutters
  <2>8. CASE UNCHANGED vars
    <3>1. UNCHANGED <<flash, saving, kept, tried>>
      BY <2>8 DEF vars
    <3> QED  BY <3>1, StoreStutters
  <2> QED  BY <2>1, <2>2, <2>3, <2>4, <2>5, <2>6, <2>7, <2>8 DEF Next, SaveSteps
<1>3. Spec => []PersistInv
  BY PersistCorrect
<1> QED  BY <1>1, <1>2, <1>3, PTL DEF Spec, ImplementsBlobStore, Store!Spec

=============================================================================
