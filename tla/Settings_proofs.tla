-------------------------- MODULE Settings_proofs --------------------------
(***************************************************************************)
(* The settings for any number of displays of any size, over any number of *)
(* starts of the app on any of them; the tables are those of the source.   *)
(***************************************************************************)
EXTENDS Settings, TLAPS

Resolution == (Nat \ {0}) \X (Nat \ {0})

\* A display offers up to three resolutions, each once.
LEMMA AvailResType ==
  ASSUME NEW s \in Screens
  PROVE  /\ DOMAIN AvailRes(s) \in {1 .. 1, 1 .. 2, 1 .. 3}
         /\ DOMAIN AvailRes(s) = 1 .. Len(AvailRes(s))
         /\ \A i \in DOMAIN AvailRes(s) : AvailRes(s)[i] \in Resolution
         /\ \A i, j \in DOMAIN AvailRes(s) : AvailRes(s)[i] = AvailRes(s)[j] => i = j
<1>1. s \in Resolution /\ s[1] \in Nat \ {0} /\ s[2] \in Nat \ {0}
  BY SettingsAssumption DEF Resolution
<1>2. <<1080, 1920>> \in Resolution /\ <<720, 1280>> \in Resolution /\ <<1080, 1920>> # <<720, 1280>>
  BY DEF Resolution
<1>3. CASE s[1] > 1080 /\ s[2] > 1920
  <2>1. AvailRes(s) = <<s, <<1080, 1920>>, <<720, 1280>>>>
    BY <1>3 DEF AvailRes
  <2>2. s # <<1080, 1920>> /\ s # <<720, 1280>>
    BY <1>1, <1>3
  <2> QED
    BY <1>1, <1>2, <2>1, <2>2
<1>4. CASE ~(s[1] > 1080 /\ s[2] > 1920) /\ s[1] > 720 /\ s[2] > 1280
  <2>1. AvailRes(s) = <<s, <<720, 1280>>>>
    BY <1>4 DEF AvailRes
  <2>2. s # <<720, 1280>>
    BY <1>1, <1>4
  <2> QED
    BY <1>1, <1>2, <2>1, <2>2
<1>5. CASE ~(s[1] > 1080 /\ s[2] > 1920) /\ ~(s[1] > 720 /\ s[2] > 1280)
  <2>1. AvailRes(s) = <<s>>
    BY <1>5 DEF AvailRes
  <2> QED
    BY <1>1, <2>1
<1> QED
  BY <1>3, <1>4, <1>5

\* A saved resolution is found again where it is offered; any other one
\* stands for the first.
LEMMA PlaceOfIs ==
  ASSUME NEW s \in Screens, NEW value
  PROVE  /\ PlaceOf(value, AvailRes(s)) \in DOMAIN AvailRes(s)
         /\ \A i \in DOMAIN AvailRes(s) :
              AvailRes(s)[i] = value => PlaceOf(value, AvailRes(s)) = i
         /\ (\A i \in DOMAIN AvailRes(s) : AvailRes(s)[i] # value) => PlaceOf(value, AvailRes(s)) = 1
<1> DEFINE list == AvailRes(s)
           IsPlace(i) == i \in DOMAIN list /\ list[i] = value /\ \A j \in 1 .. i - 1 : list[j] # value
<1>1. /\ DOMAIN list \in {1 .. 1, 1 .. 2, 1 .. 3}
      /\ \A i, j \in DOMAIN list : list[i] = list[j] => i = j
  BY AvailResType
<1>2. ASSUME NEW i \in DOMAIN list, list[i] = value PROVE PlaceOf(value, list) = i
  <2>1. \A j \in 1 .. i - 1 : j \in DOMAIN list /\ j # i
    BY <1>1
  <2>2. IsPlace(i)
    BY <1>1, <1>2, <2>1
  <2>3. PlaceOf(value, list) = CHOOSE j \in DOMAIN list : list[j] = value /\ \A k \in 1 .. j - 1 : list[k] # value
    BY <1>2 DEF PlaceOf
  <2>4. IsPlace(PlaceOf(value, list))
    BY <2>2, <2>3
  <2> QED
    BY <1>1, <1>2, <2>4
<1>3. ASSUME \A i \in DOMAIN list : list[i] # value PROVE PlaceOf(value, list) = 1
  BY <1>3 DEF PlaceOf
<1>4. PlaceOf(value, list) \in DOMAIN list
  BY <1>1, <1>2, <1>3
<1> QED
  BY <1>2, <1>3, <1>4

\* main() accepts every bitrate on offer.
LEMMA BitrateType ==
  ASSUME NEW bitrates \in {hd_bitrate, fullhd_bitrate}, NEW i \in BitrateName
  PROVE  bitrates[i] \in Nat /\ bitrates[i] > 0 /\ bitrates[i] \in kMinBitRate .. kMaxBitRate
<1>1. i \in {1, 2, 3}
  BY SMT DEF BitrateName
<1>2. bitrates[i] \in {2097152, 2621440, 3145728, 4194304, 5242880, 7864320}
  BY <1>1, SMT DEF hd_bitrate, fullhd_bitrate
<1>3. kMinBitRate = 100000 /\ kMaxBitRate = 100000000
  BY SMT DEF kMinBitRate, kMaxBitRate
<1>4. \A b \in {2097152, 2621440, 3145728, 4194304, 5242880, 7864320} :
        b \in Nat /\ b > 0 /\ b >= 100000 /\ b <= 100000000
  BY SMT
<1>5. bitrates[i] \in Nat /\ bitrates[i] > 0 /\ kMinBitRate <= bitrates[i] /\ bitrates[i] <= kMaxBitRate
  BY <1>2, <1>3, <1>4
<1>6. kMinBitRate \in Nat /\ kMaxBitRate \in Nat
  BY <1>3
<1> QED
  BY <1>5, <1>6

LEMMA BitratesForType == ASSUME NEW res PROVE BitratesFor(res) \in {hd_bitrate, fullhd_bitrate}
BY DEF BitratesFor

LEMMA SizesAre == \A s \in Screens : \A i \in DOMAIN AvailRes(s) : AvailRes(s)[i] \in Sizes
BY DEF Sizes

\* What this process has on offer.
LEMMA Offered ==
  ASSUME TypeOK, running
  PROVE  /\ screen \in Screens
         /\ DOMAIN mAvailResList = 1 .. Len(mAvailResList) /\ mChosenResIndex \in DOMAIN mAvailResList
         /\ \A i \in DOMAIN mAvailResList :
              mAvailResList[i] \in Sizes /\ mAvailResList[i] \in Resolution
<1>1. screen \in Screens
  <2>1. screen \in Screens \cup {NULL}
    BY DEF TypeOK
  <2>2. screen # NULL
    BY DEF running
  <2> QED
    BY <2>1, <2>2
<1>2. mAvailResList = AvailRes(screen) /\ mChosenResIndex \in DOMAIN mAvailResList
  BY DEF TypeOK, running
<1>3. /\ DOMAIN AvailRes(screen) = 1 .. Len(AvailRes(screen))
      /\ \A i \in DOMAIN AvailRes(screen) :
           AvailRes(screen)[i] \in Sizes /\ AvailRes(screen)[i] \in Resolution
  BY <1>1, AvailResType, SizesAre
<1> QED
  BY <1>1, <1>2, <1>3

\* A saved bitrate is one.
LEMMA SavedBitrateType == ASSUME TypeOK PROVE SavedBitrate \in BitrateName
BY DEF TypeOK, SavedBitrate, BitrateName

\* NULL is no display, no size and no bitrate.
LEMMA NotNull == NULL \notin Screens /\ NULL \notin BitrateName /\ NULL \notin Resolution
BY SettingsAssumption DEF BitrateName, Resolution

\* What is in force is a choice, and a command line made of it is the choice
\* itself: no default of RecorderThread is put in its place.
LEMMA ChoiceType ==
  ASSUME TypeOK, running
  PROVE  /\ Choice.res \in Resolution
         /\ Choice.bitRate \in Nat /\ Choice.bitRate > 0
         /\ Choice.bitRate \in kMinBitRate .. kMaxBitRate
         /\ Choice.rotate = mIsRotate
         /\ Choice # NULL
<1>1. Choice.res = mAvailResList[mChosenResIndex] /\ Choice.res \in Resolution
  BY Offered DEF Choice
<1>2. Choice.bitRate = mAvailBitrates[mChosenBitrateIndex]
  BY DEF Choice
<1>3. /\ Choice.bitRate \in Nat /\ Choice.bitRate > 0
      /\ Choice.bitRate \in kMinBitRate .. kMaxBitRate
  BY <1>2, BitrateType DEF TypeOK
<1>4. Choice.rotate = mIsRotate /\ mIsRotate \in BOOLEAN
  <2>1. Choice.rotate = mIsRotate
    BY Zenon DEF Choice
  <2>2. mIsRotate \in BOOLEAN
    BY Zenon DEF TypeOK
  <2> QED
    BY <2>1, <2>2
<1>5. Choice \in [res : Nat \X Nat, bitRate : Nat, rotate : BOOLEAN]
  <2>1. Choice = [res |-> Choice.res, bitRate |-> Choice.bitRate, rotate |-> Choice.rotate]
    BY DEF Choice
  <2>2. Choice.res \in Nat \X Nat
    BY <1>1 DEF Resolution
  <2> QED
    BY <1>3, <1>4, <2>1, <2>2
<1> QED
  BY <1>1, <1>3, <1>4, <1>5, SettingsAssumption

LEMMA TypeStep == ASSUME TypeOK, [Next]_vars PROVE TypeOK'
<1> USE NotNull DEF memory, running, TypeOK
<1>1. ASSUME NEW s \in Screens, Loads(s) PROVE TypeOK'
  <2>1. /\ mAvailResList' = AvailRes(screen') /\ mChosenResIndex' \in DOMAIN mAvailResList'
        /\ mAvailBitrates' \in {hd_bitrate, fullhd_bitrate}
    BY <1>1, PlaceOfIs, BitratesForType DEF Loads, ReloadBitrate
  <2>2. mChosenBitrateIndex' \in BitrateName
    BY <1>1 DEF Loads, ReloadBitrate, BitrateName
  <2> QED
    BY <1>1, <2>1, <2>2, SavedBitrateType DEF Loads
<1>2. CASE Loaded
  <2>1. SavedRes \in Sizes \cup {NULL}
    <3>1. mAvailResList[mChosenResIndex] \in Sizes
      BY <1>2, Offered DEF Loaded
    <3>2. pref.res \in Sizes \cup {NULL}
      OBVIOUS
    <3> QED
      BY <3>1, <3>2 DEF SavedRes
  <2> QED
    BY <1>2, <2>1 DEF Loaded
<1>3. CASE Dies
  BY <1>3 DEF Dies, Forgets
<1>4. CASE ShowFragment
  BY <1>4 DEF ShowFragment
<1>5. ASSUME NEW menu \in Menu, ClickMenuItem(menu) PROVE TypeOK'
  BY <1>5 DEF ClickMenuItem
<1>6. CASE ClickSubMenuItem
  <2>1. running /\ mInit
    BY <1>6 DEF ClickSubMenuItem
  <2>2. CASE mOpenedMenuId = "resolution"
    <3>1. PICK index \in 1 .. Len(mAvailResList) : setChoosedRes(index)
      BY <1>6, <2>2 DEF ClickSubMenuItem, SubMenuSize
    <3>2. index \in DOMAIN mAvailResList /\ mAvailResList[index] \in Sizes
      BY <2>1, <3>1, Offered
    <3>3. mChosenBitrateIndex' \in BitrateName
      BY <3>1 DEF setChoosedRes, ReloadBitrate, BitrateName
    <3> QED
      BY <1>6, <3>1, <3>2, <3>3, SavedBitrateType, BitratesForType DEF ClickSubMenuItem, setChoosedRes, ReloadBitrate
  <2>3. CASE mOpenedMenuId = "bitrate"
    <3>1. PICK index \in 1 .. Len(mAvailBitrates) : setChoosedBitrate(index)
      BY <1>6, <2>3 DEF ClickSubMenuItem, SubMenuSize
    <3>2. index \in BitrateName
      <4>1. Len(hd_bitrate) = 3 /\ Len(fullhd_bitrate) = 3
        BY SMT DEF hd_bitrate, fullhd_bitrate
      <4>2. Len(mAvailBitrates) = 3
        BY <2>1, <4>1
      <4> QED
        BY <3>1, <4>2 DEF BitrateName
    <3> QED
      BY <1>6, <3>1, <3>2 DEF ClickSubMenuItem, setChoosedBitrate
  <2>4. CASE mOpenedMenuId = "rotate"
    <3>1. PICK id \in 1 .. 2 : setRotate(id = 1)
      BY <1>6, <2>4 DEF ClickSubMenuItem, SubMenuSize
    <3>2. (id = 1) \in BOOLEAN
      OBVIOUS
    <3> QED
      BY <1>6, <3>1, <3>2 DEF ClickSubMenuItem, setRotate
  <2> QED
    BY <1>6, <2>2, <2>3, <2>4 DEF ClickSubMenuItem, Menu
<1>7. CASE ClickStart
  BY <1>7 DEF ClickStart
<1>8. CASE UNCHANGED vars
  BY <1>8 DEF vars
<1> QED
  BY <1>1, <1>2, <1>3, <1>4, <1>5, <1>6, <1>7, <1>8 DEF Next
-----------------------------------------------------------------------------
(***************************************************************************)
(* The invariant: what is in force is shown, fits together, and is what    *)
(* the preferences give back; so is what a screen had when the app last    *)
(* died on it.                                                             *)
(***************************************************************************)

ShowsChoice == shown # NULL => shown = Choice

\* The choice that a start on a screen restores.
ResOn(s) == AvailRes(s)[PlaceOf(pref.res, AvailRes(s))]
RestoredOn(s) ==
  [res |-> ResOn(s), bitRate |-> BitratesFor(ResOn(s))[pref.bitrate], rotate |-> pref.rotate]

InForce ==
  /\ running => /\ pref.bitrate # NULL /\ mChosenBitrateIndex = pref.bitrate
                /\ mChosenResIndex = PlaceOf(pref.res, mAvailResList)
  /\ mInit => pref.res # NULL /\ mIsRotate = pref.rotate

LastRestored ==
  /\ last = [s \in Screens |-> last[s]]
  /\ \A s \in Screens : last[s] # NULL =>
       pref.res # NULL /\ pref.bitrate # NULL /\ last[s] = RestoredOn(s)

SInv ==
  /\ TypeOK /\ BitratesFitResolution /\ ShowsChoice /\ InForce /\ LastRestored
  /\ CommandsAccepted

\* What is in force on a screen once it has been loaded is what a start on
\* that screen restores.
LEMMA ChoiceRestored ==
  ASSUME TypeOK, BitratesFitResolution, InForce, mInit
  PROVE  Choice = RestoredOn(screen)
<1>1. running /\ mAvailResList = AvailRes(screen)
  BY DEF TypeOK
<1>2. mAvailResList[mChosenResIndex] = ResOn(screen)
  BY <1>1 DEF InForce, ResOn
<1>3. mAvailBitrates[mChosenBitrateIndex] = BitratesFor(ResOn(screen))[pref.bitrate]
  BY <1>1, <1>2 DEF InForce, BitratesFitResolution
<1>4. mIsRotate = pref.rotate
  BY DEF InForce
<1> QED
  BY <1>2, <1>3, <1>4 DEF Choice, RestoredOn

\* The table of bitrates is replaced with the resolution.
LEMMA FitStep == ASSUME TypeOK, BitratesFitResolution, [Next]_vars PROVE BitratesFitResolution'
<1> USE DEF memory, running, BitratesFitResolution
<1>1. ASSUME NEW s \in Screens, Loads(s) PROVE BitratesFitResolution'
  BY <1>1 DEF Loads, ReloadBitrate
<1>2. CASE Loaded \/ ShowFragment \/ ClickStart \/ UNCHANGED vars
  BY <1>2 DEF Loaded, ShowFragment, ClickStart, vars
<1>3. CASE Dies
  BY <1>3 DEF Dies, Forgets
<1>4. ASSUME NEW menu \in Menu, ClickMenuItem(menu) PROVE BitratesFitResolution'
  BY <1>4 DEF ClickMenuItem
<1>5. CASE ClickSubMenuItem
  BY <1>5 DEF ClickSubMenuItem, setChoosedRes, ReloadBitrate, setChoosedBitrate, setRotate
<1> QED
  BY <1>1, <1>2, <1>3, <1>4, <1>5 DEF Next

\* The menus are drawn from what is in force after every change of it.
LEMMA ShowsChoiceStep == ASSUME TypeOK, ShowsChoice, [Next]_vars PROVE ShowsChoice'
<1> USE DEF memory, running, ShowsChoice
<1>1. CASE shown' = Choice' \/ shown' = NULL
  BY <1>1
<1>2. CASE UNCHANGED <<memory, shown>>
  BY <1>2 DEF Choice
<1>3. CASE Loaded \/ \E s \in Screens : Loads(s)
  BY <1>3 DEF Loaded, Loads, TypeOK
<1>4. CASE ShowFragment
  BY <1>4 DEF ShowFragment, Choice
<1>5. CASE ClickSubMenuItem \/ ClickStart \/ Dies
  BY <1>1, <1>5 DEF ClickSubMenuItem, ClickStart, Dies, Forgets
<1>6. CASE UNCHANGED vars \/ \E menu \in Menu : ClickMenuItem(menu)
  BY <1>2, <1>6 DEF vars, ClickMenuItem
<1> QED
  BY <1>3, <1>4, <1>5, <1>6 DEF Next

\* main() accepts what a click on the shutter makes of a choice.
LEMMA AcceptedStep == ASSUME TypeOK, CommandsAccepted, [Next]_vars PROVE CommandsAccepted'
<1> USE DEF CommandsAccepted
<1>1. CASE sent' = sent \/ sent' = NULL
  BY <1>1
<1>2. CASE ClickStart
  <2>1. running
    BY <1>2 DEF ClickStart, TypeOK
  <2>2. /\ Choice.res[1] \in Nat \ {0} /\ Choice.res[2] \in Nat \ {0}
        /\ Choice.bitRate \in Nat /\ Choice.bitRate > 0
        /\ Choice.bitRate \in kMinBitRate .. kMaxBitRate
    BY <2>1, ChoiceType DEF Resolution
  <2>3. sent' = Command(Choice.res[1], Choice.res[2], Choice.bitRate, 24 * 60 * 60, Choice.rotate)
    BY <1>2 DEF ClickStart
  <2>4. sent'.size[1] # 0 /\ sent'.size[2] # 0 /\ sent'.bitRate = Choice.bitRate
    BY <2>2, <2>3 DEF Command, SizeOf
  <2>5. sent'.timeLimit = 86400
    <3>1. MAX_TIME_LIMIT = 86400 /\ 24 * 60 * 60 = 86400
      BY SMT DEF MAX_TIME_LIMIT
    <3> QED
      BY <2>3, <3>1 DEF Command
  <2>6. sent'.timeLimit \in 1 .. kMaxTimeLimitSec
    <3>1. kMaxTimeLimitSec = 86400
      BY SMT DEF kMaxTimeLimitSec
    <3>2. 1 <= 86400 /\ kMaxTimeLimitSec <= kMaxTimeLimitSec /\ kMaxTimeLimitSec \in Nat
      BY <3>1
    <3> QED
      BY <2>5, <3>1, <3>2
  <2> QED
    BY <2>2, <2>4, <2>6 DEF Accepts
<1>3. CASE \/ Loaded \/ ShowFragment \/ ClickSubMenuItem \/ Dies \/ UNCHANGED vars
           \/ (\E s \in Screens : Loads(s)) \/ \E menu \in Menu : ClickMenuItem(menu)
  BY <1>1, <1>3 DEF Loaded, ShowFragment, ClickSubMenuItem, Dies, Forgets, vars, Loads, ClickMenuItem
<1> QED
  BY <1>2, <1>3 DEF Next

\* A click finds what it has saved again.
LEMMA ClickSaves ==
  ASSUME TypeOK, InForce, ClickSubMenuItem
  PROVE  InForce'
<1> USE DEF InForce
<1>1. mInit /\ running
  BY DEF ClickSubMenuItem, TypeOK
<1>2. pref \in [res : Sizes \cup {NULL}, bitrate : BitrateName \cup {NULL}, rotate : BOOLEAN]
  BY DEF TypeOK
<1>3. ASSUME NEW index \in 1 .. Len(mAvailResList), setChoosedRes(index) PROVE InForce'
  <2>1. index \in DOMAIN mAvailResList /\ mAvailResList[index] # NULL
    BY <1>1, <1>3, Offered, NotNull
  <2>2. PlaceOf(mAvailResList[index], mAvailResList) = index
    <3>1. screen \in Screens /\ mAvailResList = AvailRes(screen)
      BY <1>1, Offered DEF TypeOK
    <3> QED
      BY <2>1, <3>1, PlaceOfIs
  <2>3. /\ pref'.res = mAvailResList[index] /\ pref'.bitrate = SavedBitrate /\ pref'.rotate = pref.rotate
        /\ mChosenResIndex' = index /\ mChosenBitrateIndex' = SavedBitrate
        /\ UNCHANGED <<mAvailResList, mIsRotate>>
    BY <1>2, <1>3 DEF setChoosedRes, ReloadBitrate, SavedBitrate
  <2>4. SavedBitrate # NULL
    BY SavedBitrateType, NotNull
  <2> QED
    BY <1>1, <2>1, <2>2, <2>3, <2>4
<1>4. ASSUME NEW index \in 1 .. Len(mAvailBitrates), setChoosedBitrate(index) PROVE InForce'
  <2>1. index # NULL
    BY SettingsAssumption
  <2>2. /\ pref'.res = pref.res /\ pref'.bitrate = index /\ pref'.rotate = pref.rotate
        /\ mChosenBitrateIndex' = index /\ UNCHANGED <<mAvailResList, mIsRotate, mChosenResIndex>>
    BY <1>2, <1>4 DEF setChoosedBitrate
  <2> QED
    BY <1>1, <2>1, <2>2
<1>5. ASSUME NEW id \in 1 .. 2, setRotate(id = 1) PROVE InForce'
  <2>1. /\ pref'.res = pref.res /\ pref'.bitrate = pref.bitrate /\ pref'.rotate = mIsRotate'
        /\ UNCHANGED <<mAvailResList, mChosenResIndex, mChosenBitrateIndex>>
    BY <1>2, <1>5 DEF setRotate
  <2> QED
    BY <1>1, <2>1
<1> QED
  BY <1>3, <1>4, <1>5 DEF ClickSubMenuItem, SubMenuSize

\* What is in force is always what has been saved.
LEMMA InForceStep == ASSUME TypeOK, InForce, [Next]_vars PROVE InForce'
<1> USE DEF InForce
<1>1. pref \in [res : Sizes \cup {NULL}, bitrate : BitrateName \cup {NULL}, rotate : BOOLEAN]
  BY DEF TypeOK
<1>2. CASE UNCHANGED <<pref, memory>>
  BY <1>2 DEF memory, running
<1>3. ASSUME NEW s \in Screens, Loads(s) PROVE InForce'
  <2>1. ~mInit' /\ SavedBitrate # NULL
    BY <1>3, SavedBitrateType, NotNull DEF Loads, TypeOK
  <2>2. /\ pref'.res = pref.res /\ pref'.bitrate = SavedBitrate
        /\ mChosenBitrateIndex' = SavedBitrate
        /\ mChosenResIndex' = PlaceOf(pref.res, mAvailResList')
    BY <1>1, <1>3 DEF Loads, ReloadBitrate, SavedBitrate
  <2> QED
    BY <2>1, <2>2
<1>4. CASE Loaded
  <2>1. running
    BY <1>4 DEF Loaded
  <2>2. /\ pref'.res = SavedRes /\ pref'.bitrate = pref.bitrate /\ pref'.rotate = pref.rotate
        /\ mIsRotate' = pref.rotate
        /\ UNCHANGED <<mAvailResList, mChosenResIndex, mChosenBitrateIndex>>
    BY <1>1, <1>4 DEF Loaded
  <2>3. SavedRes # NULL /\ PlaceOf(SavedRes, mAvailResList) = mChosenResIndex
    <3>1. CASE pref.res # NULL
      BY <2>1, <3>1 DEF SavedRes
    <3>2. CASE pref.res = NULL
      <4>1. screen \in Screens /\ mAvailResList = AvailRes(screen)
        BY <2>1, Offered DEF TypeOK
      <4>2. mChosenResIndex \in DOMAIN mAvailResList /\ mAvailResList[mChosenResIndex] # NULL
        BY <2>1, Offered, NotNull
      <4>3. SavedRes = mAvailResList[mChosenResIndex]
        BY <3>2 DEF SavedRes
      <4> QED
        BY <4>1, <4>2, <4>3, PlaceOfIs
    <3> QED
      BY <3>1, <3>2
  <2> QED
    BY <2>1, <2>2, <2>3
<1>5. CASE Dies
  BY <1>5 DEF Dies, Forgets, running
<1>6. CASE ShowFragment \/ ClickStart \/ UNCHANGED vars \/ \E menu \in Menu : ClickMenuItem(menu)
  BY <1>2, <1>6 DEF ShowFragment, ClickStart, vars, ClickMenuItem
<1> QED
  BY <1>3, <1>4, <1>5, <1>6, ClickSaves DEF Next

\* Start-up does not change what has been chosen, for this screen or for any
\* other.
LEMMA LastRestoredStep ==
  ASSUME TypeOK, BitratesFitResolution, InForce, LastRestored, [Next]_vars
  PROVE  LastRestored'
<1> USE DEF LastRestored
<1>1. pref \in [res : Sizes \cup {NULL}, bitrate : BitrateName \cup {NULL}, rotate : BOOLEAN]
  BY DEF TypeOK
<1>2. ASSUME last' = last,
             \A s \in Screens : last[s] # NULL =>
               pref'.res = pref.res /\ pref'.bitrate = pref.bitrate /\ pref'.rotate = pref.rotate
      PROVE  LastRestored'
  BY <1>2 DEF RestoredOn, ResOn
<1>3. ASSUME NEW s \in Screens, Loads(s) PROVE LastRestored'
  BY <1>1, <1>2, <1>3 DEF Loads, SavedBitrate
<1>4. CASE Loaded
  BY <1>1, <1>2, <1>4 DEF Loaded, SavedRes
<1>5. CASE Dies
  <2>1. UNCHANGED pref
    BY <1>5 DEF Dies
  <2>2. CASE ~mInit
    BY <1>2, <1>5, <2>1, <2>2 DEF Dies
  <2>3. CASE mInit
    <3>1. Choice = RestoredOn(screen) /\ screen \in Screens /\ pref.res # NULL /\ pref.bitrate # NULL
      BY <2>3, ChoiceRestored, Offered DEF InForce, TypeOK
    <3>2. last' = [last EXCEPT ![screen] = Choice]
      BY <1>5, <2>3 DEF Dies
    <3>3. \A s \in Screens : last'[s] = IF s = screen THEN Choice ELSE last[s]
      BY <3>2
    <3>4. last' = [s \in Screens |-> last'[s]]
      BY <3>2
    <3>5. \A s \in Screens : RestoredOn(s)' = RestoredOn(s)
      BY <2>1 DEF RestoredOn, ResOn
    <3> QED
      BY <2>1, <3>1, <3>3, <3>4, <3>5
  <2> QED
    BY <2>2, <2>3
<1>6. CASE ClickSubMenuItem
  BY <1>6 DEF ClickSubMenuItem
<1>7. CASE ShowFragment \/ ClickStart \/ UNCHANGED vars \/ \E menu \in Menu : ClickMenuItem(menu)
  BY <1>2, <1>7 DEF ShowFragment, ClickStart, vars, ClickMenuItem
<1> QED
  BY <1>3, <1>4, <1>5, <1>6, <1>7 DEF Next

\* The settings start in SInv and every step keeps it: what is shown, in
\* force, saved and remembered of a screen stay in agreement.
THEOREM Inductive == Spec => []SInv
<1>1. Init => SInv
  <2> SUFFICES ASSUME Init PROVE SInv
    OBVIOUS
  <2>1. TypeOK
    <3>1. pref \in [res : Sizes \cup {NULL}, bitrate : BitrateName \cup {NULL}, rotate : BOOLEAN]
      BY DEF Init
    <3>2. mInit \in BOOLEAN /\ mIsRotate \in BOOLEAN /\ ~running /\ ~mInit
      BY DEF Init, running
    <3>3. screen \in Screens \cup {NULL} /\ shown = NULL /\ mOpenedMenuId \in Menu \cup {NULL}
      BY DEF Init
    <3> QED
      BY <3>1, <3>2, <3>3 DEF TypeOK
  <2>2. BitratesFitResolution /\ ShowsChoice /\ CommandsAccepted
    BY DEF Init, BitratesFitResolution, running, ShowsChoice, CommandsAccepted
  <2>3. InForce /\ LastRestored
    BY DEF Init, InForce, running, LastRestored
  <2> QED
    BY <2>1, <2>2, <2>3 DEF SInv
<1>2. SInv /\ [Next]_vars => SInv'
  BY TypeStep, FitStep, ShowsChoiceStep, InForceStep, LastRestoredStep, AcceptedStep DEF SInv
<1> QED
  BY <1>1, <1>2, PTL DEF Spec

\* Every setting, preference and menu keeps its type.
THEOREM TypeCorrect == Spec => []TypeOK
BY Inductive, PTL DEF SInv

\* The bitrates that Settings offers are always those of the resolution in
\* force, on displays of any size.
THEOREM BitratesFit == Spec => []BitratesFitResolution
BY Inductive, PTL DEF SInv

\* No choice of the menus makes a command line that main() refuses.
THEOREM MenusMakeCommands == Spec => []CommandsAccepted
BY Inductive, PTL DEF SInv

\* The recording that a click on the shutter starts has the resolution, the
\* bitrate and the orientation that were on the screen.
THEOREM ShownIsRecorded == Spec => RecordsWhatIsShown
<1> DEFINE Recorded == sent' # NULL /\ shown # NULL /\ shown' = NULL =>
             [res |-> sent'.size, bitRate |-> sent'.bitRate, rotate |-> sent'.rotate] = shown
<1>1. ASSUME SInv, TypeOK', Next, sent' # NULL, shown # NULL, shown' = NULL
      PROVE  [res |-> sent'.size, bitRate |-> sent'.bitRate, rotate |-> sent'.rotate] = shown
  <2> USE DEF SInv
  <2>1. running /\ mInit /\ shown = Choice
    BY <1>1 DEF TypeOK, ShowsChoice
  <2>2. CASE ClickStart
    <3>1. Choice.res \in Resolution /\ Choice.bitRate \in Nat /\ Choice.bitRate > 0
      BY <1>1, <2>1, ChoiceType
    <3>2. Choice.res[1] > 0 /\ Choice.res[2] > 0 /\ Choice.res = <<Choice.res[1], Choice.res[2]>>
          /\ Choice.res[1] \in Nat /\ Choice.res[2] \in Nat
      BY <3>1 DEF Resolution
    <3>3. sent' = Command(Choice.res[1], Choice.res[2], Choice.bitRate, 24 * 60 * 60, Choice.rotate)
      BY <2>2 DEF ClickStart
    <3>4. sent'.size = Choice.res /\ sent'.bitRate = Choice.bitRate /\ sent'.rotate = Choice.rotate
      BY <3>1, <3>2, <3>3 DEF Command, SizeOf
    <3>5. Choice = [res |-> Choice.res, bitRate |-> Choice.bitRate, rotate |-> Choice.rotate]
      BY DEF Choice
    <3> QED
      BY <2>1, <3>4, <3>5
  <2>3. CASE ClickSubMenuItem
    <3>1. screen' \in Screens /\ mAvailResList' = AvailRes(screen')
          /\ mChosenResIndex' \in DOMAIN mAvailResList'
      <4>1. running'
        BY <2>1, <2>3 DEF ClickSubMenuItem, setChoosedRes, setChoosedBitrate, setRotate, running
      <4>2. screen' \in Screens \cup {NULL}
        BY <1>1 DEF TypeOK
      <4> QED
        BY <1>1, <4>1, <4>2 DEF TypeOK, running
    <3>2. mAvailResList'[mChosenResIndex'] \in Nat \X Nat
      BY <3>1, AvailResType DEF Resolution
    <3>3. mAvailBitrates'[mChosenBitrateIndex'] \in Nat
      <4>1. running'
        BY <3>1, NotNull DEF running
      <4> QED
        BY <1>1, <4>1, BitrateType DEF TypeOK
    <3>4. mIsRotate' \in BOOLEAN
      BY <1>1 DEF TypeOK
    <3>5. Choice' \in [res : Nat \X Nat, bitRate : Nat, rotate : BOOLEAN]
      BY <3>2, <3>3, <3>4 DEF Choice
    <3>6. shown' = Choice'
      BY <2>3 DEF ClickSubMenuItem
    <3> QED
      BY <1>1, <3>5, <3>6, SettingsAssumption
  <2>4. CASE ShowFragment
    BY <1>1, <2>1, <2>4 DEF ShowFragment
  <2>5. CASE Loaded \/ Dies \/ (\E s \in Screens : Loads(s)) \/ \E menu \in Menu : ClickMenuItem(menu)
    BY <1>1, <2>5 DEF Loaded, Dies, Forgets, Loads, ClickMenuItem
  <2> QED
    BY <1>1, <2>2, <2>3, <2>4, <2>5 DEF Next
<1>2. SInv /\ SInv' /\ [Next]_vars => [Recorded]_vars
  BY <1>1 DEF SInv
<1> QED
  BY <1>2, Inductive, PTL DEF Spec, RecordsWhatIsShown

\* Unless the user changes something, Settings.init() makes the same choices
\* on a screen as when the app last died on it.
THEOREM ChoicesComeBack == Spec => ChoicesSurvive
<1> DEFINE Survives == ~mInit /\ mInit' => last[screen] \in {NULL, Choice'}
<1>1. ASSUME SInv, SInv', Next, ~mInit, mInit' PROVE last[screen] \in {NULL, Choice'}
  <2> USE DEF SInv
  <2>1. CASE Loaded
    <3>1. /\ screen' = screen /\ last' = last
          /\ running /\ mAvailResList' = AvailRes(screen') /\ running'
      BY <1>1, <2>1 DEF Loaded, TypeOK, running
    <3>2. screen \in Screens
      BY <1>1, <3>1, Offered
    <3>3. last[screen] # NULL => last[screen] = RestoredOn(screen)'
      BY <1>1, <3>1, <3>2 DEF LastRestored
    <3>4. mAvailResList'[mChosenResIndex'] = ResOn(screen)'
      BY <1>1, <3>1 DEF InForce, ResOn
    <3>5. mAvailBitrates'[mChosenBitrateIndex'] = BitratesFor(ResOn(screen)')[pref'.bitrate]
      BY <1>1, <3>1, <3>4 DEF InForce, BitratesFitResolution
    <3>6. mIsRotate' = pref'.rotate
      BY <1>1 DEF InForce
    <3>7. Choice' = RestoredOn(screen)'
      BY <3>4, <3>5, <3>6 DEF Choice, RestoredOn
    <3> QED
      BY <3>3, <3>7
  <2>2. CASE ShowFragment \/ ClickStart \/ ClickSubMenuItem
    BY <1>1, <2>2 DEF ShowFragment, ClickStart, ClickSubMenuItem, memory, setChoosedRes,
       setChoosedBitrate, setRotate
  <2>3. CASE Dies \/ (\E s \in Screens : Loads(s)) \/ \E menu \in Menu : ClickMenuItem(menu)
    BY <1>1, <2>3 DEF Dies, Forgets, Loads, ClickMenuItem, memory
  <2> QED
    BY <1>1, <2>1, <2>2, <2>3 DEF Next
<1>2. SInv /\ SInv' /\ [Next]_vars => [Survives]_vars
  BY <1>1
<1> QED
  BY <1>2, Inductive, PTL DEF Spec, ChoicesSurvive
=============================================================================
