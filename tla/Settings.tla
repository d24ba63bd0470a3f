------------------------------ MODULE Settings ------------------------------
(***************************************************************************)
(* utils/Settings.java and the menus of RecorderFragment, over restarts of *)
(* the app.  Preferences are committed before a call returns and survive   *)
(* the death of the app, which may come between two commits.  A process    *)
(* reads the size of the display once.  Bitrates are named by their place  *)
(* in the arrays of arrays.xml.                                            *)
(***************************************************************************)
EXTENDS CommandLine

CONSTANTS
  Screens,         \* sizes <<x, y>> that Display.getSize() may return
  NULL             \* no preference, no value

ASSUME SettingsAssumption ==
  /\ Screens \subseteq (Nat \ {0}) \X (Nat \ {0})
  /\ NULL \notin Nat \cup Nat \X Nat \cup [res : Nat \X Nat, bitRate : Nat, rotate : BOOLEAN]

hd_bitrate == <<2097152, 2621440, 3145728>>
fullhd_bitrate == <<4194304, 5242880, 7864320>>
BitrateName == 1 .. 3
Menu == {"resolution", "bitrate", "rotate"}

VARIABLES
  pref,                                \* recorder_settings, on disk
  screen,                              \* the display this process has seen
  mInit, mAvailResList, mChosenResIndex,
  mAvailBitrates, mChosenBitrateIndex, mIsRotate,
  shown,           \* the values under the three menus; NULL without fragment
  mOpenedMenuId,
  sent,            \* the command line of the last recording
  last             \* history: the choices on each screen when the app last died
                   \* on it; NULL after a click that changed one

running == screen # NULL
memory == <<screen, mInit, mAvailResList, mChosenResIndex, mAvailBitrates,
            mChosenBitrateIndex, mIsRotate>>
vars == <<pref, memory, shown, mOpenedMenuId, sent, last>>

\* loading(): the resolutions on offer
AvailRes(s) ==
  CASE s[1] > 1080 /\ s[2] > 1920 -> <<s, <<1080, 1920>>, <<720, 1280>>>>
    [] ~(s[1] > 1080 /\ s[2] > 1920) /\ s[1] > 720 /\ s[2] > 1280 -> <<s, <<720, 1280>>>>
    [] OTHER -> <<s>>

Sizes == UNION {{AvailRes(s)[i] : i \in DOMAIN AvailRes(s)} : s \in Screens}

\* the place of a saved value, else the first one
PlaceOf(value, list) ==
  IF \E i \in DOMAIN list : list[i] = value
    THEN CHOOSE i \in DOMAIN list : list[i] = value /\ \A j \in 1 .. i - 1 : list[j] # value
    ELSE 1

\* reloadBitrate(): the table for a resolution
BitratesFor(res) == IF res[1] >= 1080 /\ res[2] >= 1920 THEN fullhd_bitrate ELSE hd_bitrate

\* getChosenRes(), getChoosedBitrate(), isRotate()
Choice ==
  [res |-> mAvailResList[mChosenResIndex], bitRate |-> mAvailBitrates[mChosenBitrateIndex],
   rotate |-> mIsRotate]

TypeOK ==
  /\ pref \in [res : Sizes \cup {NULL}, bitrate : BitrateName \cup {NULL}, rotate : BOOLEAN]
  /\ screen \in Screens \cup {NULL} /\ mInit \in BOOLEAN
  /\ mInit => running
  /\ running =>
       /\ mAvailResList = AvailRes(screen) /\ mChosenResIndex \in DOMAIN mAvailResList
       /\ mAvailBitrates \in {hd_bitrate, fullhd_bitrate}
       /\ mChosenBitrateIndex \in BitrateName
  /\ mIsRotate \in BOOLEAN
  /\ shown # NULL => mInit
  /\ mOpenedMenuId \in Menu \cup {NULL}

Forgets ==
  /\ screen' = NULL /\ mInit' = FALSE
  /\ mAvailResList' = << >> /\ mChosenResIndex' = 0
  /\ mAvailBitrates' = << >> /\ mChosenBitrateIndex' = 0 /\ mIsRotate' = FALSE
  /\ shown' = NULL /\ mOpenedMenuId' = NULL /\ sent' = NULL

Init ==
  /\ pref = [res |-> NULL, bitrate |-> NULL, rotate |-> FALSE]
  /\ screen = NULL /\ mInit = FALSE
  /\ mAvailResList = << >> /\ mChosenResIndex = 0
  /\ mAvailBitrates = << >> /\ mChosenBitrateIndex = 0 /\ mIsRotate = FALSE
  /\ shown = NULL /\ mOpenedMenuId = NULL /\ sent = NULL
  /\ last = [s \in Screens |-> NULL]
-----------------------------------------------------------------------------
(* Settings                                                                *)

\* Mutant: only the index is looked up, the table is left
ReloadIndex(res) ==
  /\ mAvailBitrates' = IF mAvailBitrates = << >> THEN BitratesFor(res) ELSE mAvailBitrates
  /\ mChosenBitrateIndex' = IF pref.bitrate = NULL THEN 1 ELSE pref.bitrate

\* reloadBitrate(); what it commits is SavedBitrate
ReloadBitrate(res) ==
  /\ mAvailBitrates' = BitratesFor(res)
  /\ mChosenBitrateIndex' = IF pref.bitrate = NULL THEN 1 ELSE pref.bitrate

SavedBitrate == IF pref.bitrate = NULL THEN 1 ELSE pref.bitrate

\* init() up to the commit in reloadBitrate()
Loads(s) ==
  /\ ~running
  /\ screen' = s
  /\ mAvailResList' = AvailRes(s)
  /\ mChosenResIndex' = PlaceOf(pref.res, AvailRes(s))
  /\ ReloadBitrate(AvailRes(s)[PlaceOf(pref.res, AvailRes(s))])
  /\ pref' = [pref EXCEPT !.bitrate = SavedBitrate]
  /\ UNCHANGED <<mInit, mIsRotate, shown, mOpenedMenuId, sent, last>>

\* Mutant: the resolution in force is always saved
SavedResInForce == mAvailResList[mChosenResIndex]

\* a saved resolution that this screen does not offer is kept
SavedRes == IF pref.res = NULL THEN mAvailResList[mChosenResIndex] ELSE pref.res

\* the rest of loading()
Loaded ==
  /\ running /\ ~mInit
  /\ mInit' = TRUE
  /\ mIsRotate' = pref.rotate
  /\ pref' = [pref EXCEPT !.res = SavedRes]
  /\ UNCHANGED <<screen, mAvailResList, mChosenResIndex, mAvailBitrates, mChosenBitrateIndex>>
  /\ UNCHANGED <<shown, mOpenedMenuId, sent, last>>

setChoosedRes(index) ==
  /\ mChosenResIndex' = index
  /\ pref' = [pref EXCEPT !.res = mAvailResList[index], !.bitrate = SavedBitrate]
  /\ ReloadBitrate(mAvailResList[index])
  /\ UNCHANGED <<screen, mInit, mAvailResList, mIsRotate>>

setChoosedBitrate(index) ==
  /\ mChosenBitrateIndex' = index
  /\ pref' = [pref EXCEPT !.bitrate = index]
  /\ UNCHANGED <<screen, mInit, mAvailResList, mChosenResIndex, mAvailBitrates, mIsRotate>>

setRotate(rotate) ==
  /\ mIsRotate' = rotate
  /\ pref' = [pref EXCEPT !.rotate = rotate]
  /\ UNCHANGED <<screen, mInit, mAvailResList, mChosenResIndex, mAvailBitrates, mChosenBitrateIndex>>

\* the process dies
Dies ==
  /\ running
  /\ last' = IF mInit THEN [last EXCEPT ![screen] = Choice] ELSE last
  /\ Forgets
  /\ UNCHANGED pref
-----------------------------------------------------------------------------
(* RecorderFragment                                                        *)

\* onCreateView() and onResume(), of a new fragment or of one that is there
ShowFragment ==
  /\ mInit
  /\ shown' = Choice
  /\ mOpenedMenuId' \in {NULL, mOpenedMenuId}
  /\ UNCHANGED <<pref, memory, sent, last>>

\* onClickMenuItem() closes an open menu, and opens any other
ClickMenuItem(menu) ==
  /\ shown # NULL
  /\ mOpenedMenuId' = IF mOpenedMenuId = menu THEN NULL ELSE menu
  /\ UNCHANGED <<pref, memory, shown, sent, last>>

SubMenuSize ==
  CASE mOpenedMenuId = "resolution" -> Len(mAvailResList)
    [] mOpenedMenuId = "bitrate" -> Len(mAvailBitrates)
    [] mOpenedMenuId = "rotate" -> 2

\* onClickSubMenuItem(), and updateSettings()
ClickSubMenuItem ==
  /\ shown # NULL /\ mOpenedMenuId # NULL
  /\ \E id \in 1 .. SubMenuSize :
       \/ mOpenedMenuId = "resolution" /\ setChoosedRes(id)
       \/ mOpenedMenuId = "bitrate" /\ setChoosedBitrate(id)
       \/ mOpenedMenuId = "rotate" /\ setRotate(id = 1)
  /\ mOpenedMenuId' = NULL
  /\ shown' = Choice'
  /\ last' = [s \in Screens |-> NULL]
  /\ UNCHANGED sent

\* start_rec() and finish()
ClickStart ==
  /\ shown # NULL
  /\ sent' = Command(Choice.res[1], Choice.res[2], Choice.bitRate, 24 * 60 * 60, Choice.rotate)
  /\ shown' = NULL /\ mOpenedMenuId' = NULL
  /\ UNCHANGED <<pref, memory, last>>

Next ==
  \/ \E s \in Screens : Loads(s)
  \/ Loaded \/ Dies \/ ShowFragment
  \/ \E menu \in Menu : ClickMenuItem(menu)
  \/ ClickSubMenuItem \/ ClickStart

Spec == Init /\ [][Next]_vars
-----------------------------------------------------------------------------
(* Safety.                                                                 *)

\* The bitrates on offer, and the one in force, are those of the resolution.
BitratesFitResolution == running => mAvailBitrates = BitratesFor(mAvailResList[mChosenResIndex])

\* A recording is made with the values the user sees under the menus.
RecordsWhatIsShown ==
  [][sent' # NULL /\ shown # NULL /\ shown' = NULL =>
       [res |-> sent'.size, bitRate |-> sent'.bitRate, rotate |-> sent'.rotate] = shown]_vars

\* main() accepts every command line the menus can lead to: no recording
\* ends at once over its arguments.
CommandsAccepted == sent # NULL => Accepts(sent)

\* Unless the user changes something, the app has the same choices every time
\* it starts on a screen: whatever start-up on another screen, that may not
\* offer them, comes in between, and wherever a death comes.
ChoicesSurvive ==
  [][~mInit /\ mInit' => last[screen] \in {NULL, Choice'}]_vars
=============================================================================
