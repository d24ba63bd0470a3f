------------------------------- MODULE Clips -------------------------------
(***************************************************************************)
(* utils/StorageHelper.java, the list of clips in RecorderFragment and     *)
(* fragment/ClipsAdapter.java, over the lives of several activities.       *)
(*                                                                         *)
(* Android destroys an activity some time after finish(), perhaps after    *)
(* the next one has been created.  An adapter whose fragment is gone goes  *)
(* on observing its cursor.  The content provider tells the observers of a *)
(* change at once; a closed cursor has none.  A result is posted by the    *)
(* thread that made the query, so results arrive in any order.             *)
(***************************************************************************)
EXTENDS Naturals

CONSTANTS
  Activity,        \* RecorderActivities that can be created (a bound)
  Adapter,         \* ClipsAdapters that can be created (a bound)
  Cursor,          \* results of queries (a bound)
  NULL,            \* Java's null
  MaxChanges,      \* bound on changes of the list of clips
  MayUnmount,      \* may the external storage come and go?
  MayFail          \* may a query return null?

ASSUME ClipsAssumption ==
  /\ NULL \notin Cursor \cup Adapter \cup Nat
  /\ MaxChanges \in Nat
  /\ MayUnmount \in BOOLEAN /\ MayFail \in BOOLEAN

VARIABLES
  mounted,                             \* is the external storage mounted?
  content,                             \* how often the list of clips has changed
  mIsInit, mStorageAvailable, mCursor, \* StorageHelper
  listening,       \* is its BroadcastReceiver registered?
  version,         \* the content each cursor holds; NULL before its query
  open,            \* cursors not closed
  activity,        \* lifecycle of each activity
  made, shown,     \* adapters made; the one on the screen
  cursorOf,        \* CursorAdapter.mCursor of each adapter
  queries,         \* threads of onContentChanged() that are to query, per adapter
  results,         \* cursors they have queried and not yet swapped in
  thrown,          \* generateFileName() has thrown: the app is gone
  overlapped,      \* history: an activity was created before its predecessor's end
  untold,          \* history: a change of the storage since the last activity was
                   \* created, or the last broadcast, has not been broadcast
  missed,          \* history: the adapter shown was not told of a change
  crossed          \* history: a cursor replaced a more recent one

helper == <<mIsInit, mStorageAvailable, mCursor, listening>>
cursors == <<version, open>>
adapters == <<made, shown, cursorOf, queries, results>>
history == <<overlapped, untold, missed, crossed>>
vars == <<mounted, content, helper, cursors, activity, adapters, thrown, history>>

Result == [adapter : Adapter, cursor : Cursor \cup {NULL}]
Alive == {a \in Activity : activity[a] = "alive"}
Finishing == {a \in Activity : activity[a] = "finishing"}
Unused == {c \in Cursor : version[c] = NULL}

TypeOK ==
  /\ mounted \in BOOLEAN /\ content \in 0 .. MaxChanges
  /\ mIsInit \in BOOLEAN /\ mStorageAvailable \in BOOLEAN /\ listening \in BOOLEAN
  /\ mCursor \in Cursor \cup {NULL}
  /\ version \in [Cursor -> 0 .. MaxChanges \cup {NULL}]
  /\ open \subseteq Cursor \ Unused
  /\ activity \in [Activity -> {"new", "alive", "finishing", "destroyed"}]
  /\ made \subseteq Adapter /\ shown \in made \cup {NULL}
  /\ cursorOf \in [Adapter -> Cursor \cup {NULL}]
  /\ queries \in [Adapter -> 0 .. content]
  /\ results \subseteq Result
  /\ thrown \in BOOLEAN /\ overlapped \in BOOLEAN /\ untold \in BOOLEAN
  /\ missed \in BOOLEAN /\ crossed \in BOOLEAN

Init ==
  /\ mounted \in {TRUE, ~MayUnmount}
  /\ content = 0
  /\ mIsInit = FALSE /\ mStorageAvailable = FALSE /\ mCursor = NULL /\ listening = FALSE
  /\ version = [c \in Cursor |-> NULL] /\ open = {}
  /\ activity = [a \in Activity |-> "new"]
  /\ made = {} /\ shown = NULL /\ cursorOf = [d \in Adapter |-> NULL]
  /\ queries = [d \in Adapter |-> 0] /\ results = {}
  /\ thrown = FALSE
  /\ overlapped = FALSE /\ untold = FALSE /\ missed = FALSE /\ crossed = FALSE
-----------------------------------------------------------------------------
(* StorageHelper                                                           *)

\* queryVideoClips(), whose result goes to c
Queries(c) ==
  \/ /\ c \in Unused
     /\ version' = [version EXCEPT ![c] = content]
     /\ open' = open \cup {c}
  \/ MayFail /\ c = NULL /\ UNCHANGED cursors

\* Mutant: initialized only if the query succeeds
InitStorageOnQuery ==
  \/ mIsInit /\ UNCHANGED <<helper, cursors>>
  \/ /\ ~mIsInit
     /\ mStorageAvailable' = mounted /\ listening' = TRUE
     /\ \E c \in Cursor \cup {NULL} :
          /\ Queries(c) /\ mIsInit' = (c # NULL)
          /\ mCursor' = IF c = NULL THEN mCursor ELSE c

\* init(): nothing if initialized; the old cursor is kept if the query fails
InitStorage ==
  \/ mIsInit /\ UNCHANGED <<helper, cursors>>
  \/ /\ ~mIsInit
     /\ mIsInit' = TRUE /\ mStorageAvailable' = mounted /\ listening' = TRUE
     /\ \E c \in Cursor \cup {NULL} :
          Queries(c) /\ mCursor' = IF c = NULL THEN mCursor ELSE c

\* Mutant: the cursor is closed and kept
deInitKeeping ==
  /\ mIsInit' = FALSE
  /\ open' = open \ {mCursor}
  /\ UNCHANGED <<mCursor, version, mStorageAvailable, listening>>

\* deInit(): the receiver was registered with another Context, and stays
deInit ==
  /\ mIsInit' = FALSE
  /\ open' = open \ {mCursor}
  /\ mCursor' = IF mCursor \in open THEN NULL ELSE mCursor
  /\ UNCHANGED <<version, mStorageAvailable, listening>>

\* generateFileName() throws IllegalStateException
NoFileName == ~mIsInit \/ ~mStorageAvailable

StorageChanges ==
  /\ MayUnmount
  /\ mounted' = ~mounted
  /\ untold' = TRUE
  /\ UNCHANGED <<content, helper, cursors, activity, adapters, thrown, overlapped, missed,
                 crossed>>

\* mExternalStorageReceiver, if the broadcast is delivered at all
ReceivesStorageState ==
  /\ listening
  /\ mStorageAvailable' = mounted
  /\ untold' = FALSE
  /\ UNCHANGED <<mounted, content, mIsInit, mCursor, listening, cursors, activity,
                 adapters, thrown, overlapped, missed, crossed>>
-----------------------------------------------------------------------------
(* RecorderActivity and RecorderFragment                                   *)

\* onCreate(): launchMode is singleInstance
Create(a) ==
  /\ activity[a] = "new" /\ Alive = {}
  /\ activity' = [activity EXCEPT ![a] = "alive"]
  /\ InitStorage
  /\ overlapped' = (overlapped \/ Finishing # {})
  /\ untold' = FALSE
  /\ UNCHANGED <<mounted, content, adapters, thrown, missed, crossed>>

\* showRecorderFragment(), from onCreate() or on an InitEvent, which reaches
\* a finishing activity too, replaces the fragment; onCreateView() makes an
\* adapter of getVideoClips()
ShowRecorderFragment(d) ==
  /\ d \notin made /\ made' = made \cup {d}
  /\ \/ Alive # {} /\ shown' = d
     \/ Finishing # {} /\ UNCHANGED shown
  /\ cursorOf' = [cursorOf EXCEPT ![d] = mCursor]
  /\ missed' = (missed \/ mCursor = NULL \/ version[mCursor] # content)
  /\ UNCHANGED <<mounted, content, helper, cursors, activity, queries, results, thrown,
                 overlapped, untold, crossed>>

Leaves(a) ==
  /\ activity' = [activity EXCEPT ![a] = "finishing"]
  /\ shown' = NULL

\* the shutter: start_rec() and finish()
ClickStart(a) ==
  /\ activity[a] = "alive" /\ shown # NULL
  /\ \/ NoFileName /\ thrown' = TRUE /\ UNCHANGED <<activity, shown>>
     \/ ~NoFileName /\ Leaves(a) /\ UNCHANGED thrown
  /\ UNCHANGED <<mounted, content, helper, cursors, made, cursorOf, queries, results, history>>

Back(a) ==
  /\ activity[a] = "alive"
  /\ Leaves(a)
  /\ UNCHANGED <<mounted, content, helper, cursors, made, cursorOf, queries, results,
                 thrown, history>>

\* onDestroy()
Destroy(a) ==
  /\ activity[a] = "finishing"
  /\ activity' = [activity EXCEPT ![a] = "destroyed"]
  /\ deInit
  /\ UNCHANGED <<mounted, content, adapters, thrown, history>>
-----------------------------------------------------------------------------
(* ClipsAdapter                                                            *)

Observing(d) == d \in made /\ cursorOf[d] \in open

\* Mutant: one thread at a time
ThreadsOneAtATime(d) == IF Observing(d) /\ queries[d] = 0 /\ results = {} THEN 1 ELSE queries[d]

\* onContentChanged() starts a thread
Threads(d) == IF Observing(d) THEN queries[d] + 1 ELSE queries[d]

ContentChanges ==
  /\ content < MaxChanges
  /\ content' = content + 1
  /\ queries' = [d \in Adapter |-> Threads(d)]
  /\ missed' = (missed \/ (shown # NULL /\ ~Observing(shown) /\ queries[shown] = 0))
  /\ UNCHANGED <<mounted, helper, cursors, activity, made, shown, cursorOf, results,
                 thrown, overlapped, untold, crossed>>

QueryAgain(d) ==
  /\ queries[d] > 0
  /\ queries' = [queries EXCEPT ![d] = @ - 1]
  /\ \E c \in Cursor \cup {NULL} :
       Queries(c) /\ results' = results \cup {[adapter |-> d, cursor |-> c]}
  /\ UNCHANGED <<mounted, content, helper, activity, made, shown, cursorOf, thrown, history>>

\* Mutant: the old cursor is not closed
NotClosed(old) == UNCHANGED open

Closed(old) == open' = open \ {old}

\* the Runnable posted by that thread: swapCursor(), and the old one is closed
Swap(result) ==
  LET d == result.adapter  old == cursorOf[d]  new == result.cursor
  IN  /\ results' = results \ {result}
      /\ cursorOf' = [cursorOf EXCEPT ![d] = new]
      /\ Closed(old)
      /\ crossed' = (crossed \/ new = NULL \/ (old # NULL /\ version[old] > version[new]))
  /\ UNCHANGED <<mounted, content, helper, version, activity, made, shown, queries, thrown,
                 overlapped, untold, missed>>

Next ==
  /\ ~thrown
  /\ \/ StorageChanges \/ ReceivesStorageState
     \/ \E a \in Activity : Create(a) \/ ClickStart(a) \/ Back(a) \/ Destroy(a)
     \/ \E d \in Adapter : ShowRecorderFragment(d) \/ QueryAgain(d)
     \/ ContentChanges
     \/ \E result \in results : Swap(result)

Spec == Init /\ [][Next]_vars
-----------------------------------------------------------------------------
(* Safety.                                                                 *)

\* An open cursor is in the hands of StorageHelper, of an adapter, or of a
\* thread that will give it to one: none is lost without being closed.
NoCursorLost ==
  open \subseteq {mCursor} \cup {cursorOf[d] : d \in made} \cup {r.cursor : r \in results}

\* The list on the screen reads an open cursor, or a thread is on its way to
\* replace it, although two adapters may share a cursor that either closes:
\* unless the adapter was not told of a change, by getting an old cursor or
\* by sitting on a closed one, or an activity was created before its
\* predecessor's onDestroy().
Awaits(d) == queries[d] > 0 \/ \E r \in results : r.adapter = d

ListReadsOpenCursor ==
  ~overlapped /\ ~missed /\ shown # NULL /\ cursorOf[shown] # NULL =>
    cursorOf[shown] \in open \/ Awaits(shown)

\* Once every thread has delivered, the list shows the latest clips, unless
\* results crossed or the adapter was not told of a change; an activity
\* created too early does no harm here.
ListIsCurrent ==
  ~missed /\ ~crossed /\ shown # NULL /\ ~Awaits(shown) =>
    version[cursorOf[shown]] = content

\* A click on the shutter makes a file name exactly if the storage is there:
\* what one activity was not told of, the next one finds out for itself.
\* Excepted are a change of the storage under the activity itself that has not
\* been broadcast, and an activity created before its predecessor's onDestroy():
\* there generateFileName() does throw with the storage mounted.
NameOrNoStorage ==
  Alive # {} /\ ~untold /\ ~overlapped => (NoFileName <=> ~mounted)
=============================================================================
