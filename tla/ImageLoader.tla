---------------------------- MODULE ImageLoader ----------------------------
(***************************************************************************)
(* utils/ImageLoader.java and BitmapCache.java under the recycled views of *)
(* ClipsAdapter.bindView().  AsyncTask runs tasks one at a time, in the    *)
(* order of execute(), and gives results to the main thread; a cancelled   *)
(* task is not started, and never gets as far as onPostExecute().  The     *)
(* LRU cache may drop anything.  A clip may have no thumbnail.             *)
(***************************************************************************)
EXTENDS Naturals, Sequences

CONSTANTS
  View,            \* the ImageViews of the grid
  Clip,            \* media ids
  Task,            \* BitmapWorkerTasks that can be created (a bound)
  NULL             \* no clip, no task

ASSUME LoaderAssumption == NULL \notin Clip \cup Task

VARIABLES
  bound,           \* the clip that each view was last bound to
  drawable,        \* what it shows: nothing, an AsyncDrawable or a bitmap
  clipOf, viewOf,  \* what each task is to load; NULL before it is created
  queue,           \* tasks to run, in order
  running,         \* the task in doInBackground(), or NULL
  started,         \* tasks that have assigned their field data
  finished,        \* tasks whose result waits for the main thread
  cancelled,
  cache,           \* clips in BitmapCache
  noThumbnail,     \* clips that getThumbnail() returns null for
  thrown           \* doInBackground() has thrown: the app is gone

tasks == <<clipOf, viewOf, queue, running, started, finished, cancelled>>
vars == <<bound, drawable, tasks, cache, noThumbnail, thrown>>

Nothing == [kind |-> "nothing"]
Async(t) == [kind |-> "async", task |-> t]
Bitmap(c) == [kind |-> "bitmap", clip |-> c]
Drawable == {Nothing} \cup {Async(t) : t \in Task} \cup {Bitmap(c) : c \in Clip}

TypeOK ==
  /\ bound \in [View -> Clip \cup {NULL}]
  /\ drawable \in [View -> Drawable]
  /\ clipOf \in [Task -> Clip \cup {NULL}] /\ viewOf \in [Task -> View \cup {NULL}]
  /\ queue \in Seq(Task) /\ running \in Task \cup {NULL}
  /\ started \subseteq Task /\ cancelled \subseteq Task
  /\ finished \subseteq started \ {running}
  /\ cache \subseteq Clip \ noThumbnail /\ noThumbnail \subseteq Clip
  /\ thrown \in BOOLEAN

Init ==
  /\ bound = [v \in View |-> NULL] /\ drawable = [v \in View |-> Nothing]
  /\ clipOf = [t \in Task |-> NULL] /\ viewOf = [t \in Task |-> NULL]
  /\ queue = << >> /\ running = NULL
  /\ started = {} /\ finished = {} /\ cancelled = {}
  /\ cache = {} /\ noThumbnail \in SUBSET Clip /\ thrown = FALSE
-----------------------------------------------------------------------------
(* The main thread                                                         *)

\* getBitmapWorkerTask(): the task of the view's AsyncDrawable
TaskOf(v) == IF drawable[v].kind = "async" THEN drawable[v].task ELSE NULL

\* the field data as the main thread may see it: not volatile, 0 at first
DataSeen(t) == IF t \in started THEN {clipOf[t], NULL} ELSE {NULL}

\* cancelPotentialWork() returns false: the same work is in progress
AlreadyLoading(v, c) == IF TaskOf(v) = NULL THEN {FALSE} ELSE {data = c : data \in DataSeen(TaskOf(v))}

\* loadBitmap(), of a clip in the cache
BindCached(v, c) ==
  /\ c \in cache
  /\ drawable' = [drawable EXCEPT ![v] = Bitmap(c)]
  /\ UNCHANGED tasks

\* Mutant: the task is cancelled before it is asked what it loads
BindLoadingCancelled(v, c) ==
  /\ c \notin cache /\ TRUE \in AlreadyLoading(v, c)
  /\ cancelled' = cancelled \cup {TaskOf(v)}
  /\ UNCHANGED <<drawable, clipOf, viewOf, queue, running, started, finished>>

\* loadBitmap(), while the task of the view loads the same clip
BindLoading(v, c) ==
  /\ c \notin cache /\ TRUE \in AlreadyLoading(v, c)
  /\ UNCHANGED <<drawable, tasks>>

\* loadBitmap(): the old task is cancelled, a new one executed
BindNew(v, c) ==
  /\ c \notin cache /\ FALSE \in AlreadyLoading(v, c)
  /\ cancelled' = cancelled \cup ({TaskOf(v)} \ {NULL})
  /\ \E t \in Task :
       /\ clipOf[t] = NULL
       /\ clipOf' = [clipOf EXCEPT ![t] = c] /\ viewOf' = [viewOf EXCEPT ![t] = v]
       /\ drawable' = [drawable EXCEPT ![v] = Async(t)]
       /\ queue' = Append(queue, t)
  /\ UNCHANGED <<running, started, finished>>

\* bindView(), of a view that may have shown another clip
Bind(v, c) ==
  /\ BindCached(v, c) \/ BindLoading(v, c) \/ BindNew(v, c)
  /\ bound' = [bound EXCEPT ![v] = c]
  /\ UNCHANGED <<cache, noThumbnail, thrown>>

\* Mutant: the view is not asked which task it waits for
WaitsAlways(t) == TRUE

Waits(t) == TaskOf(viewOf[t]) = t

\* onPostExecute(), or onCancelled()
PostExecute(t) ==
  /\ t \in finished
  /\ finished' = finished \ {t}
  /\ drawable' = IF t \notin cancelled /\ Waits(t)
                   THEN [drawable EXCEPT ![viewOf[t]] = Bitmap(clipOf[t])]
                   ELSE drawable
  /\ UNCHANGED <<bound, clipOf, viewOf, queue, running, started, cancelled, cache, noThumbnail, thrown>>
-----------------------------------------------------------------------------
(* The background thread                                                   *)

\* doInBackground() up to the assignment of data; a cancelled task is skipped
Run ==
  /\ running = NULL /\ queue # << >>
  /\ queue' = Tail(queue)
  /\ \/ /\ Head(queue) \notin cancelled
        /\ running' = Head(queue) /\ started' = started \cup {Head(queue)}
     \/ Head(queue) \in cancelled /\ UNCHANGED <<running, started>>
  /\ UNCHANGED <<bound, drawable, clipOf, viewOf, finished, cancelled, cache, noThumbnail, thrown>>

\* getThumbnail() and the cache, which takes no null; a cancelled task is
\* interrupted, may get null for any clip, and what it throws is lost
Load ==
  /\ running # NULL
  /\ \/ /\ clipOf[running] \notin noThumbnail
        /\ cache' = cache \cup {clipOf[running]} /\ finished' = finished \cup {running}
        /\ UNCHANGED thrown
     \/ /\ clipOf[running] \in noThumbnail \/ running \in cancelled
        /\ thrown' = (running \notin cancelled)
        /\ UNCHANGED <<cache, finished>>
  /\ running' = NULL
  /\ UNCHANGED <<bound, drawable, clipOf, viewOf, queue, started, cancelled, noThumbnail>>

\* LruCache.trimToSize()
Evict(c) ==
  /\ c \in cache
  /\ cache' = cache \ {c}
  /\ UNCHANGED <<bound, drawable, tasks, noThumbnail, thrown>>

Looper == \E t \in Task : PostExecute(t)
Background == Run \/ Load

Next ==
  /\ ~thrown
  /\ \/ \E v \in View, c \in Clip : Bind(v, c)
     \/ \E c \in Clip : Evict(c)
     \/ Looper \/ Background

Spec == Init /\ [][Next]_vars

\* the main looper and the thread of AsyncTask run; getThumbnail() returns
FairSpec ==
  /\ Spec
  /\ WF_vars(~thrown /\ Background)
  /\ \A t \in Task : WF_vars(~thrown /\ PostExecute(t))
-----------------------------------------------------------------------------
(* Safety.                                                                 *)

\* A view never shows the thumbnail of a clip it is no longer bound to,
\* however often it is recycled while tasks run and results wait.
NoWrongThumbnail == \A v \in View : drawable[v].kind = "bitmap" => drawable[v].clip = bound[v]
-----------------------------------------------------------------------------
(* Liveness.                                                               *)

\* A bound view gets its thumbnail, unless the app throws or the bound on
\* tasks is used up.
ThumbnailArrives ==
  \A v \in View : bound[v] # NULL ~> drawable[v].kind = "bitmap" \/ thrown
=============================================================================
