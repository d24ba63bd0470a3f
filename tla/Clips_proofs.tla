---------------------------- MODULE Clips_proofs ----------------------------
(***************************************************************************)
(* Safety of Clips for any number of activities, adapters, cursors and     *)
(* changes.                                                                *)
(***************************************************************************)
EXTENDS Clips, TLAPS

\* At most one activity has not finished.
OneAlive == \A a, b \in Alive : a = b

\* Only an adapter that was made has threads.
ThreadsOfMade ==
  /\ \A d \in Adapter : queries[d] > 0 => d \in made
  /\ \A r \in results : r.adapter \in made

\* mCursor is the result of a query; deInit() leaves no open one behind.
ClosedByDeInit == mCursor \notin Unused /\ (mIsInit \/ mCursor \notin open)

\* Only an overlap takes StorageHelper down under an activity.
InitializedForAlive ==
  \/ overlapped
  \/ /\ Alive # {} => Finishing = {}
     /\ Alive # {} => mIsInit
     /\ mIsInit => Alive # {} \/ Finishing # {}

\* Without an overlap every activity looks at the storage when it is created.
FlagTells == ~overlapped /\ ~untold /\ Alive # {} => mStorageAvailable = mounted

IInv ==
  /\ TypeOK /\ OneAlive /\ ThreadsOfMade /\ ClosedByDeInit /\ InitializedForAlive
  /\ NoCursorLost /\ FlagTells

LEMMA QueriesType ==
  ASSUME TypeOK, NEW c \in Cursor \cup {NULL}, Queries(c)
  PROVE  /\ version' \in [Cursor -> 0 .. MaxChanges \cup {NULL}]
         /\ open' \subseteq Cursor \ Unused'
         /\ open' \subseteq open \cup {c}
         /\ open \subseteq open'
         /\ c # NULL => c \notin open
         /\ \A k \in Cursor : k \notin open /\ k # c => k \notin open'
<1> USE ClipsAssumption
<1>1. CASE c = NULL
  BY <1>1 DEF Queries, cursors, TypeOK, Unused
<1>2. CASE c # NULL
  BY <1>2 DEF Queries, TypeOK, Unused
<1> QED
  BY <1>1, <1>2

\* Every step keeps every variable in its type.
LEMMA TypeStep ==
  ASSUME TypeOK, [Next]_vars
  PROVE  TypeOK'
<1> USE ClipsAssumption
<1>1. CASE StorageChanges
  BY <1>1 DEF StorageChanges, TypeOK, helper, cursors, adapters, history, Unused, Result
<1>2. CASE ReceivesStorageState
  BY <1>2 DEF ReceivesStorageState, TypeOK, cursors, adapters, history, Unused, Result
<1>3. ASSUME NEW a \in Activity, Create(a) PROVE TypeOK'
  <2>1. CASE mIsInit
    BY <1>3, <2>1 DEF Create, InitStorage, TypeOK, helper, cursors, adapters, Unused, Result
  <2>2. CASE ~mIsInit
    <3>1. PICK c \in Cursor \cup {NULL} : Queries(c) /\ mCursor' = IF c = NULL THEN mCursor ELSE c
      BY <1>3, <2>2 DEF Create, InitStorage
    <3> QED
      BY <1>3, <2>2, <3>1, QueriesType DEF Create, InitStorage, TypeOK, adapters, Result
  <2> QED
    BY <2>1, <2>2
<1>4. ASSUME NEW a \in Activity, ClickStart(a) PROVE TypeOK'
  BY <1>4, ZenonT(40) DEF ClickStart, Leaves, TypeOK, helper, cursors, history, Unused, Result
<1>5. ASSUME NEW a \in Activity, Back(a) PROVE TypeOK'
  BY <1>5 DEF Back, Leaves, TypeOK, helper, cursors, history, Unused, Result
<1>6. ASSUME NEW a \in Activity, Destroy(a) PROVE TypeOK'
  BY <1>6 DEF Destroy, deInit, TypeOK, adapters, history, Unused, Result
<1>7. ASSUME NEW d \in Adapter, ShowRecorderFragment(d) PROVE TypeOK'
  BY <1>7 DEF ShowRecorderFragment, TypeOK, helper, cursors, Unused, Result
<1>8. ASSUME NEW d \in Adapter, QueryAgain(d) PROVE TypeOK'
  <2>1. PICK c \in Cursor \cup {NULL} :
          Queries(c) /\ results' = results \cup {[adapter |-> d, cursor |-> c]}
    BY <1>8 DEF QueryAgain
  <2>2. results' \subseteq Result
    BY <2>1 DEF TypeOK, Result
  <2>3. queries' \in [Adapter -> 0 .. content]
    BY <1>8 DEF QueryAgain, TypeOK
  <2> QED
    BY <1>8, <2>1, <2>2, <2>3, QueriesType DEF QueryAgain, TypeOK, helper, history
<1>9. CASE ContentChanges
  <2>1. queries' \in [Adapter -> 0 .. content']
    BY <1>9 DEF ContentChanges, Threads, TypeOK
  <2> QED
    BY <1>9, <2>1 DEF ContentChanges, TypeOK, helper, cursors, Unused, Result
<1>10. ASSUME NEW result \in results, Swap(result) PROVE TypeOK'
  <2>1. result.adapter \in Adapter /\ result.cursor \in Cursor \cup {NULL}
    BY DEF TypeOK, Result
  <2>2. crossed' \in BOOLEAN
    BY <1>10 DEF Swap, TypeOK
  <2> QED
    BY <1>10, <2>1, <2>2 DEF Swap, Closed, TypeOK, helper, Unused, Result
<1>11. CASE UNCHANGED vars
  BY <1>11 DEF vars, TypeOK, helper, cursors, adapters, history, Unused, Result
<1> QED
  BY <1>1, <1>2, <1>3, <1>4, <1>5, <1>6, <1>7, <1>8, <1>9, <1>10, <1>11 DEF Next

\* Clips starts in its type.
LEMMA TypeInit == Init => TypeOK
<1> SUFFICES ASSUME Init PROVE TypeOK
  OBVIOUS
<1>1. mounted \in BOOLEAN
  BY ClipsAssumption, Zenon DEF Init
<1>2. open \subseteq Cursor \ Unused /\ shown \in made \cup {NULL} /\ results \subseteq Result
  BY DEF Init
<1>3. /\ version \in [Cursor -> 0 .. MaxChanges \cup {NULL}]
      /\ activity \in [Activity -> {"new", "alive", "finishing", "destroyed"}]
      /\ cursorOf \in [Adapter -> Cursor \cup {NULL}]
      /\ queries \in [Adapter -> 0 .. content]
  BY ClipsAssumption DEF Init
<1>4. content \in 0 .. MaxChanges /\ mCursor \in Cursor \cup {NULL} /\ made \subseteq Adapter
  BY ClipsAssumption DEF Init
<1>5. /\ mIsInit \in BOOLEAN /\ mStorageAvailable \in BOOLEAN /\ listening \in BOOLEAN
      /\ thrown \in BOOLEAN /\ overlapped \in BOOLEAN /\ untold \in BOOLEAN
      /\ missed \in BOOLEAN /\ crossed \in BOOLEAN
  BY Zenon DEF Init
<1> QED
  BY <1>1, <1>2, <1>3, <1>4, <1>5 DEF TypeOK

\* StorageHelper, the adapters and the storage keep Clips in its type.
THEOREM TypeCorrect == Spec => []TypeOK
BY TypeInit, TypeStep, PTL DEF Spec

\* A step keeps track of the activities, of the adapters with threads and of
\* whether mCursor is open.
LEMMA SupportStep ==
  ASSUME TypeOK, OneAlive, ThreadsOfMade, ClosedByDeInit, InitializedForAlive, [Next]_vars
  PROVE  OneAlive' /\ ThreadsOfMade' /\ ClosedByDeInit' /\ InitializedForAlive'
<1> USE ClipsAssumption DEF OneAlive, Alive, Finishing, Unused, ThreadsOfMade, ClosedByDeInit,
                            InitializedForAlive
<1>1. CASE StorageChanges
  BY <1>1 DEF StorageChanges, helper, cursors, adapters, history
<1>2. CASE ReceivesStorageState
  BY <1>2 DEF ReceivesStorageState, cursors, adapters, history
<1>3. ASSUME NEW a \in Activity, Create(a)
      PROVE  OneAlive' /\ ThreadsOfMade' /\ ClosedByDeInit' /\ InitializedForAlive'
  <2>1. OneAlive' /\ ThreadsOfMade'
    BY <1>3 DEF Create, adapters, TypeOK
  <2>2. mIsInit'
    BY <1>3 DEF Create, InitStorage, helper
  <2>3. mCursor' \notin Unused'
    <3>1. CASE mIsInit
      BY <1>3, <3>1 DEF Create, InitStorage, helper, cursors, Unused
    <3>2. CASE ~mIsInit
      <4>1. PICK c \in Cursor \cup {NULL} : Queries(c) /\ mCursor' = IF c = NULL THEN mCursor ELSE c
        BY <1>3, <3>2 DEF Create, InitStorage
      <4> QED
        BY <4>1 DEF Queries, cursors, Unused, TypeOK
    <3> QED
      BY <3>1, <3>2
  <2>4. InitializedForAlive'
    BY <1>3, <2>2 DEF Create, TypeOK
  <2> QED
    BY <2>1, <2>2, <2>3, <2>4
<1>4. ASSUME NEW a \in Activity, ClickStart(a) \/ Back(a)
      PROVE  OneAlive' /\ ThreadsOfMade' /\ ClosedByDeInit' /\ InitializedForAlive'
  BY <1>4 DEF ClickStart, Back, Leaves, helper, cursors, history, TypeOK
<1>6. ASSUME NEW a \in Activity, Destroy(a)
      PROVE  OneAlive' /\ ThreadsOfMade' /\ ClosedByDeInit' /\ InitializedForAlive'
  <2>1. OneAlive' /\ ThreadsOfMade'
    BY <1>6 DEF Destroy, deInit, adapters, TypeOK
  <2>2. ClosedByDeInit'
    BY <1>6 DEF Destroy, deInit, TypeOK
  <2>3. InitializedForAlive'
    BY <1>6 DEF Destroy, deInit, TypeOK, history
  <2> QED
    BY <2>1, <2>2, <2>3
<1>7. ASSUME NEW d \in Adapter, ShowRecorderFragment(d)
      PROVE  OneAlive' /\ ThreadsOfMade' /\ ClosedByDeInit' /\ InitializedForAlive'
  BY <1>7 DEF ShowRecorderFragment, helper, cursors
<1>8. ASSUME NEW d \in Adapter, QueryAgain(d)
      PROVE  OneAlive' /\ ThreadsOfMade' /\ ClosedByDeInit' /\ InitializedForAlive'
  <2>1. PICK c \in Cursor \cup {NULL} :
          Queries(c) /\ results' = results \cup {[adapter |-> d, cursor |-> c]}
    BY <1>8 DEF QueryAgain
  <2>2. ThreadsOfMade'
    BY <1>8, <2>1 DEF QueryAgain, TypeOK
  <2>3. ClosedByDeInit'
    <3>1. UNCHANGED <<mIsInit, mCursor>>
      BY <1>8 DEF QueryAgain, helper
    <3>2. mCursor # c \/ c = NULL
      BY <2>1 DEF Queries
    <3>3. mCursor \notin Unused'
      BY <2>1, <3>1 DEF Queries, cursors, Unused, TypeOK
    <3> QED
      BY <2>1, <3>1, <3>2, <3>3, QueriesType DEF TypeOK
  <2> QED
    BY <1>8, <2>2, <2>3 DEF QueryAgain, helper, history
<1>9. CASE ContentChanges
  BY <1>9 DEF ContentChanges, Threads, Observing, helper, cursors, TypeOK
<1>10. ASSUME NEW result \in results, Swap(result)
       PROVE  OneAlive' /\ ThreadsOfMade' /\ ClosedByDeInit' /\ InitializedForAlive'
  BY <1>10 DEF Swap, Closed, helper
<1>11. CASE UNCHANGED vars
  BY <1>11 DEF vars, helper, cursors, adapters, history
<1> QED
  BY <1>1, <1>2, <1>3, <1>4, <1>6, <1>7, <1>8, <1>9, <1>10, <1>11 DEF Next

\* Every step that takes an open cursor from one owner closes it or gives it to
\* another.
LEMMA OwnerStep ==
  ASSUME TypeOK, ThreadsOfMade, ClosedByDeInit, NoCursorLost, [Next]_vars
  PROVE  NoCursorLost'
<1> USE ClipsAssumption DEF NoCursorLost
<1>1. CASE UNCHANGED <<open, mCursor, cursorOf, made, results>>
  BY <1>1
<1>2. ASSUME NEW a \in Activity, Create(a) PROVE NoCursorLost'
  <2>1. CASE mIsInit
    BY <1>2, <2>1 DEF Create, InitStorage, helper, cursors, adapters
  <2>2. CASE ~mIsInit
    <3>1. PICK c \in Cursor \cup {NULL} : Queries(c) /\ mCursor' = IF c = NULL THEN mCursor ELSE c
      BY <1>2, <2>2 DEF Create, InitStorage
    <3>2. UNCHANGED <<cursorOf, made, results>>
      BY <1>2 DEF Create, adapters
    <3>3. mCursor \notin open
      BY <2>2 DEF ClosedByDeInit
    <3>4. CASE c = NULL
      BY <3>1, <3>2, <3>4 DEF Queries, cursors, Unused
    <3>5. CASE c # NULL
      <4>1. mCursor' = c /\ open' = open \cup {c}
        BY <3>1, <3>5 DEF Queries
      <4> QED
        BY <3>2, <3>3, <4>1
    <3> QED
      BY <3>4, <3>5
  <2> QED
    BY <2>1, <2>2
<1>3. ASSUME NEW a \in Activity, Destroy(a) PROVE NoCursorLost'
  BY <1>3 DEF Destroy, deInit, adapters
<1>4. ASSUME NEW d \in Adapter, ShowRecorderFragment(d) PROVE NoCursorLost'
  BY <1>4 DEF ShowRecorderFragment, helper, cursors, TypeOK
<1>5. ASSUME NEW d \in Adapter, QueryAgain(d) PROVE NoCursorLost'
  <2>1. PICK c \in Cursor \cup {NULL} :
          Queries(c) /\ results' = results \cup {[adapter |-> d, cursor |-> c]}
    BY <1>5 DEF QueryAgain
  <2>2. open' \subseteq open \cup {c}
    BY <2>1, QueriesType
  <2>3. UNCHANGED <<mCursor, cursorOf, made>>
    BY <1>5 DEF QueryAgain, helper
  <2>4. \E r \in results' : r.cursor = c
    <3> DEFINE r == [adapter |-> d, cursor |-> c]
    <3>1. r \in results' /\ r.cursor = c
      BY <2>1
    <3> QED
      BY <3>1
  <2>5. \A r \in results : r \in results'
    BY <2>1
  <2>6. SUFFICES ASSUME NEW k \in open'
                 PROVE  k \in {mCursor'} \cup {cursorOf'[x] : x \in made'}
                                \cup {r.cursor : r \in results'}
    OBVIOUS
  <2>7. CASE k = c
    BY <2>4, <2>7
  <2>8. CASE k \in open
    <3>1. k = mCursor \/ (\E x \in made : k = cursorOf[x]) \/ \E r \in results : k = r.cursor
      BY <2>8
    <3> QED
      BY <2>3, <2>5, <3>1
  <2> QED
    BY <2>2, <2>7, <2>8
<1>6. ASSUME NEW result \in results, Swap(result) PROVE NoCursorLost'
  <2>1. result.adapter \in made /\ result.adapter \in Adapter
    BY DEF ThreadsOfMade, TypeOK
  <2>2. UNCHANGED <<mCursor, made>>
    BY <1>6 DEF Swap, helper
  <2>3. open' = open \ {cursorOf[result.adapter]}
    BY <1>6 DEF Swap, Closed
  <2>4. /\ results' = results \ {result}
        /\ cursorOf' = [cursorOf EXCEPT ![result.adapter] = result.cursor]
    BY <1>6 DEF Swap
  <2>5. \A d \in made : cursorOf[d] \in open' => cursorOf'[d] = cursorOf[d]
    BY <2>1, <2>3, <2>4 DEF TypeOK
  <2>6. cursorOf'[result.adapter] = result.cursor
    BY <2>1, <2>4 DEF TypeOK
  <2>7. SUFFICES ASSUME NEW c \in open'
                 PROVE  c \in {mCursor'} \cup {cursorOf'[d] : d \in made'}
                                \cup {r.cursor : r \in results'}
    OBVIOUS
  <2>8. CASE c = mCursor
    BY <2>2, <2>8
  <2>9. CASE \E d \in made : c = cursorOf[d]
    BY <2>2, <2>5, <2>9
  <2>10. CASE \E r \in results : c = r.cursor
    BY <2>1, <2>2, <2>4, <2>6, <2>10
  <2> QED
    BY <2>3, <2>8, <2>9, <2>10
<1>7. StorageChanges \/ ReceivesStorageState \/ ContentChanges
        \/ (\E a \in Activity : ClickStart(a) \/ Back(a)) \/ UNCHANGED vars
      => UNCHANGED <<open, mCursor, cursorOf, made, results>>
  BY DEF StorageChanges, ReceivesStorageState, ContentChanges, ClickStart, Back, vars,
         helper, cursors, adapters
<1> QED
  BY <1>1, <1>2, <1>3, <1>4, <1>5, <1>6, <1>7 DEF Next

\* A storage that changes is looked at again by the next activity, because the
\* end of the one before has left StorageHelper uninitialized.
LEMMA FlagStep ==
  ASSUME TypeOK, OneAlive, InitializedForAlive, FlagTells, [Next]_vars
  PROVE  FlagTells'
<1> USE DEF FlagTells
<1>1. CASE StorageChanges
  BY <1>1 DEF StorageChanges
<1>2. CASE ReceivesStorageState
  BY <1>2 DEF ReceivesStorageState, TypeOK
<1>3. ASSUME NEW a \in Activity, Create(a) PROVE FlagTells'
  <2>1. CASE overlapped'
    BY <2>1
  <2>2. CASE ~overlapped'
    <3>1. Alive = {} /\ Finishing = {} /\ ~overlapped
      BY <1>3, <2>2 DEF Create
    <3>2. ~mIsInit
      BY <3>1 DEF InitializedForAlive
    <3> QED
      BY <1>3, <3>2 DEF Create, InitStorage
  <2> QED
    BY <2>1, <2>2
<1>4. ASSUME Alive' # {} => Alive # {},
             UNCHANGED <<mounted, mStorageAvailable, overlapped, untold>>
      PROVE  FlagTells'
  BY <1>4
<1>5. ASSUME NEW a \in Activity, ClickStart(a) \/ Back(a) \/ Destroy(a) PROVE FlagTells'
  <2>1. Alive' \subseteq Alive
    BY <1>5 DEF ClickStart, Back, Destroy, Leaves, Alive, TypeOK
  <2>2. UNCHANGED <<mounted, mStorageAvailable, overlapped, untold>>
    BY <1>5 DEF ClickStart, Back, Destroy, deInit, helper, history
  <2> QED
    BY <1>4, <2>1, <2>2
<1>6. CASE \/ \E d \in Adapter : ShowRecorderFragment(d) \/ QueryAgain(d)
           \/ ContentChanges \/ (\E result \in results : Swap(result)) \/ UNCHANGED vars
  <2>1. UNCHANGED <<activity, mounted, mStorageAvailable, overlapped, untold>>
    BY <1>6 DEF ShowRecorderFragment, QueryAgain, ContentChanges, Swap, vars, helper, history
  <2> QED
    BY <1>4, <2>1 DEF Alive
<1> QED
  BY <1>1, <1>2, <1>3, <1>5, <1>6 DEF Next

\* IInv holds at first and is kept by every step.
THEOREM Inductive == Spec => []IInv
<1>1. Init => IInv
  <2> SUFFICES ASSUME Init PROVE IInv
    OBVIOUS
  <2>1. TypeOK
    BY TypeInit
  <2>2. Alive = {} /\ Finishing = {} /\ mCursor = NULL
    BY DEF Init, Alive, Finishing
  <2> QED
    BY <2>1, <2>2, ClipsAssumption
       DEF Init, IInv, OneAlive, ThreadsOfMade, ClosedByDeInit, InitializedForAlive,
           NoCursorLost, FlagTells, Unused
<1>2. IInv /\ [Next]_vars => IInv'
  BY TypeStep, SupportStep, OwnerStep, FlagStep DEF IInv
<1> QED
  BY <1>1, <1>2, PTL DEF Spec

\* However adapters share, swap and close cursors, an open one has an owner.
THEOREM CursorsHaveOwners == Spec => []NoCursorLost
BY Inductive, PTL DEF IInv

\* A click makes a file name exactly if the storage is there, whatever happened
\* to it before the activity was created.
THEOREM NamesAreMade == Spec => []NameOrNoStorage
<1>1. IInv => NameOrNoStorage
  BY DEF IInv, InitializedForAlive, FlagTells, NameOrNoStorage, NoFileName, TypeOK
<1> QED
  BY <1>1, Inductive, PTL
-----------------------------------------------------------------------------
(***************************************************************************)
(* The list on the screen.  Adapters share no cursor but the one handed    *)
(* out by getVideoClips(): what a thread has queried goes to its adapter   *)
(* alone.  So an adapter that closes a cursor under another one has been   *)
(* told of a change, and the other one was told of it too, or was made     *)
(* later and missed it.                                                    *)
(***************************************************************************)

\* Cursors that are held have been queried, and hold what there was.
UsedHeld ==
  /\ \A d \in Adapter : cursorOf[d] \notin Unused
  /\ \A r \in results : r.cursor \notin Unused
VersionsPast == \A c \in Cursor \ Unused : version[c] \in 0 .. content

\* The cursor of a result is open and nobody else's.
ResultsOwned ==
  \A r \in results : r.cursor # NULL =>
    /\ r.cursor \in open /\ r.cursor # mCursor
    /\ \A d \in Adapter : cursorOf[d] # r.cursor
    /\ \A s \in results : s.cursor = r.cursor => s = r

Own(d) ==
  /\ cursorOf[d] # mCursor
  /\ \A e \in Adapter \ {d} : cursorOf[e] # cursorOf[d]

\* A cursor that is shared by an adapter with threads is out of date, and so
\* is the closed one StorageHelper goes on handing out.
SharedIsOld ==
  /\ \A d \in Adapter : Awaits(d) /\ cursorOf[d] # NULL => version[cursorOf[d]] # content \/ Own(d)
  /\ mCursor # NULL /\ mCursor \notin open => version[mCursor] # content

\* A fragment is on the screen of an activity that has not finished.
ShownByAlive == shown # NULL => Alive # {} /\ shown \in made

\* The list reads an open cursor that is current or that nobody else closes,
\* or a thread is on its way.
Reads(d) ==
  Awaits(d) \/ (cursorOf[d] \in open /\ (version[cursorOf[d]] = content \/ Own(d)))

ShownReads == ~overlapped /\ ~missed /\ shown # NULL /\ cursorOf[shown] # NULL => Reads(shown)

\* The list is current, or what will make it so is still to come, or a
\* failed query, which counts as a crossing.
Latest(d) ==
  /\ cursorOf[d] # NULL
  /\ \/ version[cursorOf[d]] = content
     \/ queries[d] > 0
     \/ \E r \in results : r.adapter = d /\ (r.cursor = NULL \/ version[r.cursor] = content)

LatestComes == ~missed /\ ~crossed /\ shown # NULL => Latest(shown)

LInv ==
  /\ UsedHeld /\ VersionsPast /\ ResultsOwned /\ SharedIsOld
  /\ ShownByAlive /\ ShownReads /\ LatestComes

\* A query takes a cursor that nobody holds.
LEMMA QueriesTakes ==
  ASSUME TypeOK, NEW c \in Cursor \cup {NULL}, Queries(c)
  PROVE  \/ c = NULL /\ UNCHANGED <<version, open>>
         \/ /\ c \in Unused /\ c # NULL /\ c \notin open
            /\ open' = open \cup {c}
            /\ version' = [version EXCEPT ![c] = content]
            /\ Unused' = Unused \ {c}
<1> USE ClipsAssumption
<1>1. CASE c = NULL
  BY <1>1 DEF Queries, cursors, Unused
<1>2. CASE c # NULL
  BY <1>2 DEF Queries, TypeOK, Unused
<1> QED
  BY <1>1, <1>2

\* What happens to cursors, adapters and threads in a step: nothing, a query
\* of StorageHelper, deInit(), a new adapter, a query of a thread, a change of
\* the clips, or a swap.
LEMMA CursorSteps ==
  ASSUME TypeOK, [Next]_vars
  PROVE  \/ UNCHANGED <<version, open, mCursor, content, made, cursorOf, queries, results,
                        missed, crossed>>
            /\ (UNCHANGED <<overlapped, shown, activity>> \/ (overlapped' = overlapped /\ shown' = NULL)
                \/ \E a \in Activity : Create(a))
         \/ \E a \in Activity, c \in Cursor \cup {NULL} :
              /\ Create(a) /\ Queries(c) /\ mCursor' = IF c = NULL THEN mCursor ELSE c
         \/ \E a \in Activity : Destroy(a)
         \/ \E d \in Adapter : ShowRecorderFragment(d)
         \/ \E d \in Adapter : QueryAgain(d)
         \/ ContentChanges
         \/ \E result \in results : Swap(result)
<1>1. CASE StorageChanges \/ ReceivesStorageState \/ UNCHANGED vars
  BY <1>1 DEF StorageChanges, ReceivesStorageState, vars, helper, cursors, adapters, history
<1>2. ASSUME NEW a \in Activity, ClickStart(a) \/ Back(a)
      PROVE  /\ UNCHANGED <<version, open, mCursor, content, made, cursorOf, queries, results,
                            missed, crossed, overlapped>>
             /\ UNCHANGED <<shown, activity>> \/ shown' = NULL
  BY <1>2 DEF ClickStart, Back, Leaves, helper, cursors, history
<1>3. ASSUME NEW a \in Activity, Create(a), mIsInit
      PROVE  UNCHANGED <<version, open, mCursor, content, made, cursorOf, queries, results,
                         missed, crossed>>
  BY <1>3 DEF Create, InitStorage, helper, cursors, adapters
<1>4. ASSUME NEW a \in Activity, Create(a), ~mIsInit
      PROVE  \E c \in Cursor \cup {NULL} :
               Queries(c) /\ mCursor' = IF c = NULL THEN mCursor ELSE c
  BY <1>4 DEF Create, InitStorage
<1> QED
  BY <1>1, <1>2, <1>3, <1>4 DEF Next

\* Queried cursors stay queried and none is of the future.
LEMMA HeldStep ==
  ASSUME TypeOK, ClosedByDeInit, UsedHeld, VersionsPast, [Next]_vars
  PROVE  UsedHeld' /\ VersionsPast'
<1> USE ClipsAssumption DEF UsedHeld, VersionsPast
<1>1. CASE UNCHANGED <<version, content, cursorOf, results>>
  BY <1>1 DEF Unused
<1>2. ASSUME NEW a \in Activity, NEW c \in Cursor \cup {NULL}, Create(a), Queries(c)
      PROVE  UsedHeld' /\ VersionsPast'
  <2>1. UNCHANGED <<content, cursorOf, results>>
    BY <1>2 DEF Create, adapters
  <2>2. content \in Nat
    BY DEF TypeOK
  <2> QED
    BY <1>2, <2>1, <2>2, QueriesTakes DEF TypeOK, Unused
<1>3. ASSUME NEW a \in Activity, Destroy(a) PROVE UsedHeld' /\ VersionsPast'
  BY <1>1, <1>3 DEF Destroy, deInit, adapters
<1>4. ASSUME NEW d \in Adapter, ShowRecorderFragment(d) PROVE UsedHeld' /\ VersionsPast'
  BY <1>4 DEF ShowRecorderFragment, helper, cursors, ClosedByDeInit, TypeOK, Unused
<1>5. ASSUME NEW d \in Adapter, QueryAgain(d) PROVE UsedHeld' /\ VersionsPast'
  <2>1. PICK c \in Cursor \cup {NULL} :
          Queries(c) /\ results' = results \cup {[adapter |-> d, cursor |-> c]}
    BY <1>5 DEF QueryAgain
  <2>2. UNCHANGED <<content, cursorOf>> /\ content \in Nat
    BY <1>5 DEF QueryAgain, TypeOK
  <2>3. c \notin Unused' /\ Unused' \subseteq Unused
    BY <2>1, QueriesTakes DEF Unused
  <2>4. VersionsPast'
    BY <2>1, <2>2, QueriesTakes DEF TypeOK, Unused
  <2> QED
    BY <2>1, <2>2, <2>3, <2>4
<1>6. CASE ContentChanges
  BY <1>6 DEF ContentChanges, cursors, TypeOK, Unused
<1>7. ASSUME NEW result \in results, Swap(result) PROVE UsedHeld' /\ VersionsPast'
  BY <1>7 DEF Swap, TypeOK, Unused
<1> QED
  BY <1>1, <1>2, <1>3, <1>4, <1>5, <1>6, <1>7, CursorSteps

\* A result is queried by one thread and swapped in once.
LEMMA ResultsOwnedStep ==
  ASSUME TypeOK, ThreadsOfMade, ClosedByDeInit, UsedHeld, ResultsOwned, [Next]_vars
  PROVE  ResultsOwned'
<1> USE ClipsAssumption DEF ResultsOwned
<1>1. CASE UNCHANGED <<open, mCursor, cursorOf, results>>
  BY <1>1
<1>2. ASSUME NEW a \in Activity, NEW c \in Cursor \cup {NULL}, Create(a), Queries(c),
             mCursor' = IF c = NULL THEN mCursor ELSE c
      PROVE  ResultsOwned'
  <2>1. UNCHANGED <<cursorOf, results>>
    BY <1>2 DEF Create, adapters
  <2> QED
    BY <1>2, <2>1, QueriesTakes DEF UsedHeld
<1>3. ASSUME NEW a \in Activity, Destroy(a) PROVE ResultsOwned'
  BY <1>3 DEF Destroy, deInit, adapters
<1>4. ASSUME NEW d \in Adapter, ShowRecorderFragment(d) PROVE ResultsOwned'
  BY <1>4 DEF ShowRecorderFragment, helper, cursors, TypeOK
<1>5. ASSUME NEW d \in Adapter, QueryAgain(d) PROVE ResultsOwned'
  <2>1. PICK c \in Cursor \cup {NULL} :
          Queries(c) /\ results' = results \cup {[adapter |-> d, cursor |-> c]}
    BY <1>5 DEF QueryAgain
  <2>2. UNCHANGED <<mCursor, cursorOf>>
    BY <1>5 DEF QueryAgain, helper
  <2>3. CASE c = NULL
    BY <2>1, <2>2, <2>3, QueriesTakes
  <2>4. CASE c # NULL
    <3>1. /\ c \in Unused /\ open' = open \cup {c}
          /\ c # mCursor /\ \A e \in Adapter : cursorOf[e] # c
          /\ \A r \in results : r.cursor # c
      BY <2>1, <2>4, QueriesTakes DEF UsedHeld, ClosedByDeInit
    <3> QED
      BY <2>1, <2>2, <3>1
  <2> QED
    BY <2>3, <2>4
<1>6. CASE ContentChanges
  BY <1>1, <1>6 DEF ContentChanges, helper, cursors
<1>7. ASSUME NEW result \in results, Swap(result) PROVE ResultsOwned'
  <2>1. result.adapter \in Adapter
    BY DEF TypeOK, Result
  <2>2. /\ results' = results \ {result} /\ open' = open \ {cursorOf[result.adapter]}
        /\ cursorOf' = [cursorOf EXCEPT ![result.adapter] = result.cursor]
        /\ UNCHANGED mCursor
    BY <1>7 DEF Swap, Closed, helper
  <2> QED
    BY <2>1, <2>2 DEF TypeOK
<1> QED
  BY <1>1, <1>2, <1>3, <1>4, <1>5, <1>6, <1>7, CursorSteps

\* What an adapter has of its own stays its own, while it has it.
LEMMA OwnStays ==
  ASSUME TypeOK, ClosedByDeInit, UsedHeld, ResultsOwned, [Next]_vars,
         NEW d \in Adapter, Own(d), cursorOf[d] # NULL, cursorOf'[d] = cursorOf[d]
  PROVE  Own(d)'
<1> USE ClipsAssumption DEF Own
<1>1. CASE UNCHANGED <<mCursor, cursorOf>>
  BY <1>1
<1>2. ASSUME NEW a \in Activity, NEW c \in Cursor \cup {NULL}, Create(a), Queries(c),
             mCursor' = IF c = NULL THEN mCursor ELSE c
      PROVE  Own(d)'
  BY <1>2, QueriesTakes DEF Create, adapters, UsedHeld
<1>3. ASSUME NEW a \in Activity, Destroy(a) PROVE Own(d)'
  BY <1>3 DEF Destroy, deInit, adapters
<1>4. ASSUME NEW e \in Adapter, ShowRecorderFragment(e) PROVE Own(d)'
  BY <1>4 DEF ShowRecorderFragment, helper, TypeOK
<1>5. CASE ContentChanges \/ \E e \in Adapter : QueryAgain(e)
  BY <1>1, <1>5 DEF ContentChanges, QueryAgain, helper
<1>6. ASSUME NEW result \in results, Swap(result) PROVE Own(d)'
  <2>1. cursorOf' = [cursorOf EXCEPT ![result.adapter] = result.cursor] /\ UNCHANGED mCursor
    BY <1>6 DEF Swap, helper
  <2> QED
    BY <2>1 DEF TypeOK, ResultsOwned
<1> QED
  BY <1>1, <1>2, <1>3, <1>4, <1>5, <1>6, CursorSteps

\* What a cursor holds is settled when it is queried.
LEMMA VersionStays ==
  ASSUME TypeOK, [Next]_vars, NEW c \in Cursor \ Unused
  PROVE  version'[c] = version[c] /\ c \notin Unused'
<1> USE ClipsAssumption
<1>1. CASE UNCHANGED version
  BY <1>1 DEF Unused
<1>2. ASSUME NEW x \in Cursor \cup {NULL}, Queries(x) PROVE version'[c] = version[c] /\ c \notin Unused'
  BY <1>2, QueriesTakes DEF TypeOK, Unused
<1>3. ASSUME NEW d \in Adapter, QueryAgain(d) PROVE version'[c] = version[c] /\ c \notin Unused'
  BY <1>2, <1>3 DEF QueryAgain
<1>4. CASE ContentChanges \/ (\E a \in Activity : Destroy(a)) \/ \E d \in Adapter : ShowRecorderFragment(d)
  BY <1>1, <1>4 DEF ContentChanges, Destroy, deInit, ShowRecorderFragment, cursors
<1>5. ASSUME NEW result \in results, Swap(result) PROVE UNCHANGED version
  BY <1>5 DEF Swap
<1> QED
  BY <1>1, <1>2, <1>3, <1>4, <1>5, CursorSteps

\* Only a change of the clips gives an adapter its first thread.
LEMMA AwaitsBefore ==
  ASSUME TypeOK, [Next]_vars, ~ContentChanges, NEW d \in Adapter, Awaits(d)'
  PROVE  Awaits(d)
<1> USE DEF Awaits
<1>1. CASE UNCHANGED <<queries, results>>
  BY <1>1
<1>2. CASE \/ \E a \in Activity : Create(a) \/ Destroy(a)
           \/ \E e \in Adapter : ShowRecorderFragment(e)
  BY <1>1, <1>2 DEF Create, Destroy, ShowRecorderFragment, adapters
<1>3. ASSUME NEW e \in Adapter, QueryAgain(e) PROVE Awaits(d)
  <2>1. PICK c \in Cursor \cup {NULL} : results' = results \cup {[adapter |-> e, cursor |-> c]}
    BY <1>3 DEF QueryAgain
  <2>2. queries[e] > 0 /\ \A x \in Adapter \ {e} : queries'[x] = queries[x]
    BY <1>3 DEF QueryAgain, TypeOK
  <2> QED
    BY <2>1, <2>2
<1>4. ASSUME NEW result \in results, Swap(result) PROVE Awaits(d)
  BY <1>4 DEF Swap
<1> QED
  BY <1>1, <1>2, <1>3, <1>4, CursorSteps

\* An adapter that shares its cursor with StorageHelper or another one is
\* told of a change together with it.
LEMMA SharedIsOldStep ==
  ASSUME TypeOK, ThreadsOfMade, ClosedByDeInit, UsedHeld, VersionsPast, ResultsOwned, SharedIsOld,
         [Next]_vars
  PROVE  SharedIsOld'
<1> USE ClipsAssumption DEF SharedIsOld
<1>1. ASSUME NEW d \in Adapter, Awaits(d)', cursorOf'[d] # NULL
      PROVE  version'[cursorOf'[d]] # content' \/ Own(d)'
  <2>1. cursorOf[d] \in (Cursor \ Unused) \cup {NULL}
    BY DEF UsedHeld, TypeOK
  <2>2. CASE ContentChanges
    <3>1. UNCHANGED <<cursorOf, version>> /\ content' = content + 1 /\ content \in Nat
      BY <2>2 DEF ContentChanges, cursors, TypeOK
    <3>2. version[cursorOf[d]] \in 0 .. content
      BY <1>1, <2>1, <3>1 DEF VersionsPast
    <3> QED
      BY <3>1, <3>2
  <2>3. CASE ~ContentChanges /\ content' = content /\ cursorOf'[d] = cursorOf[d]
    <3>1. Awaits(d) /\ version'[cursorOf[d]] = version[cursorOf[d]]
      BY <1>1, <2>1, <2>3, AwaitsBefore, VersionStays
    <3> QED
      BY <1>1, <2>3, <3>1, OwnStays
  <2>4. ASSUME NEW e \in Adapter, ShowRecorderFragment(e)
        PROVE  ~ContentChanges /\ content' = content /\ cursorOf'[d] = cursorOf[d]
    <3>1. ~ContentChanges
      BY <2>4 DEF ShowRecorderFragment, ContentChanges, TypeOK
    <3>2. d \in made
      BY <1>1, <3>1, AwaitsBefore DEF Awaits, ThreadsOfMade, TypeOK
    <3> QED
      BY <2>4, <3>1, <3>2 DEF ShowRecorderFragment, TypeOK
  <2>5. ASSUME NEW result \in results, Swap(result)
        PROVE  \/ ~ContentChanges /\ content' = content /\ cursorOf'[d] = cursorOf[d]
               \/ Own(d)'
    <3>1. /\ cursorOf' = [cursorOf EXCEPT ![result.adapter] = result.cursor]
          /\ UNCHANGED <<mCursor, content>>
      BY <2>5 DEF Swap, helper
    <3>2. ~ContentChanges
      BY <3>1 DEF ContentChanges, TypeOK
    <3>3. CASE d = result.adapter
      BY <1>1, <3>1, <3>3 DEF Own, ResultsOwned, TypeOK
    <3>4. CASE d # result.adapter
      BY <3>1, <3>2, <3>4 DEF TypeOK
    <3> QED
      BY <3>3, <3>4
  <2>6. CASE UNCHANGED <<content, cursorOf>>
    <3>1. ~ContentChanges
      BY <2>6 DEF ContentChanges, TypeOK
    <3> QED
      BY <2>3, <2>6, <3>1
  <2>7. CASE (\E a \in Activity : Create(a) \/ Destroy(a)) \/ \E e \in Adapter : QueryAgain(e)
    BY <2>6, <2>7 DEF Create, Destroy, QueryAgain, adapters
  <2> QED
    BY <2>2, <2>3, <2>4, <2>5, <2>6, <2>7, CursorSteps
<1>2. ASSUME mCursor' # NULL, mCursor' \notin open' PROVE version'[mCursor'] # content'
  <2>1. mCursor \in (Cursor \ Unused) \cup {NULL}
    BY DEF ClosedByDeInit, TypeOK
  <2>2. CASE UNCHANGED <<mCursor, content>> /\ open \subseteq open'
    BY <1>2, <2>1, <2>2, VersionStays
  <2>3. ASSUME NEW a \in Activity, NEW c \in Cursor \cup {NULL}, Create(a), Queries(c),
               mCursor' = IF c = NULL THEN mCursor ELSE c
        PROVE  UNCHANGED <<mCursor, content>> /\ open \subseteq open'
    BY <1>2, <2>3, QueriesTakes DEF Create
  <2>4. ASSUME NEW a \in Activity, Destroy(a)
        PROVE  UNCHANGED <<mCursor, content>> /\ open \subseteq open'
    BY <1>2, <2>4 DEF Destroy, deInit
  <2>5. ASSUME NEW d \in Adapter, QueryAgain(d)
        PROVE  UNCHANGED <<mCursor, content>> /\ open \subseteq open'
    BY <2>5, QueriesType DEF QueryAgain, helper
  <2>6. ASSUME NEW d \in Adapter, ShowRecorderFragment(d)
        PROVE  UNCHANGED <<mCursor, content>> /\ open \subseteq open'
    BY <2>6 DEF ShowRecorderFragment, helper, cursors
  <2>7. CASE ContentChanges
    <3>1. UNCHANGED <<mCursor, version>> /\ content' = content + 1 /\ content \in Nat
      BY <2>7 DEF ContentChanges, helper, cursors, TypeOK
    <3>2. version[mCursor] \in 0 .. content
      BY <1>2, <2>1, <3>1 DEF VersionsPast
    <3> QED
      BY <3>1, <3>2
  <2>8. ASSUME NEW result \in results, Swap(result) PROVE version'[mCursor'] # content'
    <3> DEFINE d == result.adapter
    <3>1. d \in Adapter /\ Awaits(d)
      BY DEF Awaits, TypeOK, Result
    <3>2. UNCHANGED <<mCursor, content, version>> /\ open' = open \ {cursorOf[d]}
      BY <2>8 DEF Swap, Closed, helper
    <3>3. CASE mCursor = cursorOf[d]
      BY <1>2, <3>1, <3>2, <3>3 DEF Own
    <3>4. CASE mCursor # cursorOf[d]
      BY <1>2, <3>2, <3>4
    <3> QED
      BY <3>3, <3>4
  <2>9. CASE UNCHANGED <<open, mCursor, content>>
    BY <2>2, <2>9
  <2> QED
    BY <2>2, <2>3, <2>4, <2>5, <2>6, <2>7, <2>8, <2>9, CursorSteps
<1> QED
  BY <1>1, <1>2

\* Only an activity that has not finished shows a new fragment, and none is
\* left by one that finishes.
LEMMA ShownByAliveStep ==
  ASSUME TypeOK, ShownByAlive, [Next]_vars
  PROVE  ShownByAlive'
<1> USE ClipsAssumption DEF ShownByAlive, Alive, TypeOK
<1>1. CASE UNCHANGED <<activity, made, shown>>
  BY <1>1
<1>2. CASE StorageChanges \/ ReceivesStorageState \/ UNCHANGED vars
  BY <1>1, <1>2 DEF StorageChanges, ReceivesStorageState, adapters, vars
<1>3. ASSUME NEW a \in Activity, Create(a) \/ Destroy(a) PROVE ShownByAlive'
  BY <1>3 DEF Create, Destroy, adapters
<1>4. ASSUME NEW a \in Activity, ClickStart(a) \/ Back(a) PROVE ShownByAlive'
  BY <1>1, <1>4 DEF ClickStart, Back, Leaves
<1>5. ASSUME NEW d \in Adapter, ShowRecorderFragment(d) PROVE ShownByAlive'
  BY <1>5 DEF ShowRecorderFragment
<1>6. CASE ContentChanges \/ \E d \in Adapter : QueryAgain(d)
  BY <1>1, <1>6 DEF ContentChanges, QueryAgain
<1>7. ASSUME NEW result \in results, Swap(result) PROVE ShownByAlive'
  BY <1>1, <1>7 DEF Swap
<1> QED
  BY <1>2, <1>3, <1>4, <1>5, <1>6, <1>7 DEF Next

\* Whoever closes the cursor of the list sends a new one or was told of a
\* change together with it.
LEMMA ShownReadsStep ==
  ASSUME IInv, UsedHeld, VersionsPast, ResultsOwned, SharedIsOld, ShownByAlive, ShownReads,
         [Next]_vars, ~overlapped', ~missed', NEW s \in Adapter, shown' = s, cursorOf'[s] # NULL
  PROVE  Reads(s)'
<1> USE ClipsAssumption DEF IInv, Reads
<1>1. s # NULL /\ cursorOf[s] \in (Cursor \ Unused) \cup {NULL}
  BY DEF UsedHeld, TypeOK
<1>2. ASSUME ~overlapped, ~missed, shown = s, cursorOf'[s] = cursorOf[s],
             content' = content, Awaits(s) => Awaits(s)',
             ~Awaits(s) /\ cursorOf[s] \in open => cursorOf[s] \in open'
      PROVE  Reads(s)'
  <2>1. CASE Awaits(s)
    BY <1>2, <2>1
  <2>2. CASE ~Awaits(s)
    <3>1. cursorOf[s] \in open' /\ (version[cursorOf[s]] = content \/ Own(s))
      BY <1>2, <2>2 DEF ShownReads
    <3>2. version'[cursorOf[s]] = version[cursorOf[s]]
      BY <1>1, <1>2, VersionStays
    <3>3. Own(s) => Own(s)'
      BY <1>1, <1>2, OwnStays
    <3> QED
      BY <1>2, <3>1, <3>2, <3>3
  <2> QED
    BY <2>1, <2>2
<1>3. CASE UNCHANGED <<version, open, mCursor, content, made, cursorOf, queries, results, missed, crossed>>
           /\ (UNCHANGED <<overlapped, shown, activity>> \/ (overlapped' = overlapped /\ shown' = NULL)
                \/ \E a \in Activity : Create(a))
  <2>1. ~overlapped /\ shown = s
    <3>1. ASSUME NEW a \in Activity, Create(a) PROVE ~overlapped /\ shown = s
      BY <3>1 DEF Create, adapters
    <3> QED
      BY <1>1, <1>3, <3>1
  <2>2. Awaits(s) => Awaits(s)'
    BY <1>3 DEF Awaits
  <2>3. ~missed /\ content' = content /\ cursorOf'[s] = cursorOf[s] /\ open' = open
    BY <1>3
  <2> QED
    BY <1>2, <2>1, <2>2, <2>3
<1>4. ASSUME NEW a \in Activity, NEW c \in Cursor \cup {NULL}, Create(a), Queries(c)
      PROVE  Reads(s)'
  <2>1. ~overlapped /\ ~missed /\ shown = s /\ UNCHANGED <<content, adapters>>
    BY <1>4 DEF Create, adapters
  <2> QED
    BY <1>2, <1>4, <2>1, QueriesType DEF Awaits, adapters
<1>5. ASSUME NEW a \in Activity, Destroy(a) PROVE FALSE
  <2>1. ~overlapped /\ shown # NULL /\ Finishing # {}
    BY <1>1, <1>5 DEF Destroy, Finishing, history, adapters
  <2> QED
    BY <2>1 DEF ShownByAlive, InitializedForAlive
<1>6. ASSUME NEW d \in Adapter, ShowRecorderFragment(d) PROVE Reads(s)'
  <2>1. /\ ~overlapped /\ ~missed /\ mCursor # NULL /\ version[mCursor] = content
        /\ UNCHANGED <<content, version, open, queries, results>>
        /\ cursorOf' = [cursorOf EXCEPT ![d] = mCursor]
    BY <1>6 DEF ShowRecorderFragment, cursors
  <2>2. CASE s = d
    <3>1. cursorOf'[d] = mCursor /\ mCursor \in open
      BY <2>1 DEF SharedIsOld, TypeOK
    <3> QED
      BY <2>1, <2>2, <3>1
  <2>3. CASE shown = s
    <3>1. shown # d
      BY <1>6, <2>3 DEF ShownByAlive, ShowRecorderFragment
    <3>2. cursorOf'[s] = cursorOf[s]
      BY <2>1, <2>3, <3>1 DEF TypeOK
    <3>3. Awaits(s) => Awaits(s)'
      BY <2>1 DEF Awaits
    <3> QED
      BY <1>2, <2>1, <2>3, <3>2, <3>3
  <2> QED
    BY <1>6, <2>2, <2>3 DEF ShowRecorderFragment
<1>7. ASSUME NEW d \in Adapter, QueryAgain(d) PROVE Reads(s)'
  <2>1. PICK c \in Cursor \cup {NULL} :
          Queries(c) /\ results' = results \cup {[adapter |-> d, cursor |-> c]}
    BY <1>7 DEF QueryAgain
  <2>2. /\ queries' = [queries EXCEPT ![d] = @ - 1]
        /\ UNCHANGED <<overlapped, missed, cursorOf, content>> /\ shown = s
    BY <1>7 DEF QueryAgain, history
  <2>3. ASSUME Awaits(s) PROVE Awaits(s)'
    <3>1. CASE s = d
      <4>1. [adapter |-> d, cursor |-> c] \in results' /\ [adapter |-> d, cursor |-> c].adapter = d
        BY <2>1
      <4> QED
        BY <2>2, <3>1, <4>1 DEF Awaits
    <3>2. CASE s # d
      BY <1>1, <2>1, <2>2, <2>3, <3>2 DEF Awaits, TypeOK
    <3> QED
      BY <3>1, <3>2
  <2>4. open \subseteq open'
    BY <2>1, QueriesType
  <2> QED
    BY <1>2, <2>2, <2>3, <2>4
<1>8. CASE ContentChanges
  <2>1. /\ shown = s
        /\ Observing(s) \/ queries[s] # 0
        /\ queries' = [e \in Adapter |-> Threads(e)]
    BY <1>1, <1>8 DEF ContentChanges
  <2>2. queries[s] \in Nat
    BY <2>1 DEF TypeOK
  <2>3. queries'[s] > 0
    BY <2>1, <2>2 DEF Threads
  <2> QED
    BY <2>1, <2>3 DEF Awaits
<1>9. ASSUME NEW result \in results, Swap(result) PROVE Reads(s)'
  <2> DEFINE d == result.adapter
  <2>1. /\ results' = results \ {result} /\ open' = open \ {cursorOf[d]}
        /\ cursorOf' = [cursorOf EXCEPT ![d] = result.cursor]
        /\ UNCHANGED <<overlapped, missed, mCursor, content, queries>> /\ shown = s
    BY <1>9 DEF Swap, Closed, helper
  <2>2. d \in Adapter
    BY <1>1, <2>1 DEF TypeOK, Result
  <2>3. CASE d = s
    <3>1. /\ cursorOf'[s] = result.cursor /\ result.cursor # NULL
          /\ \A e \in Adapter \ {d} : cursorOf'[e] = cursorOf[e]
      BY <2>1, <2>2, <2>3 DEF TypeOK
    <3>2. result.cursor \in open'
      BY <2>1, <2>2, <3>1 DEF ResultsOwned
    <3>3. Own(s)'
      BY <2>1, <2>2, <2>3, <3>1 DEF Own, ResultsOwned
    <3> QED
      BY <2>1, <3>1, <3>2, <3>3
  <2>4. CASE d # s
    <3>1. cursorOf'[s] = cursorOf[s]
      BY <2>1, <2>2, <2>4 DEF TypeOK
    <3>2. Awaits(s) => Awaits(s)'
      BY <2>1, <2>4 DEF Awaits
    <3>3. ASSUME ~Awaits(s), cursorOf[s] = cursorOf[d] PROVE FALSE
      <4>1. version[cursorOf[s]] = content \/ Own(s)
        BY <2>1, <3>1, <3>3 DEF ShownReads
      <4>2. ~Own(s) /\ ~Own(d)
        BY <2>2, <2>4, <3>3 DEF Own
      <4>3. Awaits(d)
        BY DEF Awaits
      <4> QED
        BY <2>1, <2>2, <3>1, <3>3, <4>1, <4>2, <4>3 DEF SharedIsOld
    <3> QED
      BY <1>2, <2>1, <3>1, <3>2, <3>3
  <2> QED
    BY <2>3, <2>4
<1> QED
  BY <1>3, <1>4, <1>5, <1>6, <1>7, <1>8, <1>9, CursorSteps

\* The thread of the latest change brings what the list is to show; whatever
\* is swapped in after it without crossing is as recent.
LEMMA LatestComesStep ==
  ASSUME IInv, UsedHeld, VersionsPast, ShownByAlive, LatestComes,
         [Next]_vars, ~missed', ~crossed', NEW s \in Adapter, shown' = s
  PROVE  Latest(s)'
<1> USE ClipsAssumption DEF IInv
<1>1. s # NULL /\ cursorOf[s] \in (Cursor \ Unused) \cup {NULL}
  BY DEF UsedHeld, TypeOK
<1>2. \A r \in results : r.cursor \in (Cursor \ Unused) \cup {NULL}
  BY DEF UsedHeld, TypeOK, Result
<1>3. ASSUME ~missed, ~crossed, shown = s, cursorOf'[s] = cursorOf[s], content' = content,
             queries'[s] = queries[s], \A r \in results : r.adapter = s => r \in results'
      PROVE  Latest(s)'
  <2>1. Latest(s) /\ cursorOf[s] # NULL
    BY <1>1, <1>3 DEF LatestComes, Latest
  <2>2. version'[cursorOf[s]] = version[cursorOf[s]]
    BY <1>1, <2>1, VersionStays
  <2>3. CASE version[cursorOf[s]] = content \/ queries[s] > 0
    BY <1>3, <2>1, <2>2, <2>3 DEF Latest
  <2>4. ASSUME NEW r \in results, r.adapter = s, r.cursor = NULL \/ version[r.cursor] = content
        PROVE  Latest(s)'
    <3>1. r \in results' /\ (r.cursor = NULL \/ version'[r.cursor] = content')
      BY <1>2, <1>3, <2>4, VersionStays
    <3> QED
      BY <1>3, <2>1, <2>4, <3>1 DEF Latest
  <2> QED
    BY <2>1, <2>3, <2>4 DEF Latest
<1>4. CASE /\ UNCHANGED <<content, cursorOf, queries, results, missed, crossed>>
           /\ shown = s
  BY <1>3, <1>4
<1>5. CASE UNCHANGED <<version, open, mCursor, content, made, cursorOf, queries, results, missed, crossed>>
           /\ (UNCHANGED <<overlapped, shown, activity>> \/ (overlapped' = overlapped /\ shown' = NULL)
                \/ \E a \in Activity : Create(a))
  <2>1. ASSUME NEW a \in Activity, Create(a) PROVE shown = s
    BY <2>1 DEF Create, adapters
  <2>2. shown = s
    BY <1>1, <1>5, <2>1
  <2> QED
    BY <1>4, <1>5, <2>2
<1>6. ASSUME NEW a \in Activity, Create(a) \/ Destroy(a) PROVE Latest(s)'
  BY <1>4, <1>6 DEF Create, Destroy, adapters, history
<1>7. ASSUME NEW d \in Adapter, ShowRecorderFragment(d) PROVE Latest(s)'
  <2>1. /\ ~missed /\ ~crossed /\ mCursor # NULL /\ version[mCursor] = content
        /\ UNCHANGED <<content, version, queries, results>>
        /\ cursorOf' = [cursorOf EXCEPT ![d] = mCursor]
    BY <1>7 DEF ShowRecorderFragment, cursors
  <2>2. CASE s = d
    <3>1. cursorOf'[s] = mCursor
      BY <2>1, <2>2 DEF TypeOK
    <3> QED
      BY <2>1, <3>1 DEF Latest
  <2>3. CASE shown = s
    <3>1. s # d
      BY <1>1, <1>7, <2>3 DEF ShownByAlive, ShowRecorderFragment
    <3>2. cursorOf'[s] = cursorOf[s]
      BY <2>1, <3>1 DEF TypeOK
    <3> QED
      BY <1>3, <2>1, <2>3, <3>2
  <2> QED
    BY <1>7, <2>2, <2>3 DEF ShowRecorderFragment
<1>8. ASSUME NEW d \in Adapter, QueryAgain(d) PROVE Latest(s)'
  <2>1. PICK c \in Cursor \cup {NULL} :
          Queries(c) /\ results' = results \cup {[adapter |-> d, cursor |-> c]}
    BY <1>8 DEF QueryAgain
  <2>2. /\ queries' = [queries EXCEPT ![d] = @ - 1]
        /\ UNCHANGED <<missed, crossed, cursorOf, content>> /\ shown = s
    BY <1>8 DEF QueryAgain, history
  <2>3. CASE d = s
    <3> DEFINE r == [adapter |-> d, cursor |-> c]
    <3>1. r \in results' /\ r.adapter = s /\ r.cursor = c
      BY <2>1, <2>3
    <3>2. c = NULL \/ version'[c] = content'
      BY <2>1, <2>2, QueriesTakes DEF TypeOK
    <3>3. cursorOf'[s] # NULL
      BY <1>1, <2>2 DEF LatestComes, Latest
    <3> HIDE DEF r
    <3> QED
      BY <3>1, <3>2, <3>3 DEF Latest
  <2>4. CASE d # s
    <3>1. queries'[s] = queries[s]
      BY <2>2, <2>4 DEF TypeOK
    <3> QED
      BY <1>3, <2>1, <2>2, <3>1
  <2> QED
    BY <2>3, <2>4
<1>9. CASE ContentChanges
  <2>1. /\ shown = s /\ ~missed /\ ~crossed /\ UNCHANGED cursorOf
        /\ Observing(s) \/ queries[s] # 0
        /\ queries' = [e \in Adapter |-> Threads(e)]
    BY <1>1, <1>9 DEF ContentChanges
  <2>2. queries[s] \in Nat
    BY DEF TypeOK
  <2>3. queries'[s] > 0 /\ cursorOf'[s] # NULL
    BY <1>1, <2>1, <2>2 DEF Threads, LatestComes, Latest
  <2> QED
    BY <2>3 DEF Latest
<1>10. ASSUME NEW result \in results, Swap(result) PROVE Latest(s)'
  <2> DEFINE d == result.adapter  old == cursorOf[d]  new == result.cursor
  <2>1. /\ results' = results \ {result}
        /\ cursorOf' = [cursorOf EXCEPT ![d] = new]
        /\ ~missed /\ ~crossed /\ new # NULL /\ ~(old # NULL /\ version[old] > version[new])
        /\ UNCHANGED <<content, queries, version>> /\ shown = s
    BY <1>10 DEF Swap, helper
  <2>2. d \in Adapter
    BY DEF TypeOK, Result
  <2>3. CASE d # s
    <3>1. cursorOf'[s] = cursorOf[s] /\ \A r \in results : r.adapter = s => r \in results'
      BY <2>1, <2>2, <2>3 DEF TypeOK
    <3> QED
      BY <1>3, <2>1, <3>1
  <2>4. CASE d = s
    <3>1. cursorOf'[s] = new /\ old # NULL /\ Latest(s)
      BY <1>1, <2>1, <2>2, <2>4 DEF LatestComes, Latest, TypeOK
    <3>2. version[old] \in 0 .. content /\ version[new] \in 0 .. content /\ content \in Nat
      BY <1>1, <1>2, <2>1, <2>4, <3>1 DEF VersionsPast, TypeOK
    <3>3. CASE version[old] = content
      BY <2>1, <3>1, <3>2, <3>3 DEF Latest
    <3>4. CASE queries[s] > 0
      BY <2>1, <3>1, <3>4 DEF Latest
    <3>5. ASSUME NEW r \in results, r.adapter = s, r.cursor = NULL \/ version[r.cursor] = content
          PROVE  Latest(s)'
      <4>1. CASE r = result
        BY <2>1, <3>1, <3>5, <4>1 DEF Latest
      <4>2. CASE r # result
        BY <2>1, <3>1, <3>5, <4>2 DEF Latest
      <4> QED
        BY <4>1, <4>2
    <3> QED
      BY <2>4, <3>1, <3>3, <3>4, <3>5 DEF Latest
  <2> QED
    BY <2>3, <2>4
<1> QED
  BY <1>5, <1>6, <1>7, <1>8, <1>9, <1>10, CursorSteps

\* What the list rests on is kept together with the ownership of cursors.
THEOREM ListInductive == Spec => [](IInv /\ LInv)
<1>1. Init => LInv
  <2> SUFFICES ASSUME Init PROVE LInv
    OBVIOUS
  <2>1. /\ results = {} /\ mCursor = NULL /\ shown = NULL /\ Unused = Cursor
        /\ \A d \in Adapter : cursorOf[d] = NULL /\ queries[d] = 0
    BY DEF Init, Unused
  <2> QED
    BY <2>1, ClipsAssumption DEF LInv, UsedHeld, VersionsPast, ResultsOwned, SharedIsOld, Awaits,
       ShownByAlive, ShownReads, LatestComes, Unused
<1>2. IInv /\ LInv /\ [Next]_vars => LInv'
  <2> SUFFICES ASSUME IInv, LInv, [Next]_vars PROVE LInv'
    OBVIOUS
  <2> USE DEF LInv
  <2>1. UsedHeld' /\ VersionsPast' /\ ResultsOwned' /\ SharedIsOld' /\ ShownByAlive'
    BY HeldStep, ResultsOwnedStep, SharedIsOldStep, ShownByAliveStep DEF IInv
  <2>2. ASSUME shown' # NULL PROVE shown' \in Adapter
    BY <2>2, TypeStep DEF IInv, TypeOK
  <2>3. ShownReads'
    BY <2>2, ShownReadsStep DEF ShownReads
  <2>4. LatestComes'
    BY <2>2, LatestComesStep DEF LatestComes
  <2> QED
    BY <2>1, <2>3, <2>4
<1> QED
  BY <1>1, <1>2, Inductive, PTL DEF Spec

\* The list on the screen reads an open cursor, or a thread of ClipsAdapter is
\* on its way to replace it, for any number of adapters that share cursors.
THEOREM ListReads == Spec => []ListReadsOpenCursor
<1>1. LInv => ListReadsOpenCursor
  BY DEF LInv, ShownReads, Reads, ListReadsOpenCursor
<1> QED
  BY <1>1, ListInductive, PTL

\* When the threads of ClipsAdapter have delivered, and none late, the list
\* shows the latest clips, for any number of changes.
THEOREM ListCatchesUp == Spec => []ListIsCurrent
<1>1. LInv => ListIsCurrent
  BY DEF LInv, LatestComes, Latest, Awaits, ListIsCurrent
<1> QED
  BY <1>1, ListInductive, PTL
=============================================================================
