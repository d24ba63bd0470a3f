------------------------- MODULE ImageLoader_proofs -------------------------
(***************************************************************************)
(* Recycled views never show a wrong thumbnail, for any number of views,   *)
(* clips and tasks.                                                        *)
(***************************************************************************)
EXTENDS ImageLoader, TLAPS

\* The task that a view waits for loads the clip the view is bound to.
WaitsForBound ==
  \A v \in View : drawable[v].kind = "async" =>
    /\ drawable[v].task \in Task
    /\ clipOf[drawable[v].task] = bound[v] /\ bound[v] \in Clip
    /\ viewOf[drawable[v].task] = v

\* What the safety proof needs of the types.
Types ==
  /\ bound \in [View -> Clip \cup {NULL}]
  /\ drawable \in [View -> Drawable]
  /\ clipOf \in [Task -> Clip \cup {NULL}] /\ viewOf \in [Task -> View \cup {NULL}]

IInv == Types /\ WaitsForBound /\ NoWrongThumbnail

LEMMA Kinds ==
  /\ Nothing.kind = "nothing" /\ Nothing \in Drawable
  /\ \A t \in Task : Async(t).kind = "async" /\ Async(t).task = t /\ Async(t) \in Drawable
  /\ \A c \in Clip : Bitmap(c).kind = "bitmap" /\ Bitmap(c).clip = c /\ Bitmap(c) \in Drawable
BY DEF Nothing, Async, Bitmap, Drawable

\* IInv holds at first and is kept by the main thread and by the tasks.
THEOREM Inductive == Spec => []IInv
<1> USE LoaderAssumption DEF IInv, Types, WaitsForBound, NoWrongThumbnail
<1>1. Init => IInv
  BY Kinds DEF Init
<1>2. ASSUME IInv, [Next]_vars PROVE IInv'
  <2> USE <1>2
  <2>1. ASSUME NEW v \in View, NEW c \in Clip, Bind(v, c) PROVE IInv'
    <3>1. bound' = [bound EXCEPT ![v] = c]
      BY <2>1 DEF Bind
    <3>2. CASE BindCached(v, c)
      <4>1. drawable' = [drawable EXCEPT ![v] = Bitmap(c)] /\ UNCHANGED <<clipOf, viewOf>>
        BY <3>2 DEF BindCached, tasks
      <4> QED
        BY <3>1, <4>1, Kinds
    <3>3. CASE BindLoading(v, c)
      <4>1. UNCHANGED <<drawable, clipOf, viewOf>>
        BY <3>3 DEF BindLoading, tasks
      <4>2. drawable[v].kind = "async" /\ clipOf[drawable[v].task] = c
        <5>1. TaskOf(v) # NULL
          BY <3>3, Zenon DEF BindLoading, AlreadyLoading
        <5>2. drawable[v].kind = "async" /\ TaskOf(v) = drawable[v].task
          BY <5>1, Zenon DEF TaskOf
        <5>3. PICK data \in DataSeen(TaskOf(v)) : data = c
          BY <3>3, <5>1, ZenonT(40) DEF BindLoading, AlreadyLoading
        <5>4. c = clipOf[TaskOf(v)] \/ c = NULL
          BY <5>3, Zenon DEF DataSeen
        <5> QED
          BY <5>2, <5>4
      <4> QED
        BY <3>1, <4>1, <4>2
    <3>4. CASE BindNew(v, c)
      <4>1. PICK t \in Task :
              /\ clipOf[t] = NULL
              /\ clipOf' = [clipOf EXCEPT ![t] = c] /\ viewOf' = [viewOf EXCEPT ![t] = v]
              /\ drawable' = [drawable EXCEPT ![v] = Async(t)]
        BY <3>4 DEF BindNew
      <4>2. \A u \in View \ {v} : drawable[u].kind = "async" => drawable[u].task # t
        BY <4>1
      <4>3. Types'
        BY <3>1, <4>1, Kinds
      <4>4. WaitsForBound'
        BY <3>1, <4>1, <4>2, Kinds
      <4>5. NoWrongThumbnail'
        BY <3>1, <4>1, Kinds
      <4> QED
        BY <4>3, <4>4, <4>5
    <3> QED
      BY <2>1, <3>2, <3>3, <3>4 DEF Bind
  <2>2. ASSUME NEW t \in Task, PostExecute(t) PROVE IInv'
    <3>1. UNCHANGED <<bound, clipOf, viewOf>>
      BY <2>2 DEF PostExecute
    <3>2. CASE t \notin cancelled /\ Waits(t)
      <4> DEFINE v == viewOf[t]
      <4>1. drawable' = [drawable EXCEPT ![v] = Bitmap(clipOf[t])]
        BY <2>2, <3>2 DEF PostExecute
      <4>2. CASE v \in View
        <5>1. clipOf[t] = bound[v] /\ bound[v] \in Clip
          BY <3>2, <4>2 DEF Waits, TaskOf
        <5> QED
          BY <3>1, <4>1, <4>2, <5>1, Kinds
      <4>3. CASE v \notin View
        BY <3>1, <4>1, <4>3, ZenonT(40)
      <4> QED
        BY <4>2, <4>3
    <3>3. CASE ~(t \notin cancelled /\ Waits(t))
      BY <2>2, <3>1, <3>3 DEF PostExecute
    <3> QED
      BY <3>2, <3>3
  <2>3. CASE Background \/ \E c \in Clip : Evict(c)
    BY <2>3 DEF Background, Run, Load, Evict, tasks
  <2>4. CASE UNCHANGED vars
    BY <2>4 DEF vars, tasks
  <2> QED
    BY <2>1, <2>2, <2>3, <2>4 DEF Next, Looper
<1> QED
  BY <1>1, <1>2, PTL DEF Spec

\* No view shows the thumbnail of a clip it was bound to before.
THEOREM ViewsShowTheirClips == Spec => []NoWrongThumbnail
BY Inductive, PTL DEF IInv
=============================================================================
