---------------------------- MODULE Loader_proof ----------------------------
(***************************************************************************)
(* Proofs about the loader of images, for any threads, images and slots,   *)
(* where the host loads and unloads one at a time; and about the patch it  *)
(* runs on one, for any core and any arena.                                *)
(***************************************************************************)
EXTENDS PeLoader, ShimPatch, FiniteSetTheorems, SequenceTheorems,
        WellFoundedInduction, TLAPS

Busy(t) == ~At(t, "idle")

Places == {"idle", "map", "array", "slot", "block", "id", "entry", "clear", "give"}

LoaderTypes ==
  /\ platform \in {"linux", "win32"}
  /\ image \in [Images -> [state : States, tls : BOOLEAN, slot : Nat \cup {-1}]]
  /\ job \in [Threads -> [at : Places, img : Images \cup {NoImage}]]
  /\ array \in {0, 1}
  /\ teb \in [Threads -> [has : BOOLEAN, array : {0, array}]]
  /\ arrays \in Seq([0 .. Slots - 1 -> Images \cup {NoImage}]) /\ Len(arrays) = array
  /\ next \in Nat /\ free \in Seq(Nat)
  /\ nodes \in [Threads -> SUBSET [id : Nat, img : Images]]

(* One load or unload at a time. *)
OneAtATime == \A t, u \in Threads : Busy(t) /\ Busy(u) => t = u

(* An image whose storage can be found. *)
Placed(i) ==
  /\ image[i].slot >= 0
  /\ platform = "linux" => array = 1 /\ arrays[1][image[i].slot] = i

(* What a thread has of the image it loads or unloads. *)
JobOf(t) ==
  LET m == image[Img(t)]
  IN /\ Img(t) \in Images
     /\ IF job[t].at \in {"clear", "give"} THEN m.state = "gone" ELSE m.state = "loading"
     /\ job[t].at \in {"map", "array", "slot", "id"} => m.slot = -1
     /\ job[t].at \in {"array", "slot", "block", "id"} => m.tls
     /\ job[t].at \in {"array", "slot", "block", "give"} => platform = "linux"
     /\ job[t].at = "array" => array = 0
     /\ job[t].at \in {"slot", "block"} => array = 1
     /\ job[t].at = "id" => platform = "win32"
     /\ job[t].at \in {"block", "give"} => m.slot >= 0
     /\ job[t].at = "entry" /\ m.tls => Placed(Img(t))

Jobs == \A t \in Threads : Busy(t) => JobOf(t)

(* What is known of an image by its state alone. *)
ImageOf(i) ==
  /\ image[i].state = "new" => image[i].slot = -1
  /\ image[i].state = "loaded" /\ image[i].tls => Placed(i)
  /\ image[i].state = "loading" \/ (image[i].state = "gone" /\ image[i].slot # -1) =>
       \E t \in Threads : Busy(t) /\ Img(t) = i

ImagesKept == \A i \in Images : ImageOf(i)

Owned == {i \in Images : image[i].slot >= 0}

OwnSlots == \A i, j \in Owned : image[i].slot = image[j].slot => i = j

(* On Linux a slot that was ever used is free or an image's. *)
SlotsKept ==
  platform = "linux" =>
    /\ next <= Slots
    /\ Range(free) \cup {image[i].slot : i \in Owned} = 0 .. next - 1
    /\ \A k \in 1 .. Len(free) : \A i \in Owned : free[k] # image[i].slot
    /\ \A k, m \in 1 .. Len(free) : free[k] = free[m] => k = m
    /\ IsFiniteSet(Owned) /\ Len(free) + Cardinality(Owned) = next
    /\ Owned # {} => array = 1

(* On Windows an id is never used again, so a block found by one is of the
   image that has it. *)
IdsKept ==
  platform = "win32" =>
    /\ \A i \in Owned : image[i].slot \in 1 .. next
    /\ \A t \in Threads : \A n \in nodes[t] :
         n.id \in 1 .. next /\ \A i \in Images : image[i].slot = n.id => i = n.img

LoaderInv ==
  /\ LoaderTypes /\ OneAtATime /\ Jobs /\ ImagesKept /\ OwnSlots /\ SlotsKept /\ IdsKept

LEMMA LoaderConstants == Slots \in Nat \ {0} /\ Platforms \subseteq {"linux", "win32"}
  BY LoaderAssumption

LEMMA LoaderInit == Init => LoaderInv
  <1> SUFFICES ASSUME Init PROVE LoaderInv
    OBVIOUS
  <1>1. LoaderTypes
    <2>1. arrays \in Seq([0 .. Slots - 1 -> Images \cup {NoImage}]) /\ Len(arrays) = 0
          /\ free \in Seq(Nat)
      BY DEF Init
    <2> QED
      BY <2>1, LoaderConstants DEF Init, LoaderTypes, States, Places, Idle, NoBlock
  <1>2. \A t \in Threads : ~Busy(t)
    BY DEF Init, Busy, At, Idle
  <1>3. Owned = {}
    BY DEF Init, Owned
  <1>4. OneAtATime /\ Jobs /\ OwnSlots
    BY <1>2, <1>3 DEF OneAtATime, Jobs, OwnSlots
  <1>5. ImagesKept
    BY DEF Init, ImagesKept, ImageOf
  <1>6. SlotsKept
    <2>1. free = <<>> /\ Len(free) = 0 /\ next = 0 /\ Range(free) = {}
      BY DEF Init, Range
    <2>2. 0 .. next - 1 = {} /\ {image[i].slot : i \in Owned} = {}
      BY <1>3, <2>1
    <2>3. IsFiniteSet(Owned) /\ Cardinality(Owned) = 0
      BY <1>3, FS_EmptySet
    <2> QED
      BY <1>3, <2>1, <2>2, <2>3, LoaderConstants DEF SlotsKept
  <1>7. IdsKept
    BY <1>3 DEF Init, IdsKept
  <1> QED
    BY <1>1, <1>4, <1>5, <1>6, <1>7 DEF LoaderInv

LEMMA GotoType ==
  ASSUME LoaderTypes, NEW t \in Threads, NEW where \in Places, Goto(t, where)
  PROVE  job' \in [Threads -> [at : Places, img : Images \cup {NoImage}]]
  <1>1. [job[t] EXCEPT !.at = where] \in [at : Places, img : Images \cup {NoImage}]
    BY DEF LoaderTypes
  <1> QED
    BY <1>1 DEF LoaderTypes, Goto

LEMMA SlotTakenType ==
  ASSUME LoaderTypes, NEW i \in Images, NEW s \in Nat \cup {-1}
  PROVE  [image EXCEPT ![i].slot = s]
           \in [Images -> [state : States, tls : BOOLEAN, slot : Nat \cup {-1}]]
  <1> DEFINE Image == [state : States, tls : BOOLEAN, slot : Nat \cup {-1}]
  <1>1. image[i] \in Image
    BY DEF LoaderTypes
  <1>2. \A m \in Image : [m EXCEPT !.slot = s] \in Image
    OBVIOUS
  <1> QED
    BY <1>1, <1>2 DEF LoaderTypes

LEMMA CellType ==
  ASSUME LoaderTypes, array = 1, NEW s \in Int, NEW i \in Images \cup {NoImage}
  PROVE  LET new == [arrays EXCEPT ![array][s] = i]
         IN /\ new \in Seq([0 .. Slots - 1 -> Images \cup {NoImage}])
            /\ Len(new) = 1
            /\ new[1] = [arrays[1] EXCEPT ![s] = i]
  <1> DEFINE Array == [0 .. Slots - 1 -> Images \cup {NoImage}]
  <1>1. arrays \in Seq(Array) /\ Len(arrays) = 1
    BY DEF LoaderTypes
  <1>a. arrays[1] \in Array
    BY <1>1
  <1>2. [arrays[1] EXCEPT ![s] = i] \in Array
    BY <1>a
  <1> HIDE DEF Array
  <1>3. [arrays EXCEPT ![1] = [arrays[1] EXCEPT ![s] = i]] \in Seq(Array)
    BY <1>1, <1>2
  <1> QED
    BY <1>1, <1>3 DEF Array

LEMMA AttachedType ==
  ASSUME LoaderTypes, NEW t \in Threads
  PROVE  Attached(t) \in [has : BOOLEAN, array : {0, array}]
  BY DEF LoaderTypes, Attached

-----------------------------------------------------------------------------
(* Types. *)

LEMMA TypesNext ==
  ASSUME LoaderInv, Next
  PROVE  LoaderTypes'
  <1> DEFINE Image == [state : States, tls : BOOLEAN, slot : Nat \cup {-1}]
             Array == [0 .. Slots - 1 -> Images \cup {NoImage}]
             Job == [at : Places, img : Images \cup {NoImage}]
             Block == [has : BOOLEAN, array : {0, array}]
  <1>1. /\ platform \in {"linux", "win32"} /\ image \in [Images -> Image]
        /\ job \in [Threads -> Job] /\ array \in {0, 1} /\ teb \in [Threads -> Block]
        /\ arrays \in Seq(Array) /\ Len(arrays) = array /\ next \in Nat
        /\ free \in Seq(Nat) /\ nodes \in [Threads -> SUBSET [id : Nat, img : Images]]
    BY DEF LoaderInv, LoaderTypes
  <1> PICK t \in Threads :
        \/ ThreadAttach(t) \/ Fail(t) \/ Map(t) \/ NewArray(t) \/ TakeSlot(t)
        \/ StoreBlock(t) \/ TakeId(t) \/ Entry(t)
        \/ ClearSlot(t) \/ GiveSlot(t) \/ UnloadRest(t)
        \/ \E i \in Images : Load(t, i) \/ Enter(t, i) \/ Unload(t, i)
    BY DEF Next
  <1>2. job[t] \in Job /\ teb[t] \in Block
    BY <1>1
  <1>3. CASE ThreadAttach(t)
    <2>1. Attached(t) \in Block
      BY AttachedType DEF LoaderInv
    <2>2. teb' = [teb EXCEPT ![t] = Attached(t)]
      BY <1>3 DEF ThreadAttach, Attach
    <2>3. teb' \in [Threads -> Block]
      BY <1>1, <2>1, <2>2
    <2>4. UNCHANGED <<platform, image, job, array, arrays, next, free, nodes>>
      BY <1>3 DEF ThreadAttach
    <2> QED
      BY <1>1, <2>3, <2>4 DEF LoaderTypes
  <1>4. CASE Fail(t)
    BY <1>1, <1>4 DEF Fail, Return, Idle, LoaderTypes, States, Places
  <1>5. CASE Map(t)
    <2>1. job' \in [Threads -> Job]
      BY <1>1, <1>5, GotoType DEF Map, LoaderInv, Places
    <2> QED
      BY <1>1, <1>5, <2>1 DEF Map, LoaderTypes
  <1>6. CASE NewArray(t)
    <2>1. array = 0
      BY <1>6 DEF LoaderInv, Jobs, JobOf, Busy, NewArray, At
    <2>2. Empty \in Array
      BY DEF Empty
    <2>3. arrays' \in Seq(Array) /\ Len(arrays') = 1 /\ array' = 1
      BY <1>1, <1>6, <2>1, <2>2 DEF NewArray
    <2>4. teb' \in [Threads -> [has : BOOLEAN, array : {0, array'}]]
      BY <1>1, <1>6, <2>1, <2>3 DEF NewArray
    <2> QED
      BY <1>1, <1>6, <2>3, <2>4 DEF NewArray, Goto, LoaderTypes, Places
  <1>7. CASE TakeSlot(t)
    <2>a. job' \in [Threads -> Job] /\ Img(t) \in Images
      BY <1>1, <1>7, GotoType DEF TakeSlot, LoaderInv, Places, Jobs, JobOf, Busy, At
    <2>b. \A s \in Nat : [image EXCEPT ![Img(t)].slot = s] \in [Images -> Image]
      BY <2>a, SlotTakenType DEF LoaderInv
    <2>1. CASE free # <<>>
      <3>1. Last(free) \in Nat /\ Front(free) \in Seq(Nat)
        BY <1>1, <2>1 DEF Last, Front
      <3> QED
        BY <1>1, <1>7, <2>a, <2>b, <2>1, <3>1 DEF TakeSlot, LoaderTypes
    <2>2. CASE free = <<>>
      <3>1. /\ image' = [image EXCEPT ![Img(t)].slot = next] /\ next' = next + 1
            /\ UNCHANGED <<platform, teb, array, arrays, free, nodes>>
        BY <1>7, <2>2 DEF TakeSlot
      <3> QED
        BY <1>1, <2>a, <2>b, <3>1 DEF LoaderTypes
    <2> QED
      BY <2>1, <2>2
  <1>8. CASE StoreBlock(t)
    <2>1. array = 1 /\ Img(t) \in Images /\ image[Img(t)].slot \in Int
      BY <1>1, <1>8 DEF LoaderInv, Jobs, JobOf, Busy, StoreBlock, At
    <2>2. arrays' \in Seq(Array) /\ Len(arrays') = 1
      BY <1>1, <1>8, <2>1, CellType DEF StoreBlock, LoaderInv
    <2> QED
      BY <1>1, <1>8, <2>1, <2>2 DEF StoreBlock, Goto, LoaderTypes, Places
  <1>9. CASE TakeId(t)
    <2>1. job' \in [Threads -> Job] /\ Img(t) \in Images
      BY <1>1, <1>9, GotoType DEF TakeId, LoaderInv, Places, Jobs, JobOf, Busy, At
    <2>2. next + 1 \in Nat
      BY <1>1
    <2> QED
      BY <1>1, <1>9, <2>1, <2>2, SlotTakenType DEF TakeId, LoaderTypes, LoaderInv
  <1>10. CASE Entry(t)
    BY <1>1, <1>10 DEF Entry, Return, Idle, LoaderTypes, States, Places
  <1>11. CASE ClearSlot(t)
    <2>a. array = 1 /\ Img(t) \in Images /\ image[Img(t)].slot \in Int
      BY <1>1, <1>11 DEF LoaderInv, Jobs, JobOf, Busy, ClearSlot, HasSlot, At
    <2>1. arrays' \in Seq(Array) /\ Len(arrays') = 1
      BY <1>1, <1>11, <2>a, CellType DEF ClearSlot, LoaderInv
    <2> QED
      BY <1>1, <1>11, <2>a, <2>1 DEF ClearSlot, Goto, LoaderTypes, Places
  <1>12. CASE GiveSlot(t)
    <2>1. image[Img(t)].slot \in Nat
      BY <1>1, <1>12 DEF LoaderInv, Jobs, JobOf, Busy, GiveSlot, At
    <2>2. free' \in Seq(Nat)
      BY <1>1, <1>12, <2>1 DEF GiveSlot
    <2> QED
      BY <1>1, <1>12, <2>2 DEF GiveSlot, Forget, Return, Idle, LoaderTypes, States, Places
  <1>13. CASE UnloadRest(t)
    BY <1>1, <1>13 DEF UnloadRest, Forget, Return, Idle, LoaderTypes, States, Places
  <1>14. ASSUME NEW i \in Images, Load(t, i) PROVE LoaderTypes'
    <2>1. teb' \in [Threads -> Block]
      BY <1>1, <1>14, AttachedType DEF Load, Attach, LoaderInv
    <2> QED
      <3>1. job' \in [Threads -> Job]
        BY <1>1, <1>14 DEF Load, Places
      <3>2. image' \in [Images -> Image]
        BY <1>1, <1>14 DEF Load, States
      <3> QED
        BY <1>1, <1>14, <2>1, <3>1, <3>2 DEF Load, LoaderTypes
  <1>15. ASSUME NEW i \in Images, Enter(t, i) PROVE LoaderTypes'
    <2>1. image[i].slot \in Nat
      BY <1>1, <1>15 DEF LoaderInv, ImagesKept, ImageOf, Placed, Enter
    <2>2. nodes' \in [Threads -> SUBSET [id : Nat, img : Images]]
      BY <1>1, <1>15, <2>1 DEF Enter
    <2> QED
      BY <1>1, <1>15, <2>2 DEF Enter, LoaderTypes
  <1>16. ASSUME NEW i \in Images, Unload(t, i) PROVE LoaderTypes'
    <2>1. job' \in [Threads -> Job]
      BY <1>1, <1>16 DEF Unload, Places
    <2>a. image[i] \in Image /\ \A m \in Image : [m EXCEPT !.state = "gone"] \in Image
      BY <1>1 DEF States
    <2>2. [image[i] EXCEPT !.state = "gone"] \in Image
      BY <2>a
    <2>3. image' \in [Images -> Image]
      BY <1>1, <1>16, <2>2 DEF Unload
    <2> QED
      BY <1>1, <1>16, <2>1, <2>3 DEF Unload, LoaderTypes
  <1> QED
    BY <1>3, <1>4, <1>5, <1>6, <1>7, <1>8, <1>9, <1>10, <1>11, <1>12, <1>13, <1>14, <1>15,
       <1>16

-----------------------------------------------------------------------------
(* Jobs and images. *)

LEMMA FirstArray ==
  ASSUME LoaderInv, array = 1
  PROVE  arrays[1] \in [0 .. Slots - 1 -> Images \cup {NoImage}]
  <1> DEFINE Array == [0 .. Slots - 1 -> Images \cup {NoImage}]
  <1>1. arrays \in Seq(Array) /\ Len(arrays) = 1
    BY DEF LoaderInv, LoaderTypes
  <1> HIDE DEF Array
  <1>2. arrays[1] \in Array
    BY <1>1
  <1> QED
    BY <1>2 DEF Array

LEMMA SlotInArray ==
  ASSUME LoaderInv, platform = "linux", NEW i \in Images, image[i].slot >= 0
  PROVE  image[i].slot \in 0 .. Slots - 1
  <1>1. next \in Nat /\ next <= Slots /\ i \in Owned
    BY DEF LoaderInv, LoaderTypes, SlotsKept, Owned
  <1>2. image[i].slot \in 0 .. next - 1
    BY <1>1 DEF LoaderInv, SlotsKept
  <1> QED
    BY <1>1, <1>2, LoaderConstants

(* A thread that works on an image leaves the others and their jobs alone. *)
LEMMA WorkOnOne ==
  ASSUME LoaderInv, NEW t \in Threads, NEW i \in Images,
         \A u \in Threads : Busy(u) => u = t /\ Img(u) = i,
         \A u \in Threads : u # t => job'[u] = job[u],
         \A j \in Images : j # i => image'[j] = image[j],
         \A j \in Images : j # i /\ image[j].state = "loaded" /\ image[j].tls => Placed(j)',
         Busy(t)' => JobOf(t)',
         ImageOf(i)'
  PROVE  OneAtATime' /\ Jobs' /\ ImagesKept'
  <1>1. \A u \in Threads : u # t => ~Busy(u)'
    BY DEF Busy, At
  <1>2. OneAtATime' /\ Jobs'
    BY <1>1 DEF OneAtATime, Jobs
  <1>3. ASSUME NEW j \in Images, j # i
        PROVE  ImageOf(j)'
    <2>1. ImageOf(j) /\ image'[j] = image[j]
      BY <1>3 DEF LoaderInv, ImagesKept
    <2>2. ~(\E u \in Threads : Busy(u) /\ Img(u) = j)
      BY <1>3
    <2> QED
      BY <1>3, <2>1, <2>2 DEF ImageOf
  <1> QED
    BY <1>2, <1>3 DEF ImagesKept

LEMMA JobFacts ==
  ASSUME LoaderInv, NEW t \in Threads, Busy(t)
  PROVE  /\ JobOf(t) /\ Img(t) \in Images
         /\ job[t] \in [at : Places, img : Images \cup {NoImage}]
         /\ \A u \in Threads : Busy(u) => u = t /\ Img(u) = Img(t)
  <1>1. JobOf(t) /\ job[t] \in [at : Places, img : Images \cup {NoImage}]
    BY DEF LoaderInv, LoaderTypes, Jobs
  <1>2. \A u \in Threads : Busy(u) => u = t
    BY DEF LoaderInv, OneAtATime
  <1> QED
    BY <1>1, <1>2 DEF JobOf

LEMMA GoesTo ==
  ASSUME LoaderInv, NEW t \in Threads, NEW where \in Places, Goto(t, where)
  PROVE  /\ job'[t].at = where /\ Img(t)' = Img(t)
         /\ \A u \in Threads : u # t => job'[u] = job[u]
  <1>1. job[t] \in [at : Places, img : Images \cup {NoImage}]
    BY DEF LoaderInv, LoaderTypes
  <1>2. job'[t] = [job[t] EXCEPT !.at = where]
    BY DEF LoaderInv, LoaderTypes, Goto
  <1> QED
    BY <1>1, <1>2 DEF LoaderInv, LoaderTypes, Goto, Img

LEMMA Returns ==
  ASSUME LoaderInv, NEW t \in Threads, Return(t)
  PROVE  ~Busy(t)' /\ \A u \in Threads : u # t => job'[u] = job[u]
  BY DEF LoaderInv, LoaderTypes, Return, Busy, At, Idle

Work(t) ==
  \/ Fail(t) \/ Map(t) \/ NewArray(t) \/ TakeSlot(t) \/ StoreBlock(t) \/ TakeId(t)
  \/ Entry(t) \/ ClearSlot(t) \/ GiveSlot(t) \/ UnloadRest(t)

LEMMA WorkIsBusy == \A t \in Threads : Work(t) => Busy(t)
  BY DEF Work, Busy, At, Fail, Map, NewArray, TakeSlot, StoreBlock, TakeId, Entry,
         ClearSlot, GiveSlot, UnloadRest

LEMMA JobsNext ==
  ASSUME LoaderInv, NEW t \in Threads, Work(t), NEW i \in Images, i = Img(t)
  PROVE  OneAtATime' /\ Jobs' /\ ImagesKept'
  <1> DEFINE m == image[i]
  <1>1. /\ JobOf(t) /\ Busy(t) /\ Img(t) = i
        /\ \A u \in Threads : Busy(u) => u = t /\ Img(u) = i
    BY JobFacts, WorkIsBusy
  <1>2. /\ platform \in {"linux", "win32"} /\ array \in {0, 1}
        /\ image \in [Images -> [state : States, tls : BOOLEAN, slot : Nat \cup {-1}]]
        /\ m \in [state : States, tls : BOOLEAN, slot : Nat \cup {-1}]
    BY <1>1 DEF LoaderInv, LoaderTypes
  <1>3. \A j \in Images : ImageOf(j)
    BY DEF LoaderInv, ImagesKept
  <1>4. \A j \in Images : j # i /\ j \in Owned /\ i \in Owned => image[j].slot # m.slot
    BY <1>1 DEF LoaderInv, OwnSlots
  <1>5. CASE Fail(t)
    <2>1. /\ image'[i] = [m EXCEPT !.state = "failed"]
          /\ \A j \in Images : j # i => image'[j] = image[j]
          /\ UNCHANGED <<platform, array, arrays>> /\ Return(t)
      BY <1>1, <1>2, <1>5 DEF Fail
    <2>2. image'[i].state = "failed"
      BY <1>2, <2>1
    <2>3. ImageOf(i)'
      BY <2>2 DEF ImageOf
    <2>4. \A j \in Images : j # i /\ image[j].state = "loaded" /\ image[j].tls => Placed(j)'
      BY <1>3, <2>1 DEF ImageOf, Placed
    <2> QED
      BY <1>1, <2>1, <2>3, <2>4, Returns, WorkOnOne
  <1>6. CASE Map(t)
    <2> DEFINE where == IF ~image[Img(t)].tls THEN "entry"
                        ELSE IF platform = "win32" THEN "id"
                        ELSE IF array = 0 THEN "array" ELSE "slot"
    <2>1. /\ image' = image /\ UNCHANGED <<platform, array, arrays>>
          /\ Goto(t, where) /\ where \in Places /\ job[t].at = "map"
      BY <1>6 DEF Map, At, Places
    <2>2. /\ job'[t].at = where /\ Img(t)' = i
          /\ \A u \in Threads : u # t => job'[u] = job[u]
      <3> HIDE DEF where
      <3> QED BY <2>1, GoesTo
    <2>3. /\ m.state = "loading" /\ m.slot = -1
      BY <1>1, <2>1 DEF JobOf
    <2>4. JobOf(t)'
      BY <1>1, <1>2, <2>1, <2>2, <2>3 DEF JobOf
    <2>5. Busy(t)'
      BY <2>2 DEF Busy, At
    <2>6. ImageOf(i)'
      BY <2>1, <2>2, <2>3, <2>5 DEF ImageOf
    <2>7. \A j \in Images : j # i /\ image[j].state = "loaded" /\ image[j].tls => Placed(j)'
      BY <1>3, <2>1 DEF ImageOf, Placed
    <2> QED
      BY <1>1, <2>1, <2>2, <2>4, <2>6, <2>7, WorkOnOne
  <1>7. CASE NewArray(t)
    <2>1. /\ image' = image /\ platform' = platform /\ array' = Len(arrays')
          /\ Goto(t, "slot") /\ "slot" \in Places /\ job[t].at = "array"
          /\ arrays' = Append(arrays, Empty)
      BY <1>7 DEF NewArray, At, Places
    <2>2. /\ job'[t].at = "slot" /\ Img(t)' = i
          /\ \A u \in Threads : u # t => job'[u] = job[u]
      BY <2>1, GoesTo
    <2>3. /\ m.state = "loading" /\ m.slot = -1 /\ m.tls /\ platform = "linux" /\ array = 0
      BY <1>1, <2>1 DEF JobOf
    <2>4. array' = 1
      BY <2>1, <2>3 DEF LoaderInv, LoaderTypes
    <2>5. JobOf(t)'
      BY <1>1, <2>1, <2>2, <2>3, <2>4 DEF JobOf
    <2>6. Busy(t)'
      BY <2>2 DEF Busy, At
    <2>7. ImageOf(i)'
      BY <2>1, <2>2, <2>3, <2>6 DEF ImageOf
    <2>8. \A j \in Images : ~(image[j].state = "loaded" /\ image[j].tls)
      BY <1>3, <2>3 DEF ImageOf, Placed
    <2> QED
      BY <1>1, <2>1, <2>2, <2>5, <2>7, <2>8, WorkOnOne
  <1>8. CASE TakeSlot(t)
    <2>1. /\ Goto(t, "block") /\ "block" \in Places /\ job[t].at = "slot"
          /\ UNCHANGED <<platform, array, arrays>>
          /\ \E s : image' = [image EXCEPT ![i].slot = s]
      BY <1>8 DEF TakeSlot, At, Places
    <2>2. /\ job'[t].at = "block" /\ Img(t)' = i
          /\ \A u \in Threads : u # t => job'[u] = job[u]
      BY <2>1, GoesTo
    <2>3. /\ m.state = "loading" /\ m.tls /\ platform = "linux" /\ array = 1
      BY <1>1, <2>1 DEF JobOf
    <2>4. /\ image'[i].state = m.state /\ image'[i].tls = m.tls
          /\ \A j \in Images : j # i => image'[j] = image[j]
      BY <1>1, <1>2, <2>1
    <2>5. image'[i].slot >= 0
      <3>1. CASE free # <<>>
        <4>1. free[Len(free)] \in Nat
          BY <3>1 DEF LoaderInv, LoaderTypes
        <4> QED
          BY <1>1, <1>2, <1>8, <3>1, <4>1 DEF TakeSlot, Last
      <3>2. CASE free = <<>>
        <4>1. next \in Nat /\ image' = [image EXCEPT ![i].slot = next]
          BY <1>8, <3>2 DEF TakeSlot, LoaderInv, LoaderTypes
        <4> QED
          BY <1>1, <1>2, <4>1
      <3> QED BY <3>1, <3>2
    <2>6. JobOf(t)' /\ Busy(t)'
      BY <1>1, <2>1, <2>2, <2>3, <2>4, <2>5 DEF JobOf, Busy, At
    <2>7. ImageOf(i)'
      BY <2>2, <2>3, <2>4, <2>6 DEF ImageOf
    <2>8. \A j \in Images : j # i /\ image[j].state = "loaded" /\ image[j].tls => Placed(j)'
      BY <1>3, <2>1, <2>4 DEF ImageOf, Placed
    <2> QED
      BY <1>1, <2>2, <2>4, <2>6, <2>7, <2>8, WorkOnOne
  <1>9. CASE StoreBlock(t)
    <2>1. /\ Goto(t, "entry") /\ "entry" \in Places /\ job[t].at = "block"
          /\ UNCHANGED <<platform, array, image>>
          /\ arrays' = [arrays EXCEPT ![array][m.slot] = i]
      BY <1>9 DEF StoreBlock, At, Places
    <2>2. /\ job'[t].at = "entry" /\ Img(t)' = i
          /\ \A u \in Threads : u # t => job'[u] = job[u]
      BY <2>1, GoesTo
    <2>3. /\ m.state = "loading" /\ m.tls /\ platform = "linux" /\ array = 1 /\ m.slot >= 0
      BY <1>1, <2>1 DEF JobOf
    <2>4. arrays'[1] = [arrays[1] EXCEPT ![m.slot] = i]
          /\ arrays[1] \in [0 .. Slots - 1 -> Images \cup {NoImage}]
      <3>1. arrays[1] \in [0 .. Slots - 1 -> Images \cup {NoImage}]
        BY <2>3, FirstArray
      <3>2. m.slot \in Int /\ i \in Images \cup {NoImage}
        BY <1>1, <1>2
      <3> QED
        BY <2>1, <2>3, <3>1, <3>2, CellType DEF LoaderInv
    <2>5. m.slot \in 0 .. Slots - 1
      BY <1>1, <2>3, SlotInArray
    <2>6. Placed(i)'
      <3>1. arrays'[1][m.slot] = i
        BY <2>4, <2>5
      <3>2. image'[i].slot = m.slot /\ array' = 1
        BY <2>1, <2>3
      <3> HIDE DEF m
      <3> QED
        BY <2>3, <3>1, <3>2 DEF Placed
    <2>7. JobOf(t)' /\ Busy(t)'
      BY <1>1, <2>1, <2>2, <2>3, <2>6 DEF JobOf, Busy, At
    <2>8. ImageOf(i)'
      BY <2>1, <2>2, <2>3, <2>7 DEF ImageOf
    <2>9. ASSUME NEW j \in Images, j # i, image[j].state = "loaded", image[j].tls
          PROVE  Placed(j)'
      <3>1. Placed(j)
        BY <1>3, <2>9 DEF ImageOf
      <3>2. image[j].slot # m.slot
        BY <1>1, <1>4, <2>3, <2>9, <3>1 DEF Owned, Placed
      <3> QED
        BY <2>1, <2>3, <2>4, <3>1, <3>2 DEF Placed
    <2> QED
      BY <1>1, <2>1, <2>2, <2>7, <2>8, <2>9, WorkOnOne
  <1>10. CASE TakeId(t)
    <2>1. /\ Goto(t, "entry") /\ "entry" \in Places /\ job[t].at = "id"
          /\ UNCHANGED <<platform, array, arrays>>
          /\ image' = [image EXCEPT ![i].slot = next + 1] /\ next \in Nat
      BY <1>10 DEF TakeId, At, Places, LoaderInv, LoaderTypes
    <2>2. /\ job'[t].at = "entry" /\ Img(t)' = i
          /\ \A u \in Threads : u # t => job'[u] = job[u]
      BY <2>1, GoesTo
    <2>3. /\ m.state = "loading" /\ m.tls /\ platform = "win32"
      BY <1>1, <2>1 DEF JobOf
    <2>4. /\ image'[i].state = m.state /\ image'[i].tls = m.tls /\ image'[i].slot >= 0
          /\ \A j \in Images : j # i => image'[j] = image[j]
      BY <1>1, <1>2, <2>1
    <2>5. JobOf(t)' /\ Busy(t)'
      BY <1>1, <2>1, <2>2, <2>3, <2>4 DEF JobOf, Busy, At, Placed
    <2>6. ImageOf(i)'
      BY <2>2, <2>3, <2>4, <2>5 DEF ImageOf
    <2>7. \A j \in Images : j # i /\ image[j].state = "loaded" /\ image[j].tls => Placed(j)'
      BY <1>3, <2>1, <2>4 DEF ImageOf, Placed
    <2> QED
      BY <1>1, <2>2, <2>4, <2>5, <2>6, <2>7, WorkOnOne
  <1>11. CASE Entry(t)
    <2>1. /\ image'[i] = [m EXCEPT !.state = "loaded"]
          /\ \A j \in Images : j # i => image'[j] = image[j]
          /\ UNCHANGED <<platform, array, arrays>> /\ Return(t) /\ job[t].at = "entry"
      BY <1>1, <1>2, <1>11 DEF Entry, At
    <2>2. /\ image'[i].state = "loaded" /\ image'[i].tls = m.tls /\ image'[i].slot = m.slot
      BY <1>2, <2>1
    <2>3. m.tls => Placed(i)
      BY <1>1, <2>1 DEF JobOf
    <2>4. ImageOf(i)'
      BY <2>1, <2>2, <2>3 DEF ImageOf, Placed
    <2>5. \A j \in Images : j # i /\ image[j].state = "loaded" /\ image[j].tls => Placed(j)'
      BY <1>3, <2>1 DEF ImageOf, Placed
    <2> QED
      BY <1>1, <2>1, <2>4, <2>5, Returns, WorkOnOne
  <1>12. CASE ClearSlot(t)
    <2>1. /\ Goto(t, "give") /\ "give" \in Places /\ job[t].at = "clear"
          /\ UNCHANGED <<platform, array, image>>
          /\ arrays' = [arrays EXCEPT ![array][m.slot] = NoImage]
          /\ platform = "linux" /\ m.slot >= 0 /\ array = 1
      BY <1>2, <1>12 DEF ClearSlot, HasSlot, At, Places
    <2>2. /\ job'[t].at = "give" /\ Img(t)' = i
          /\ \A u \in Threads : u # t => job'[u] = job[u]
      BY <2>1, GoesTo
    <2>3. m.state = "gone"
      BY <1>1, <2>1 DEF JobOf
    <2>4. arrays'[1] = [arrays[1] EXCEPT ![m.slot] = NoImage]
          /\ arrays[1] \in [0 .. Slots - 1 -> Images \cup {NoImage}]
      <3>1. arrays[1] \in [0 .. Slots - 1 -> Images \cup {NoImage}]
        BY <2>1, FirstArray
      <3>2. m.slot \in Int
        BY <1>2
      <3> QED
        BY <2>1, <3>1, <3>2, CellType DEF LoaderInv
    <2>5. JobOf(t)' /\ Busy(t)'
      BY <1>1, <2>1, <2>2, <2>3 DEF JobOf, Busy, At
    <2>6. ImageOf(i)'
      BY <2>1, <2>2, <2>3, <2>5 DEF ImageOf
    <2>7. ASSUME NEW j \in Images, j # i, image[j].state = "loaded", image[j].tls
          PROVE  Placed(j)'
      <3>1. Placed(j)
        BY <1>3, <2>7 DEF ImageOf
      <3>2. image[j].slot # m.slot
        BY <1>1, <1>4, <2>1, <2>7, <3>1 DEF Owned, Placed
      <3> QED
        BY <2>1, <2>4, <3>1, <3>2 DEF Placed
    <2> QED
      BY <1>1, <2>1, <2>2, <2>5, <2>6, <2>7, WorkOnOne
  <1>13. CASE GiveSlot(t) \/ UnloadRest(t)
    <2>1. Forget(t) /\ Return(t) /\ UNCHANGED <<platform, array, arrays>>
      BY <1>13 DEF GiveSlot, UnloadRest
    <2>2. /\ image'[i].slot = -1 /\ image'[i].state = "gone"
          /\ \A j \in Images : j # i => image'[j] = image[j]
      BY <1>1, <1>2, <2>1 DEF Forget
    <2>3. ImageOf(i)'
      BY <2>2 DEF ImageOf
    <2>4. \A j \in Images : j # i /\ image[j].state = "loaded" /\ image[j].tls => Placed(j)'
      BY <1>3, <2>1, <2>2 DEF ImageOf, Placed
    <2> QED
      BY <1>1, <2>1, <2>2, <2>3, <2>4, Returns, WorkOnOne
  <1> QED
    BY <1>5, <1>6, <1>7, <1>8, <1>9, <1>10, <1>11, <1>12, <1>13 DEF Work

LEMMA StartsNext ==
  ASSUME Serial, LoaderInv, NEW t \in Threads, NEW i \in Images, Load(t, i) \/ Unload(t, i)
  PROVE  OneAtATime' /\ Jobs' /\ ImagesKept'
  <1>1. \A u \in Threads : ~Busy(u)
    BY DEF Load, Unload, MayStart, Busy
  <1>2. /\ job \in [Threads -> [at : Places, img : Images \cup {NoImage}]]
        /\ image \in [Images -> [state : States, tls : BOOLEAN, slot : Nat \cup {-1}]]
        /\ image[i] \in [state : States, tls : BOOLEAN, slot : Nat \cup {-1}]
    BY DEF LoaderInv, LoaderTypes
  <1>3. \A j \in Images : ImageOf(j)
    BY DEF LoaderInv, ImagesKept
  <1>4. /\ UNCHANGED <<platform, array, arrays>>
        /\ \A u \in Threads : u # t => job'[u] = job[u]
        /\ \A j \in Images : j # i => image'[j] = image[j]
        /\ Img(t)' = i
    BY <1>2 DEF Load, Unload, Img
  <1>5. \A j \in Images : j # i /\ image[j].state = "loaded" /\ image[j].tls => Placed(j)'
    BY <1>3, <1>4 DEF ImageOf, Placed
  <1>6. CASE Load(t, i)
    <2>1. job'[t].at = "map" /\ image'[i].state = "loading" /\ image'[i].slot = -1
      BY <1>2, <1>6 DEF Load
    <2>2. Busy(t)' /\ JobOf(t)'
      BY <1>4, <2>1 DEF Busy, At, JobOf
    <2>3. ImageOf(i)'
      BY <1>4, <2>1, <2>2 DEF ImageOf
    <2> QED
      BY <1>1, <1>4, <1>5, <2>2, <2>3, WorkOnOne
  <1>7. CASE Unload(t, i)
    <2>1. job'[t].at = "clear" /\ image'[i].state = "gone"
      BY <1>2, <1>7 DEF Unload
    <2>2. Busy(t)' /\ JobOf(t)'
      BY <1>4, <2>1 DEF Busy, At, JobOf
    <2>3. ImageOf(i)'
      BY <1>4, <2>1, <2>2 DEF ImageOf
    <2> QED
      BY <1>1, <1>4, <1>5, <2>2, <2>3, WorkOnOne
  <1> QED
    BY <1>6, <1>7

-----------------------------------------------------------------------------
(* Slots and ids. *)

LEMMA SlotsStill ==
  ASSUME LoaderInv, \A j \in Images : image'[j].slot = image[j].slot,
         UNCHANGED <<platform, next, free, nodes>>, array' = array \/ array' = 1
  PROVE  OwnSlots' /\ SlotsKept' /\ IdsKept'
  <1>1. Owned' = Owned
    BY DEF Owned
  <1>2. {image'[i].slot : i \in Owned'} = {image[i].slot : i \in Owned}
    BY <1>1 DEF Owned
  <1>3. OwnSlots'
    BY <1>1 DEF LoaderInv, OwnSlots, Owned
  <1>4. SlotsKept'
    BY <1>1, <1>2 DEF LoaderInv, SlotsKept, Owned
  <1>5. IdsKept'
    BY <1>1 DEF LoaderInv, IdsKept, Owned
  <1> QED
    BY <1>3, <1>4, <1>5

LEMMA FrontFacts ==
  ASSUME NEW s \in Seq(Nat), s # <<>>
  PROVE  /\ Len(Front(s)) = Len(s) - 1
         /\ \A k \in 1 .. Len(s) - 1 : Front(s)[k] = s[k]
         /\ DOMAIN Front(s) = 1 .. Len(s) - 1
  <1>1. Len(s) \in Nat \ {0} /\ \A k \in 1 .. Len(s) : s[k] \in Nat
    OBVIOUS
  <1>2. PICK n \in Nat : Len(s) = n + 1
    <2>1. Len(s) - 1 \in Nat /\ Len(s) = (Len(s) - 1) + 1
      BY <1>1
    <2> QED BY <2>1
  <1>3. Front(s) = SubSeq(s, 1, n)
    BY <1>2 DEF Front
  <1>4. \A k \in 1 .. n : s[k] \in Nat
    BY <1>1, <1>2
  <1>5. /\ SubSeq(s, 1, n) \in Seq(Nat)
        /\ Len(SubSeq(s, 1, n)) = IF 1 <= n THEN n - 1 + 1 ELSE 0
        /\ \A k \in 1 .. n - 1 + 1 : SubSeq(s, 1, n)[k] = s[1 + k - 1]
    BY <1>4, SubSeqProperties
  <1>6. Len(s) - 1 = n /\ n - 1 + 1 = n /\ (IF 1 <= n THEN n - 1 + 1 ELSE 0) = n
        /\ \A k \in 1 .. n : 1 + k - 1 = k
    BY <1>2
  <1>7. DOMAIN SubSeq(s, 1, n) = 1 .. Len(SubSeq(s, 1, n))
    BY <1>5
  <1> QED
    BY <1>3, <1>5, <1>6, <1>7

(* An image takes the slot handed back last, or one never used. *)
LEMMA SlotTaken ==
  ASSUME LoaderInv, NEW t \in Threads, TakeSlot(t), NEW i \in Images, i = Img(t)
  PROVE  OwnSlots' /\ SlotsKept' /\ IdsKept'
  <1>1. /\ JobOf(t) /\ Busy(t) /\ job[t].at = "slot"
    BY JobFacts DEF TakeSlot, Busy, At
  <1>2. /\ image[i].slot = -1 /\ array = 1 /\ platform = "linux" /\ i \notin Owned
    BY <1>1 DEF JobOf, Owned
  <1>3. /\ image \in [Images -> [state : States, tls : BOOLEAN, slot : Nat \cup {-1}]]
        /\ free \in Seq(Nat) /\ next \in Nat
        /\ \A j \in Images : image[j].slot \in Nat \cup {-1}
    BY DEF LoaderInv, LoaderTypes
  <1>4. /\ next <= Slots /\ Range(free) \cup {image[j].slot : j \in Owned} = 0 .. next - 1
        /\ \A k \in 1 .. Len(free) : \A j \in Owned : free[k] # image[j].slot
        /\ \A k, m \in 1 .. Len(free) : free[k] = free[m] => k = m
        /\ IsFiniteSet(Owned) /\ Len(free) + Cardinality(Owned) = next
        /\ \A j, k \in Owned : image[j].slot = image[k].slot => j = k
    BY <1>2 DEF LoaderInv, SlotsKept, OwnSlots
  <1>5. /\ IsFiniteSet(Owned \cup {i}) /\ Cardinality(Owned \cup {i}) = Cardinality(Owned) + 1
        /\ Cardinality(Owned) \in Nat
    BY <1>2, <1>4, FS_AddElement, FS_CardinalityType
  <1>6. ASSUME NEW s \in Nat, image' = [image EXCEPT ![i].slot = s]
        PROVE  /\ Owned' = Owned \cup {i} /\ image'[i].slot = s
               /\ \A j \in Owned : image'[j].slot = image[j].slot
               /\ {image'[j].slot : j \in Owned'} = {image[j].slot : j \in Owned} \cup {s}
    <2>1. image'[i].slot = s /\ \A j \in Images : j # i => image'[j] = image[j]
      BY <1>3, <1>6
    <2>2. Owned' = Owned \cup {i}
      BY <1>2, <2>1 DEF Owned
    <2>3. \A j \in Owned : image'[j].slot = image[j].slot
      BY <1>2, <2>1 DEF Owned
    <2> QED
      BY <2>1, <2>2, <2>3
  <1>7. UNCHANGED <<platform, array>>
    BY DEF TakeSlot
  <1>8. IdsKept'
    BY <1>2, <1>7 DEF IdsKept
  <1>9. CASE free # <<>>
    <2> DEFINE n == Len(free)
               s == free[n]
    <2>1. n \in Nat \ {0} /\ s \in Nat /\ n \in 1 .. n
      BY <1>3, <1>9
    <2>2. image' = [image EXCEPT ![i].slot = s] /\ next' = next /\ free' = Front(free)
      BY <1>9 DEF TakeSlot, Last
    <2>3. /\ Owned' = Owned \cup {i} /\ image'[i].slot = s
          /\ \A j \in Owned : image'[j].slot = image[j].slot
          /\ {image'[j].slot : j \in Owned'} = {image[j].slot : j \in Owned} \cup {s}
      BY <1>6, <2>1, <2>2
    <2>4. /\ Len(free') = n - 1 /\ \A k \in 1 .. n - 1 : free'[k] = free[k]
          /\ DOMAIN free' = 1 .. n - 1
      BY <1>3, <2>1, <2>2, FrontFacts
    <2>5. \A j \in Owned : image[j].slot # s
      BY <1>4, <2>1
    <2>6. Range(free) = Range(free') \cup {s}
      <3>1. DOMAIN free = 1 .. n /\ DOMAIN free' = 1 .. n - 1
        BY <1>3, <2>4
      <3>2. 1 .. n = (1 .. n - 1) \cup {n}
        BY <2>1
      <3> QED
        BY <2>4, <3>1, <3>2 DEF Range
    <2>7. OwnSlots'
      BY <1>4, <2>3, <2>5 DEF OwnSlots
    <2>8. SlotsKept'
      <3>1. Range(free') \cup {image'[j].slot : j \in Owned'} = 0 .. next' - 1
        BY <1>4, <2>2, <2>3, <2>6
      <3>2. \A k \in 1 .. Len(free') : k \in 1 .. n /\ k # n /\ free'[k] = free[k]
        BY <2>1, <2>4
      <3>3. \A k \in 1 .. Len(free') : \A j \in Owned' : free'[k] # image'[j].slot
        <4>1. \A k \in 1 .. Len(free') : free'[k] # s
          BY <1>4, <2>1, <3>2
        <4> QED
          BY <1>4, <2>3, <3>2, <4>1
      <3>4. \A k, m \in 1 .. Len(free') : free'[k] = free'[m] => k = m
        BY <1>4, <3>2
      <3>5. Len(free') + Cardinality(Owned') = next'
        BY <1>4, <1>5, <2>1, <2>2, <2>3, <2>4
      <3> QED
        BY <1>2, <1>4, <1>5, <1>7, <2>2, <2>3, <3>1, <3>3, <3>4, <3>5 DEF SlotsKept
    <2> QED
      BY <1>8, <2>7, <2>8
  <1>10. CASE free = <<>>
    <2>1. /\ next < Slots /\ image' = [image EXCEPT ![i].slot = next] /\ next' = next + 1
          /\ free' = free
      BY <1>10 DEF TakeSlot
    <2>2. /\ Owned' = Owned \cup {i} /\ image'[i].slot = next
          /\ \A j \in Owned : image'[j].slot = image[j].slot
          /\ {image'[j].slot : j \in Owned'} = {image[j].slot : j \in Owned} \cup {next}
      BY <1>3, <1>6, <2>1
    <2>3. \A j \in Owned : image[j].slot \in 0 .. next - 1
      BY <1>4
    <2>4. \A j \in Owned : image[j].slot # next
      BY <1>3, <2>3
    <2>5. OwnSlots'
      BY <1>4, <2>2, <2>4 DEF OwnSlots
    <2>6. SlotsKept'
      <3>1. 0 .. next' - 1 = (0 .. next - 1) \cup {next}
        BY <1>3, <2>1
      <3>2. Range(free') \cup {image'[j].slot : j \in Owned'} = 0 .. next' - 1
        BY <1>4, <2>1, <2>2, <3>1
      <3>3. Len(free') = 0
        BY <1>10, <2>1
      <3>4. Len(free') + Cardinality(Owned') = next'
        BY <1>4, <1>5, <1>10, <2>1, <2>2, <3>3
      <3>5. next' <= Slots
        BY <1>3, <2>1, LoaderConstants
      <3> QED
        BY <1>2, <1>5, <1>7, <2>2, <3>2, <3>3, <3>4, <3>5 DEF SlotsKept
    <2> QED
      BY <1>8, <2>5, <2>6
  <1> QED
    BY <1>9, <1>10

(* What an image leaves is handed back. *)
LEMMA SlotGiven ==
  ASSUME LoaderInv, NEW t \in Threads, GiveSlot(t), NEW i \in Images, i = Img(t)
  PROVE  OwnSlots' /\ SlotsKept' /\ IdsKept'
  <1> DEFINE s == image[i].slot
             n == Len(free)
  <1>1. JobOf(t) /\ Busy(t) /\ job[t].at = "give"
    BY JobFacts DEF GiveSlot, Busy, At
  <1>2. s >= 0 /\ platform = "linux" /\ i \in Owned
    BY <1>1 DEF JobOf, Owned
  <1>3. /\ image \in [Images -> [state : States, tls : BOOLEAN, slot : Nat \cup {-1}]]
        /\ free \in Seq(Nat) /\ next \in Nat /\ s \in Nat /\ n \in Nat
    BY <1>2 DEF LoaderInv, LoaderTypes
  <1>4. /\ next <= Slots /\ Range(free) \cup {image[j].slot : j \in Owned} = 0 .. next - 1
        /\ \A k \in 1 .. n : \A j \in Owned : free[k] # image[j].slot
        /\ \A k, m \in 1 .. n : free[k] = free[m] => k = m
        /\ IsFiniteSet(Owned) /\ n + Cardinality(Owned) = next
        /\ \A j, k \in Owned : image[j].slot = image[k].slot => j = k
        /\ Owned # {} => array = 1
    BY <1>2 DEF LoaderInv, SlotsKept, OwnSlots
  <1>5. /\ IsFiniteSet(Owned \ {i}) /\ Cardinality(Owned \ {i}) = Cardinality(Owned) - 1
        /\ Cardinality(Owned) \in Nat /\ Cardinality(Owned \ {i}) \in Nat
    BY <1>2, <1>4, FS_RemoveElement, FS_CardinalityType
  <1>6. n < Slots
    BY <1>3, <1>4, <1>5, LoaderConstants
  <1>7. free' = Append(free, s) /\ Forget(t) /\ UNCHANGED <<platform, array, next>>
    BY <1>6 DEF GiveSlot
  <1>8. /\ image'[i].slot = -1 /\ \A j \in Images : j # i => image'[j] = image[j]
    BY <1>3, <1>7 DEF Forget
  <1>9. Owned' = Owned \ {i} /\ \A j \in Owned' : image'[j].slot = image[j].slot
    BY <1>8 DEF Owned
  <1>10. /\ Len(free') = n + 1 /\ free'[n + 1] = s /\ \A k \in 1 .. n : free'[k] = free[k]
         /\ DOMAIN free' = 1 .. n + 1 /\ DOMAIN free = 1 .. n
         /\ 1 .. n + 1 = (1 .. n) \cup {n + 1}
    BY <1>3, <1>7
  <1>11. \A j \in Owned' : image[j].slot # s
    BY <1>2, <1>4, <1>9
  <1>12. OwnSlots'
    BY <1>4, <1>9 DEF OwnSlots
  <1>13. IdsKept'
    BY <1>2, <1>7 DEF IdsKept
  <1>14. SlotsKept'
    <2>1. Range(free') = Range(free) \cup {s}
      BY <1>10 DEF Range
    <2>2. {image[j].slot : j \in Owned} = {image'[j].slot : j \in Owned'} \cup {s}
      BY <1>2, <1>9
    <2>3. Range(free') \cup {image'[j].slot : j \in Owned'} = 0 .. next' - 1
      BY <1>4, <1>7, <2>1, <2>2
    <2>4. \A k \in 1 .. Len(free') : \A j \in Owned' : free'[k] # image'[j].slot
      BY <1>4, <1>9, <1>10, <1>11
    <2>5. \A k, m \in 1 .. Len(free') : free'[k] = free'[m] => k = m
      BY <1>2, <1>4, <1>10
    <2>6. Len(free') + Cardinality(Owned') = next'
      BY <1>3, <1>4, <1>5, <1>7, <1>9, <1>10
    <2> QED
      BY <1>2, <1>4, <1>5, <1>7, <1>9, <2>3, <2>4, <2>5, <2>6 DEF SlotsKept
  <1> QED
    BY <1>12, <1>13, <1>14

(* On Windows an image takes an id that no image and no block has had. *)
LEMMA IdTaken ==
  ASSUME LoaderInv, NEW t \in Threads, TakeId(t), NEW i \in Images, i = Img(t)
  PROVE  OwnSlots' /\ SlotsKept' /\ IdsKept'
  <1>1. /\ JobOf(t) /\ Busy(t) /\ job[t].at = "id"
    BY JobFacts DEF TakeId, Busy, At
  <1>2. platform = "win32" /\ image[i].slot = -1
    BY <1>1 DEF JobOf
  <1>3. /\ image \in [Images -> [state : States, tls : BOOLEAN, slot : Nat \cup {-1}]]
        /\ next \in Nat /\ \A u \in Threads : \A n \in nodes[u] : n.id \in Nat
        /\ \A j \in Images : image[j].slot \in Nat \cup {-1}
    BY DEF LoaderInv, LoaderTypes
  <1>4. /\ image' = [image EXCEPT ![i].slot = next + 1] /\ next' = next + 1
        /\ UNCHANGED <<platform, nodes>>
    BY DEF TakeId
  <1>5. image'[i].slot = next + 1 /\ \A j \in Images : j # i => image'[j] = image[j]
    BY <1>3, <1>4
  <1>6. Owned' = Owned \cup {i} /\ \A j \in Owned : j # i /\ image'[j].slot = image[j].slot
    BY <1>2, <1>3, <1>5 DEF Owned
  <1>7. \A j \in Owned : image[j].slot \in 1 .. next
    BY <1>2 DEF LoaderInv, IdsKept
  <1>8. OwnSlots'
    <2>1. \A j \in Owned : image'[j].slot # next + 1
      BY <1>3, <1>6, <1>7
    <2> QED
      BY <1>5, <1>6, <2>1 DEF LoaderInv, OwnSlots
  <1>9. \A j \in Owned' : image'[j].slot \in 1 .. next'
    BY <1>3, <1>4, <1>5, <1>6, <1>7
  <1>10. ASSUME NEW u \in Threads, NEW n \in nodes'[u]
         PROVE  n.id \in 1 .. next' /\ \A j \in Images : image'[j].slot = n.id => j = n.img
    <2>1. n \in nodes[u]
      BY <1>4
    <2>2. n.id \in 1 .. next /\ \A j \in Images : image[j].slot = n.id => j = n.img
      BY <1>2, <2>1 DEF LoaderInv, IdsKept
    <2> QED
      BY <1>3, <1>4, <1>5, <2>2
  <1> QED
    BY <1>2, <1>4, <1>8, <1>9, <1>10 DEF IdsKept, SlotsKept

(* A thread's first use of an image's storage puts its block in the list. *)
LEMMA Entered ==
  ASSUME LoaderInv, NEW t \in Threads, NEW i \in Images, Enter(t, i)
  PROVE  OwnSlots' /\ SlotsKept' /\ IdsKept'
  <1>1. /\ platform = "win32" /\ UNCHANGED <<platform, image, next>>
        /\ image[i].state = "loaded" /\ image[i].tls
        /\ nodes \in [Threads -> SUBSET [id : Nat, img : Images]]
        /\ nodes' = [nodes EXCEPT ![t] = @ \cup {[id |-> image[i].slot, img |-> i]}]
    BY DEF Enter, LoaderInv, LoaderTypes
  <1>2. i \in Owned /\ Owned' = Owned
    BY <1>1 DEF LoaderInv, ImagesKept, ImageOf, Placed, Owned
  <1>3. /\ \A j \in Owned : image[j].slot \in 1 .. next
        /\ \A u \in Threads : \A n \in nodes[u] :
             n.id \in 1 .. next /\ \A j \in Images : image[j].slot = n.id => j = n.img
        /\ \A j, k \in Owned : image[j].slot = image[k].slot => j = k
    BY <1>1 DEF LoaderInv, IdsKept, OwnSlots
  <1>4. ASSUME NEW u \in Threads, NEW n \in nodes'[u]
        PROVE  n.id \in 1 .. next /\ \A j \in Images : image[j].slot = n.id => j = n.img
    <2>1. CASE n \in nodes[u]
      BY <1>3, <2>1
    <2>2. CASE n \notin nodes[u]
      <3>1. n = [id |-> image[i].slot, img |-> i]
        BY <1>1, <2>2
      <3>2. n.id = image[i].slot /\ n.img = i
        BY <3>1
      <3>3. ASSUME NEW j \in Images, image[j].slot = image[i].slot PROVE j = i
        <4>1. j \in Owned
          BY <1>2, <3>3 DEF Owned
        <4> QED BY <1>2, <1>3, <3>3, <4>1
      <3> QED
        BY <1>2, <1>3, <3>2, <3>3
    <2> QED BY <2>1, <2>2
  <1>5. IdsKept'
    BY <1>1, <1>2, <1>3, <1>4 DEF IdsKept
  <1> QED
    BY <1>1, <1>2, <1>3, <1>5 DEF SlotsKept, OwnSlots

(* An image without a slot of the array's, on Linux, is forgotten with the
   rest; an id is forgotten too. *)
LEMMA Forgotten ==
  ASSUME LoaderInv, NEW t \in Threads, UnloadRest(t), NEW i \in Images, i = Img(t)
  PROVE  OwnSlots' /\ SlotsKept' /\ IdsKept'
  <1>1. /\ image \in [Images -> [state : States, tls : BOOLEAN, slot : Nat \cup {-1}]]
        /\ platform \in {"linux", "win32"} /\ image[i].slot \in Nat \cup {-1}
        /\ array \in {0, 1} /\ \A u \in Threads : \A n \in nodes[u] : n.id \in Nat
    BY DEF LoaderInv, LoaderTypes
  <1>2. /\ UNCHANGED <<platform, array, next, free, nodes>> /\ ~HasSlot(t)
        /\ image'[i].slot = -1 /\ \A j \in Images : j # i => image'[j] = image[j]
    BY <1>1 DEF UnloadRest, Forget
  <1>3. CASE platform = "linux"
    <2>1. image[i].slot = -1
      <3>1. i \in Owned => array = 1
        BY <1>3 DEF LoaderInv, SlotsKept
      <3> QED
        BY <1>1, <1>2, <1>3, <3>1 DEF HasSlot, Owned
    <2>2. \A j \in Images : image'[j].slot = image[j].slot
      BY <1>2, <2>1
    <2> QED
      BY <1>2, <2>2, SlotsStill
  <1>4. CASE platform = "win32"
    <2>1. Owned' = Owned \ {i} /\ \A j \in Owned' : image'[j].slot = image[j].slot
      BY <1>2 DEF Owned
    <2>2. OwnSlots'
      BY <2>1 DEF LoaderInv, OwnSlots
    <2>3. \A j \in Images, n \in Nat : image'[j].slot = n => image[j].slot = n
      BY <1>2
    <2>4. IdsKept'
      BY <1>1, <1>2, <1>4, <2>1, <2>3 DEF LoaderInv, IdsKept
    <2> QED
      BY <1>2, <1>4, <2>2, <2>4 DEF SlotsKept
  <1> QED
    BY <1>1, <1>3, <1>4

LEMMA SlotsNext ==
  ASSUME LoaderInv, LoaderTypes', NEW t \in Threads, Work(t), NEW i \in Images, i = Img(t)
  PROVE  OwnSlots' /\ SlotsKept' /\ IdsKept'
  <1>1. image \in [Images -> [state : States, tls : BOOLEAN, slot : Nat \cup {-1}]]
    BY DEF LoaderInv, LoaderTypes
  <1>2. CASE Fail(t) \/ Entry(t)
    <2>1. \A j \in Images : image'[j].slot = image[j].slot
      BY <1>1, <1>2 DEF Fail, Entry
    <2>2. UNCHANGED <<platform, next, free, nodes, array>>
      BY <1>2 DEF Fail, Entry
    <2> QED
      BY <2>1, <2>2, SlotsStill
  <1>3. CASE Map(t) \/ StoreBlock(t) \/ ClearSlot(t)
    BY <1>3, SlotsStill DEF Map, StoreBlock, ClearSlot
  <1>4. CASE NewArray(t)
    <2>1. array = 0
      BY <1>4, JobFacts DEF JobOf, NewArray, Busy, At
    <2>2. Len(arrays') = 1 /\ array' = Len(arrays')
      BY <1>4, <2>1 DEF NewArray, LoaderInv, LoaderTypes
    <2> QED
      BY <1>4, <2>2, SlotsStill DEF NewArray
  <1> QED
    BY <1>2, <1>3, <1>4, SlotTaken, SlotGiven, IdTaken, Forgotten DEF Work

LEMMA LoaderNext == Serial /\ LoaderInv /\ [Next]_vars => LoaderInv'
  <1> SUFFICES ASSUME Serial, LoaderInv, [Next]_vars PROVE LoaderInv'
    OBVIOUS
  <1>1. CASE UNCHANGED vars
    BY <1>1 DEF vars, LoaderInv, LoaderTypes, OneAtATime, Jobs, JobOf, Busy, At, Img, ImagesKept,
       ImageOf, Placed, OwnSlots, Owned, SlotsKept, IdsKept
  <1>2. CASE Next
    <2>1. LoaderTypes'
      BY <1>2, TypesNext
    <2> PICK t \in Threads :
          \/ ThreadAttach(t) \/ Work(t)
          \/ \E i \in Images : Load(t, i) \/ Enter(t, i) \/ Unload(t, i)
      BY <1>2 DEF Next, Work
    <2>2. ASSUME UNCHANGED <<platform, image, job, array, arrays>>
          PROVE  OneAtATime' /\ Jobs' /\ ImagesKept'
      BY <2>2 DEF LoaderInv, OneAtATime, Jobs, JobOf, Busy, At, Img, ImagesKept, ImageOf, Placed
    <2>3. CASE ThreadAttach(t)
      BY <2>1, <2>2, <2>3, SlotsStill DEF ThreadAttach, LoaderInv
    <2>4. CASE Work(t)
      <3>1. PICK i \in Images : i = Img(t)
        BY <2>4, JobFacts, WorkIsBusy
      <3> QED
        BY <2>1, <2>4, <3>1, JobsNext, SlotsNext DEF LoaderInv
    <2>5. ASSUME NEW i \in Images, Load(t, i) \/ Unload(t, i) PROVE LoaderInv'
      <3>1. /\ image \in [Images -> [state : States, tls : BOOLEAN, slot : Nat \cup {-1}]]
            /\ image[i].state = "new" => image[i].slot = -1
        BY DEF LoaderInv, LoaderTypes, ImagesKept, ImageOf
      <3>2. \A j \in Images : image'[j].slot = image[j].slot
        BY <2>5, <3>1 DEF Load, Unload
      <3>3. UNCHANGED <<platform, next, free, nodes, array>>
        BY <2>5 DEF Load, Unload
      <3> QED
        BY <2>1, <2>5, <3>2, <3>3, StartsNext, SlotsStill DEF LoaderInv
    <2>6. ASSUME NEW i \in Images, Enter(t, i) PROVE LoaderInv'
      BY <2>1, <2>2, <2>6, Entered DEF Enter, LoaderInv
    <2> QED
      BY <2>3, <2>4, <2>5, <2>6
  <1> QED
    BY <1>1, <1>2

LEMMA LoaderInductive == ASSUME Serial PROVE Spec => []LoaderInv
  BY LoaderInit, LoaderNext, PTL DEF Spec

(* Of any images loaded and unloaded one at a time, whichever loads fail and
   however the slots go round, every thread finds the storage of the one it
   enters, and no other's. *)
THEOREM LoaderFinds == ASSUME Serial PROVE Spec => []EachFindsItsOwn
  <1>1. LoaderInv => EachFindsItsOwn
    <2> SUFFICES ASSUME LoaderInv, NEW t \in Threads, NEW i \in Images, Loaded(i)
                 PROVE  Finds(t, i)
      BY DEF EachFindsItsOwn
    <2>1. Placed(i)
      BY DEF LoaderInv, ImagesKept, ImageOf, Loaded
    <2>2. CASE platform = "linux"
      <3>1. Attached(t).array = array
        BY <2>2 DEF LoaderInv, LoaderTypes, Attached
      <3> QED
        BY <2>1, <2>2, <3>1 DEF Finds, Placed
    <2>3. CASE platform # "linux"
      <3>1. platform = "win32"
        BY <2>3 DEF LoaderInv, LoaderTypes
      <3> QED
        BY <2>3, <3>1 DEF LoaderInv, IdsKept, Finds
    <2> QED
      BY <2>2, <2>3
  <1> QED
    BY <1>1, LoaderInductive, PTL

(* A slot that was ever used is free, a loaded image's or lost to a load that
   failed, so only those run out. *)
THEOREM LoaderAccounts == ASSUME Serial PROVE Spec => []SlotsAccounted
  <1>1. LoaderInv => SlotsAccounted
    <2> SUFFICES ASSUME LoaderInv, platform = "linux", \A t \in Threads : At(t, "idle")
                 PROVE  /\ Range(free) \cup {image[i].slot : i \in Holding} = 0..(next - 1)
                        /\ Len(free) + Cardinality(Holding) = next
      BY DEF SlotsAccounted
    <2>1. Holding = Owned
      <3>1. \A t \in Threads : ~Busy(t)
        BY DEF Busy
      <3>2. \A i \in Images : ImageOf(i) /\ image[i].state \in States
        BY DEF LoaderInv, LoaderTypes, ImagesKept
      <3>3. \A i \in Owned : image[i].state \in {"loaded", "failed"}
        BY <3>1, <3>2 DEF ImageOf, Owned, States
      <3> QED
        BY <3>3 DEF Holding, Owned
    <2> QED
      BY <2>1 DEF LoaderInv, SlotsKept
  <1> QED
    BY <1>1, LoaderInductive, PTL

-----------------------------------------------------------------------------
(* The patch. *)

(* Nothing was written at a place. *)
Plain(i) == code[i] = Straight(<<i>>, Needs(row[i]))

Cell == [does : Seq(Nat), part : Nat]
Code == [does : Seq(Nat), needs : {"sse1", "sse2", "sse3"}, to : Nat]
Phases == {"check", "sites", "conversions", "adds", "pairs", "end"}

ShimTypes ==
  /\ row \in Rows /\ other \subseteq 1 .. Length
  /\ code \in [1 .. Length -> Code]
  /\ arena \in Seq(Cell) /\ used \in 0 .. Len(arena)
  /\ hits \in Nat /\ left \in Nat /\ done \in Int
  /\ at \in 1 .. Length + 1 /\ phase \in Phases
  /\ want3 \in BOOLEAN /\ near \in BOOLEAN

(* The cells a place's stub would take. *)
SizeAt(i) == IF row[i] = "load" THEN 1 ELSE 2

(* A stub that is gone to lies in the cells that were used. *)
StubsKept == \A i \in 1 .. Length : code[i].to # 0 => code[i].to + SizeAt(i) - 1 <= used

(* What a pass has still to rewrite is as it was. *)
PlainYet ==
  /\ phase = "check" => at = 1 /\ \A i \in 1 .. Length : Plain(i)
  /\ phase = "sites" => \A i \in 1 .. Length :
                          i >= at \/ row[i] \notin InPlace \cup Called => Plain(i)
  /\ phase = "conversions" => \A k \in Conversions :
                                k >= at => Plain(Span(row, k)[1]) /\ Plain(Span(row, k)[2])

Interval(i, n) == [k \in 1 .. n |-> i + k - 1]

(* Each place runs the w[i] instructions from its own on, or none if one
   before it runs it. *)
TiledBy(w) ==
  \A i \in 1 .. Length :
    /\ Runs(i) = Interval(i, w[i])
    /\ i + w[i] - 1 <= Length
    /\ \A k \in i + 1 .. i + w[i] - 1 : w[k] = 0
    /\ w[i] = 0 => \E h \in 1 .. i - 1 : h + w[h] - 1 >= i

Tiled == \E w \in [1 .. Length -> Nat] : TiledBy(w)

Others == Sites \ Conversions
On2(set) == {i \in set : code[i].needs = "sse2"}
Before(set) == {i \in set : i < at}

(* The first pass's counts. *)
CountedYet ==
  /\ phase = "check" => hits = 0 /\ left = 0
  /\ phase = "sites" => /\ hits + left = Cardinality(Before(Others))
                        /\ left = Cardinality(On2(Before(Others)))
  /\ phase = "conversions" => /\ hits + left = Cardinality(Others) + Cardinality(Before(Conversions))
                              /\ left = Cardinality(On2(Others))
                              /\ \A i \in Before(Conversions) : code[i].needs = "sse1"
  /\ phase \in {"adds", "pairs", "end"} /\ done > 0 =>
       left = Cardinality(On2(Sites)) /\ done + left = Cardinality(Sites)

(* A pair of adds that is as it was. *)
Pair(i) == row[i] = "add" /\ row[i + 1] = "add" /\ Untouched(i) /\ Untouched(i + 1)

PairsGone ==
  phase \in {"pairs", "end"} /\ want3 /\ near =>
    \A i \in 1 .. Length - 1 : phase = "end" \/ i < at => ~Pair(i)

ShimInv == ShimTypes /\ StubsKept /\ PlainYet /\ Tiled /\ CountedYet /\ PairsGone

LEMMA ShimConstants == Length \in Nat /\ ArenaLens \subseteq Nat
  BY ShimAssumption

(* A conversion's span: two places, one of them its own and the other an SSE1
   instruction that is in no other. *)
LEMMA SpanFacts ==
  ASSUME row \in Rows, NEW k \in Conversions
  PROVE  LET a == Span(row, k)[1]
             b == Span(row, k)[2]
         IN /\ a \in 1 .. Length /\ b \in 1 .. Length /\ b = a + 1 /\ k \in {a, b}
            /\ \A n \in {a, b} : row[n] \in Converted \cup {"sse1"}
            /\ \A n \in {a, b} : n # k => row[n] = "sse1"
            /\ \A j \in Conversions : j # k => Span(row, j)[1] \notin {a, b}
                                               /\ Span(row, j)[2] \notin {a, b}
  <1> DEFINE a == Span(row, k)[1]
             b == Span(row, k)[2]
  <1>1. k \in 1 .. Length /\ row[k] \in Converted /\ Length \in Nat
    BY ShimConstants DEF Conversions
  <1>2. \A j \in Conversions : Range(Span(row, j)) = {Span(row, j)[1], Span(row, j)[2]}
    <2> SUFFICES ASSUME NEW j \in Conversions
                 PROVE  Range(Span(row, j)) = {Span(row, j)[1], Span(row, j)[2]}
      OBVIOUS
    <2>1. \A x, y : Range(<<x, y>>) = {<<x, y>>[1], <<x, y>>[2]}
      BY DEF Range
    <2> QED
      BY <2>1 DEF Span
  <1>3. /\ a >= 1 /\ b <= Length
        /\ \A n \in Range(Span(row, k)) \ {k} : row[n] = "sse1"
        /\ \A j \in 1 .. Length : j # k /\ row[j] \in Converted =>
             Range(Span(row, j)) \cap Range(Span(row, k)) = {}
    BY <1>1 DEF Rows
  <1>4. \/ a = k /\ b = k + 1
        \/ a = k - 1 /\ b = k
    BY DEF Span
  <1>5. a \in 1 .. Length /\ b \in 1 .. Length /\ b = a + 1 /\ k \in {a, b}
    BY <1>1, <1>3, <1>4
  <1>6. \A n \in {a, b} : n # k => row[n] = "sse1"
    BY <1>2, <1>3
  <1>7. \A j \in Conversions : j # k => Span(row, j)[1] \notin {a, b}
                                        /\ Span(row, j)[2] \notin {a, b}
    <2> SUFFICES ASSUME NEW j \in Conversions, j # k
                 PROVE  {Span(row, j)[1], Span(row, j)[2]} \cap {a, b} = {}
      OBVIOUS
    <2>1. j \in 1 .. Length /\ row[j] \in Converted
      BY DEF Conversions
    <2> QED
      BY <1>2, <1>3, <2>1
  <1> QED
    BY <1>1, <1>5, <1>6, <1>7

LEMMA KindsDiffer ==
  /\ \A kind : kind \in Converted => kind \notin InPlace \cup Called /\ kind \in Site
                                     /\ kind # "load" /\ kind # "add" /\ kind # "sse1"
  /\ \A kind : kind \in InPlace \cup Called => kind \in Site /\ kind # "add" /\ kind # "sse1"
  /\ "sse1" \notin Site /\ "add" \notin Site /\ "store" \notin Site
  BY DEF Converted, InPlace, Called, Site

LEMMA PlainFacts ==
  ASSUME NEW i \in 1 .. Length, Plain(i)
  PROVE  /\ code[i].does = <<i>> /\ code[i].to = 0 /\ code[i].needs = Needs(row[i])
         /\ Runs(i) = <<i>>
  BY DEF Plain, Straight, Runs

(* A new stub takes cells that no other has, and holds what it was given. *)
LEMMA StubFacts ==
  ASSUME ShimTypes, NEW kind, Fits(kind), NEW ops \in Seq(Nat), NEW size \in {1, 2},
         kind = "load" => size = 1, arena' = Stub(ops, size)
  PROVE  /\ arena' \in Seq(Cell) /\ Len(arena') = Len(arena) /\ used + size \in 0 .. Len(arena)
         /\ \A c \in 1 .. used : arena'[c] = arena[c]
         /\ \A n \in 1 .. size : arena'[used + n] = [does |-> ops, part |-> n]
  <1>1. /\ arena \in Seq(Cell) /\ used \in 0 .. Len(arena) /\ Len(arena) \in Nat
        /\ DOMAIN arena = 1 .. Len(arena)
    BY DEF ShimTypes
  <1>2. used + size <= Len(arena)
    BY <1>1 DEF Fits, Asked
  <1>3. \A c \in 1 .. Len(arena) :
          (IF c \in used + 1 .. used + size THEN [does |-> ops, part |-> c - used] ELSE arena[c])
            \in Cell
    <2> SUFFICES ASSUME NEW c \in 1 .. Len(arena)
                 PROVE  (IF c \in used + 1 .. used + size
                         THEN [does |-> ops, part |-> c - used] ELSE arena[c]) \in Cell
      OBVIOUS
    <2>1. arena[c] \in Cell
      BY <1>1
    <2>2. c \in used + 1 .. used + size => c - used \in Nat
      BY <1>1
    <2> QED
      BY <2>1, <2>2 DEF Cell
  <1>4. arena' = [c \in 1 .. Len(arena) |->
                    IF c \in used + 1 .. used + size THEN [does |-> ops, part |-> c - used]
                    ELSE arena[c]]
    BY <1>1 DEF Stub
  <1>5. arena' \in Seq(Cell) /\ Len(arena') = Len(arena)
    BY <1>1, <1>3, <1>4
  <1>6. \A c \in 1 .. used : arena'[c] = arena[c]
    BY <1>1, <1>4
  <1>7. ASSUME NEW n \in 1 .. size PROVE arena'[used + n] = [does |-> ops, part |-> n]
    <2>1. used + n \in 1 .. Len(arena) /\ used + n \in used + 1 .. used + size
          /\ (used + n) - used = n
      BY <1>1, <1>2
    <2> QED
      BY <1>4, <2>1
  <1> QED
    BY <1>1, <1>2, <1>5, <1>6, <1>7

(* What a place runs is kept if it is, or its stub is. *)
LEMMA RunsStill ==
  ASSUME ShimTypes, StubsKept, NEW i \in 1 .. Length, code'[i] = code[i], row' = row,
         \A c \in 1 .. used : arena'[c] = arena[c]
  PROVE  Runs(i)' = Runs(i)
  <1>1. CASE code[i].to = 0
    BY <1>1 DEF Runs
  <1>2. CASE code[i].to # 0
    <2> DEFINE c == code[i].to
               size == SizeAt(i)
    <2>1. c \in Nat \ {0} /\ c + size - 1 <= used /\ used \in Nat /\ size \in {1, 2}
      <3>1. code[i] \in Code /\ used \in 0 .. Len(arena) /\ Len(arena) \in Nat
        BY DEF ShimTypes
      <3> QED
        BY <1>2, <3>1 DEF Code, StubsKept, SizeAt
    <2>2. \A n \in 1 .. size : c + n - 1 \in 1 .. used
      BY <2>1
    <2>3. \A n \in 1 .. size : arena'[c + n - 1] = arena[c + n - 1]
      BY <2>2
    <2>4. arena'[c] = arena[c]
      BY <2>1
    <2> QED
      BY <1>2, <2>3, <2>4 DEF Runs, SizeAt
  <1> QED
    BY <1>1, <1>2

(* What a place that goes to a new stub runs. *)
LEMMA RunsStub ==
  ASSUME NEW i, NEW ops, used \in Nat, row' = row, code'[i] = To(used + 1),
         \A n \in 1 .. SizeAt(i) : arena'[used + n] = [does |-> ops, part |-> n]
  PROVE  Runs(i)' = ops
  <1> DEFINE size == SizeAt(i)
  <1>1. code'[i].to = used + 1 /\ used + 1 # 0
    BY DEF To
  <1>2. size \in {1, 2}
    BY DEF SizeAt
  <1>3. \A n \in 1 .. size : (used + 1) + n - 1 = used + n
    BY <1>2
  <1>4. arena'[used + 1] = [does |-> ops, part |-> 1]
    BY <1>2
  <1>5. \A n \in 1 .. size :
          arena'[(used + 1) + n - 1] = [does |-> arena'[used + 1].does, part |-> n]
    BY <1>3, <1>4
  <1> QED
    BY <1>1, <1>4, <1>5 DEF Runs, SizeAt

-----------------------------------------------------------------------------
(* What runs where. *)

LEMMA TiledStill ==
  ASSUME Tiled, \A i \in 1 .. Length : Runs(i)' = Runs(i)
  PROVE  Tiled'
  BY DEF Tiled, TiledBy

LEMMA IntervalIsOne ==
  ASSUME NEW i \in Nat, NEW n \in Nat, Interval(i, n) = <<i>>
  PROVE  n = 1
  <1>1. Len(<<i>>) = 1
    OBVIOUS
  <1>2. Len(Interval(i, n)) = n
    BY DEF Interval
  <1> QED
    BY <1>1, <1>2

(* Places that ran an instruction each become one that runs all of them. *)
LEMMA TiledMerge ==
  ASSUME Tiled, NEW a \in 1 .. Length, NEW n \in Nat \ {0}, a + n - 1 <= Length,
         \A k \in a .. a + n - 1 : Runs(k) = <<k>>,
         Runs(a)' = Interval(a, n),
         \A k \in a + 1 .. a + n - 1 : Runs(k)' = <<>>,
         \A i \in 1 .. Length : i \notin a .. a + n - 1 => Runs(i)' = Runs(i)
  PROVE  Tiled'
  <1> DEFINE span == a .. a + n - 1
  <1>1. Length \in Nat
    BY ShimConstants
  <1>2. PICK w \in [1 .. Length -> Nat] : TiledBy(w)
    BY DEF Tiled
  <1> DEFINE v == [i \in 1 .. Length |-> IF i \in span THEN (IF i = a THEN n ELSE 0) ELSE w[i]]
  <1>3. \A k \in span : k \in 1 .. Length /\ w[k] = 1
    <2> SUFFICES ASSUME NEW k \in span PROVE k \in 1 .. Length /\ w[k] = 1
      OBVIOUS
    <2>1. k \in 1 .. Length
      BY <1>1
    <2>2. Interval(k, w[k]) = <<k>>
      BY <1>2, <2>1 DEF TiledBy
    <2> QED
      BY <1>2, <2>1, <2>2, IntervalIsOne
  <1>4. v \in [1 .. Length -> Nat]
    BY <1>2
  <1>5. a \in span /\ v[a] = n
    BY <1>1
  <1>6. ASSUME NEW i \in 1 .. Length
        PROVE  /\ Runs(i)' = Interval(i, v[i])
               /\ i + v[i] - 1 <= Length
               /\ \A k \in i + 1 .. i + v[i] - 1 : v[k] = 0
               /\ v[i] = 0 => \E h \in 1 .. i - 1 : h + v[h] - 1 >= i
    <2>1. CASE i = a
      <3>1. \A k \in a + 1 .. a + n - 1 : k \in span /\ k # a /\ k \in 1 .. Length
        BY <1>3
      <3> QED
        BY <1>5, <2>1, <3>1
    <2>2. CASE i \in span /\ i # a
      <3>1. v[i] = 0 /\ i \in a + 1 .. a + n - 1
        BY <2>2
      <3>2. Interval(i, 0) = <<>>
        BY DEF Interval
      <3>3. i + 0 - 1 <= Length /\ i + 1 .. i + 0 - 1 = {}
        BY <1>1
      <3>4. a \in 1 .. i - 1 /\ a + v[a] - 1 >= i
        BY <1>5, <3>1
      <3> QED
        BY <3>1, <3>2, <3>3, <3>4
    <2>3. CASE i \notin span
      <3>1. v[i] = w[i]
        BY <2>3
      <3>2. /\ Runs(i) = Interval(i, w[i])
            /\ i + w[i] - 1 <= Length
            /\ \A k \in i + 1 .. i + w[i] - 1 : w[k] = 0
            /\ w[i] = 0 => \E h \in 1 .. i - 1 : h + w[h] - 1 >= i
        BY <1>2 DEF TiledBy
      <3>3. \A k \in i + 1 .. i + v[i] - 1 : v[k] = 0
        <4> SUFFICES ASSUME NEW k \in i + 1 .. i + w[i] - 1 PROVE v[k] = 0
          BY <3>1
        <4>1. w[k] = 0 /\ k \in 1 .. Length
          BY <1>1, <1>2, <3>2
        <4> QED
          BY <1>3, <4>1
      <3>4. ASSUME v[i] = 0 PROVE \E h \in 1 .. i - 1 : h + v[h] - 1 >= i
        <4>1. PICK h \in 1 .. i - 1 : h + w[h] - 1 >= i
          BY <3>1, <3>2, <3>4
        <4>2. h \in 1 .. Length
          BY <1>1
        <4>3. h \notin span
          BY <1>3, <4>1
        <4> QED
          BY <4>1, <4>2, <4>3
      <3>5. Runs(i)' = Runs(i)
        BY <2>3
      <3> QED
        BY <3>1, <3>2, <3>3, <3>4, <3>5
    <2> QED
      BY <2>1, <2>2, <2>3
  <1>7. TiledBy(v)'
    BY <1>6 DEF TiledBy
  <1> QED
    BY <1>4, <1>7 DEF Tiled

-----------------------------------------------------------------------------
(* What all of it computes, one place after another. *)

LEMMA Least ==
  ASSUME NEW S, S \subseteq Nat, S # {}
  PROVE  \E x \in S : \A y \in S : ~ y < x
  <1>1. \E x \in S : \A y \in S : ~ (<<y, x>> \in OpToRel(<, Nat))
    BY NatLessThanWellFounded, WFMin
  <1>2. \A x, y \in S : y < x => <<y, x>> \in OpToRel(<, Nat)
    BY Zenon DEF OpToRel
  <1> QED
    BY <1>1, <1>2, Zenon

LEMMA SetInduction ==
  ASSUME NEW S, 0 \in S, \A n \in Nat : n \in S => n + 1 \in S
  PROVE  Nat \subseteq S
  <1> DEFINE T == Nat \ S
  <1> SUFFICES ASSUME T # {} PROVE FALSE
    OBVIOUS
  <1>1. PICK x \in T : \A y \in T : ~ y < x
    BY Least
  <1> QED
    BY <1>1

(* ops is what the first of the pieces do, for 0 .. N of them. *)
Joined(ops, N, piece) ==
  ops = [i \in 0 .. N |-> IF i = 0 THEN <<>> ELSE ops[i - 1] \o piece[i]]

LEMMA JoinedExists ==
  ASSUME NEW piece, NEW N \in Nat
  PROVE  \E ops : Joined(ops, N, piece)
  <1> DEFINE S == {n \in Nat : \E f : Joined(f, n, piece)}
  <1>1. 0 \in S
    <2> DEFINE f == [k \in 0 .. 0 |-> <<>>]
    <2>1. Joined(f, 0, piece)
      BY DEF Joined
    <2> QED
      BY <2>1
  <1>2. ASSUME NEW n \in Nat, n \in S
        PROVE  n + 1 \in S
    <2>1. PICK f : Joined(f, n, piece)
      BY <1>2
    <2> DEFINE g == [k \in 0 .. n + 1 |-> IF k = n + 1 THEN f[n] \o piece[n + 1] ELSE f[k]]
    <2>2. Joined(g, n + 1, piece)
      <3>1. ASSUME NEW k \in 0 .. n + 1
            PROVE  g[k] = IF k = 0 THEN <<>> ELSE g[k - 1] \o piece[k]
        <4>1. CASE k = n + 1
          <5>1. k # 0 /\ k - 1 = n /\ n \in 0 .. n + 1 /\ n # n + 1
            BY <4>1
          <5>2. g[n] = f[n]
            BY <5>1
          <5> QED
            BY <4>1, <5>1, <5>2
        <4>2. CASE k \in 0 .. n
          <5>1. f[k] = IF k = 0 THEN <<>> ELSE f[k - 1] \o piece[k]
            BY <2>1, <4>2 DEF Joined
          <5>2. g[k] = f[k] /\ (k # 0 => g[k - 1] = f[k - 1])
            BY <4>2
          <5> QED
            BY <5>1, <5>2
        <4> QED
          BY <4>1, <4>2
      <3> QED
        BY <3>1 DEF Joined
    <2> QED
      BY <2>2
  <1>3. Nat \subseteq S
    <2> HIDE DEF S
    <2> QED BY <1>1, <1>2, SetInduction
  <1> QED
    BY <1>3

Upto(e) == [k \in 1 .. e |-> k]

LEMMA UptoInterval ==
  ASSUME NEW i \in Nat, NEW n \in Nat
  PROVE  Upto(i) \o Interval(i + 1, n) = Upto(i + n)
  <1> DEFINE a == Upto(i)
             b == Interval(i + 1, n)
             c == Upto(i + n)
  <1>1. a \in Seq(Int) /\ Len(a) = i /\ \A k \in 1 .. i : a[k] = k
    BY DEF Upto
  <1>2. b \in Seq(Int) /\ Len(b) = n /\ \A k \in 1 .. n : b[k] = i + k
    <2>1. \A k \in 1 .. n : (i + 1) + k - 1 = i + k
      OBVIOUS
    <2> QED
      BY <2>1 DEF Interval
  <1>3. c \in Seq(Int) /\ Len(c) = i + n /\ \A k \in 1 .. i + n : c[k] = k
    BY DEF Upto
  <1> HIDE DEF a, b, c
  <1>4. /\ a \o b \in Seq(Int) /\ Len(a \o b) = i + n
        /\ \A k \in 1 .. i + n : (a \o b)[k] = IF k <= i THEN a[k] ELSE b[k - i]
    BY <1>1, <1>2, ConcatProperties
  <1>5. \A k \in 1 .. i + n : (a \o b)[k] = c[k]
    BY <1>1, <1>2, <1>3, <1>4
  <1>6. a \o b = c
    BY <1>3, <1>4, <1>5, SeqEqual
  <1> QED
    BY <1>6 DEF a, b, c

(* By induction on the place: up to i, the instructions up to some e no less
   have been run, and the places up to e run none. *)
LEMMA TiledComputes ==
  ASSUME Tiled
  PROVE  SameProgram
  <1>1. Length \in Nat
    BY ShimConstants
  <1>2. PICK w \in [1 .. Length -> Nat] : TiledBy(w)
    BY DEF Tiled
  <1> DEFINE piece == [i \in 1 .. Length |-> Runs(i)]
             ops == CHOOSE ops : ops = [i \in 0 .. Length |->
                                          IF i = 0 THEN <<>> ELSE ops[i - 1] \o Runs(i)]
  <1>3. \A f : Joined(f, Length, piece)
               <=> f = [i \in 0 .. Length |-> IF i = 0 THEN <<>> ELSE f[i - 1] \o Runs(i)]
    <2> TAKE f
    <2>1. \A i \in 0 .. Length : (IF i = 0 THEN <<>> ELSE f[i - 1] \o piece[i])
                                 = IF i = 0 THEN <<>> ELSE f[i - 1] \o Runs(i)
      <3> SUFFICES ASSUME NEW i \in 0 .. Length, i # 0 PROVE piece[i] = Runs(i)
        OBVIOUS
      <3>1. i \in 1 .. Length
        BY <1>1
      <3> QED
        BY <3>1
    <2>2. [i \in 0 .. Length |-> IF i = 0 THEN <<>> ELSE f[i - 1] \o piece[i]]
          = [i \in 0 .. Length |-> IF i = 0 THEN <<>> ELSE f[i - 1] \o Runs(i)]
      BY <2>1, Zenon
    <2> QED
      BY <2>2, Zenon DEF Joined
  <1>4. \E f : f = [i \in 0 .. Length |-> IF i = 0 THEN <<>> ELSE f[i - 1] \o Runs(i)]
    BY <1>1, <1>3, JoinedExists, Zenon
  <1>5. ops = [i \in 0 .. Length |-> IF i = 0 THEN <<>> ELSE ops[i - 1] \o Runs(i)]
    BY <1>4, Zenon
  <1>6. Computed = ops[Length]
    BY Zenon DEF Computed
  <1> HIDE DEF ops
  <1>7. ops[0] = <<>> /\ \A i \in 1 .. Length : ops[i] = ops[i - 1] \o Runs(i)
    <2>1. 0 \in 0 .. Length /\ \A i \in 1 .. Length : i \in 0 .. Length /\ i # 0
      BY <1>1
    <2> QED
      BY <1>5, <2>1, Zenon
  <1> DEFINE Reaches(i, e) == /\ ops[i] = Upto(e)
                              /\ \A h \in 1 .. i : w[h] >= 1 => h + w[h] - 1 <= e
                              /\ \A k \in i + 1 .. e : w[k] = 0
             S == {i \in Nat : i <= Length => \E e \in i .. Length : Reaches(i, e)}
  <1>8. 0 \in S
    <2>1. Upto(0) = <<>>
      BY DEF Upto
    <2>2. Reaches(0, 0)
      BY <1>7, <2>1
    <2> QED
      BY <1>1, <2>2
  <1>9. ASSUME NEW i \in Nat, i \in S
        PROVE  i + 1 \in S
    <2> SUFFICES ASSUME i + 1 <= Length
                 PROVE  \E e \in i + 1 .. Length : Reaches(i + 1, e)
      OBVIOUS
    <2>1. PICK e \in i .. Length : Reaches(i, e)
      BY <1>1, <1>9
    <2>2. i + 1 \in 1 .. Length /\ w[i + 1] \in Nat /\ (i + 1) - 1 = i
      BY <1>1, <1>2
    <2>3. ops[i + 1] = Upto(e) \o Interval(i + 1, w[i + 1])
      <3>1. ops[i + 1] = ops[i] \o Runs(i + 1)
        BY <1>7, <2>2
      <3>2. Runs(i + 1) = Interval(i + 1, w[i + 1])
        BY <1>2, <2>2 DEF TiledBy
      <3> QED
        BY <2>1, <3>1, <3>2
    <2>4. CASE i + 1 <= e
      <3>1. w[i + 1] = 0
        BY <2>1, <2>4, <1>1
      <3>2. ops[i + 1] = Upto(e)
        <4>1. Interval(i + 1, 0) = <<>>
          BY DEF Interval
        <4>2. Upto(e) \in Seq(Int)
          BY <1>1 DEF Upto
        <4> QED
          BY <2>3, <3>1, <4>1, <4>2, ConcatEmptySeq
      <3>3. \A h \in 1 .. i + 1 : w[h] >= 1 => h + w[h] - 1 <= e
        <4> SUFFICES ASSUME NEW h \in 1 .. i + 1, w[h] >= 1 PROVE h + w[h] - 1 <= e
          OBVIOUS
        <4>1. h \in 1 .. i
          BY <3>1
        <4> QED
          BY <2>1, <4>1
      <3>4. \A k \in i + 2 .. e : w[k] = 0
        BY <2>1
      <3> QED
        BY <1>1, <2>4, <3>2, <3>3, <3>4
    <2>5. CASE i = e
      <3>1. w[i + 1] # 0
        <4> SUFFICES ASSUME w[i + 1] = 0 PROVE FALSE
          OBVIOUS
        <4>1. PICK h \in 1 .. (i + 1) - 1 : h + w[h] - 1 >= i + 1
          BY <1>2, <2>2 DEF TiledBy
        <4>2. h \in 1 .. i /\ h \in 1 .. Length /\ w[h] \in Nat
          BY <1>1, <1>2, <2>2
        <4>3. w[h] >= 1 /\ h + w[h] - 1 > e
          BY <2>5, <4>1, <4>2
        <4> QED
          BY <2>1, <4>2, <4>3
      <3> DEFINE d == i + w[i + 1]
      <3>2. d \in i + 1 .. Length
        <4>1. (i + 1) + w[i + 1] - 1 <= Length
          BY <1>2, <2>2 DEF TiledBy
        <4> QED
          BY <1>1, <2>2, <3>1, <4>1
      <3>3. ops[i + 1] = Upto(d)
        BY <2>2, <2>3, <2>5, UptoInterval
      <3>4. \A h \in 1 .. i + 1 : w[h] >= 1 => h + w[h] - 1 <= d
        <4> SUFFICES ASSUME NEW h \in 1 .. i + 1, w[h] >= 1 PROVE h + w[h] - 1 <= d
          OBVIOUS
        <4>1. w[h] \in Nat /\ h \in Nat
          BY <1>1, <1>2, <2>2
        <4>2. CASE h = i + 1
          BY <2>2, <4>2
        <4>3. CASE h \in 1 .. i
          <5>1. h + w[h] - 1 <= e
            BY <2>1, <4>3
          <5> QED
            BY <2>2, <2>5, <3>2, <4>1, <5>1
        <4> QED
          BY <4>2, <4>3
      <3>5. \A k \in i + 2 .. d : w[k] = 0
        <4>1. \A k \in (i + 1) + 1 .. (i + 1) + w[i + 1] - 1 : w[k] = 0
          BY <1>2, <2>2 DEF TiledBy
        <4> QED
          BY <2>2, <4>1
      <3> QED
        BY <3>2, <3>3, <3>4, <3>5
    <2> QED
      BY <2>4, <2>5, <1>1
  <1>10. Length \in S
    <2> HIDE DEF S
    <2>1. Nat \subseteq S
      BY <1>8, <1>9, SetInduction
    <2> QED
      BY <1>1, <2>1
  <1>11. PICK e \in Length .. Length : Reaches(Length, e)
    BY <1>1, <1>10
  <1>12. Computed = Upto(Length)
    BY <1>1, <1>6, <1>11
  <1> QED
    BY <1>12 DEF SameProgram, Upto

-----------------------------------------------------------------------------
(* The steps, a part of the invariant at a time. *)

LEMMA SetsOfPlaces ==
  /\ Sites \subseteq 1 .. Length /\ Conversions \subseteq Sites /\ Others = Sites \ Conversions
  /\ \A set \in SUBSET (1 .. Length) : IsFiniteSet(set) /\ Cardinality(set) \in Nat
  <1>1. Length \in Nat
    BY ShimConstants
  <1>2. IsFiniteSet(1 .. Length)
    BY <1>1, FS_Interval
  <1>3. \A set \in SUBSET (1 .. Length) : IsFiniteSet(set) /\ Cardinality(set) \in Nat
    BY <1>2, FS_Subset, FS_CardinalityType
  <1>4. Conversions \subseteq Sites /\ Sites \subseteq 1 .. Length
    BY DEF Conversions, Sites, Site
  <1> QED
    BY <1>3, <1>4 DEF Others

LEMMA ShimInitiates == ShimInit => ShimInv
  <1> SUFFICES ASSUME ShimInit PROVE ShimInv
    OBVIOUS
  <1> USE DEF ShimInit
  <1>1. Length \in Nat /\ \A n \in ArenaLens : n \in Nat
    BY ShimConstants
  <1>2. ShimTypes
    <2>1. \A i \in 1 .. Length : Straight(<<i>>, Needs(row[i])) \in Code
      <3> SUFFICES ASSUME NEW i \in 1 .. Length PROVE Straight(<<i>>, Needs(row[i])) \in Code
        OBVIOUS
      <3>1. <<i>> \in Seq(Nat)
        BY <1>1
      <3>2. Needs(row[i]) \in {"sse1", "sse2", "sse3"}
        BY DEF Needs
      <3> QED
        BY <3>1, <3>2 DEF Straight, Code
    <2>2. code \in [1 .. Length -> Code]
      BY <2>1
    <2>3. Blank \in Cell
      BY DEF Blank, Cell
    <2>4. arena \in Seq(Cell) /\ Len(arena) \in Nat
      <3>1. ASSUME NEW n \in ArenaLens, arena = [c \in 1 .. n |-> Blank]
            PROVE  arena \in Seq(Cell) /\ Len(arena) \in Nat
        BY <1>1, <2>3, <3>1
      <3>2. <<>> \in Seq(Cell) /\ Len(<<>>) = 0
        OBVIOUS
      <3> QED
        BY <3>1, <3>2
    <2>5. used \in 0 .. Len(arena) /\ at \in 1 .. Length + 1
      BY <1>1, <2>4
    <2>6. other \subseteq 1 .. Length
      OBVIOUS
    <2>7. phase \in Phases /\ want3 \in BOOLEAN /\ near \in BOOLEAN
      BY DEF Phases
    <2> QED
      BY <2>2, <2>4, <2>5, <2>6, <2>7 DEF ShimTypes
  <1>3. \A i \in 1 .. Length : Plain(i) /\ code[i].to = 0 /\ Runs(i) = <<i>>
    <2> SUFFICES ASSUME NEW i \in 1 .. Length PROVE Plain(i) /\ code[i].to = 0 /\ Runs(i) = <<i>>
      OBVIOUS
    <2>1. Plain(i)
      BY DEF Plain
    <2> QED
      BY <2>1, PlainFacts
  <1>4. StubsKept
    BY <1>3 DEF StubsKept
  <1>5. PlainYet
    BY <1>3 DEF PlainYet
  <1>6. Tiled
    <2> DEFINE w == [i \in 1 .. Length |-> 1]
    <2>1. TiledBy(w)
      <3> SUFFICES ASSUME NEW i \in 1 .. Length
                   PROVE  /\ Runs(i) = Interval(i, 1)
                          /\ i + 1 - 1 <= Length
                          /\ \A k \in i + 1 .. i + 1 - 1 : w[k] = 0
        BY DEF TiledBy
      <3>1. <<i>> = Interval(i, 1)
        BY DEF Interval
      <3>2. i + 1 .. i + 1 - 1 = {}
        BY <1>1
      <3> QED
        BY <1>1, <1>3, <3>1, <3>2
    <2> QED
      BY <2>1 DEF Tiled
  <1>7. CountedYet
    BY DEF CountedYet
  <1>8. PairsGone
    BY DEF PairsGone
  <1> QED
    BY <1>2, <1>4, <1>5, <1>6, <1>7, <1>8 DEF ShimInv

(* What the steps that write do to what is written. *)
LEMMA InPlaceWrites ==
  ASSUME ShimInv, WriteInPlace
  PROVE  /\ Plain(at) /\ at \in 1 .. Length /\ row[at] \notin Converted
         /\ code' = [code EXCEPT ![at] = Straight(<<at>>, "sse1")]
         /\ UNCHANGED <<row, arena, used>>
  <1>1. at \in 1 .. Length /\ Length \in Nat
    BY ShimConstants DEF ShimInv, ShimTypes, WriteInPlace
  <1>2. Plain(at)
    BY <1>1 DEF ShimInv, PlainYet, WriteInPlace
  <1>3. code[at].does = <<at>>
    BY <1>1, <1>2, PlainFacts
  <1> QED
    BY <1>1, <1>2, <1>3, KindsDiffer DEF WriteInPlace, input

LEMMA CallWrites ==
  ASSUME ShimInv, WriteCall
  PROVE  /\ Plain(at) /\ at \in 1 .. Length /\ row[at] \notin Converted
         /\ code' = [code EXCEPT ![at] = To(used + 1)]
         /\ Size(row[at]) = SizeAt(at) /\ used' = used + SizeAt(at)
         /\ arena' \in Seq(Cell) /\ Len(arena') = Len(arena) /\ used' \in 0 .. Len(arena)
         /\ used \in Nat /\ \A c \in 1 .. used : arena'[c] = arena[c]
         /\ \A n \in 1 .. SizeAt(at) : arena'[used + n] = [does |-> <<at>>, part |-> n]
         /\ row' = row
  <1>1. at \in 1 .. Length /\ Length \in Nat
    BY ShimConstants DEF ShimInv, ShimTypes, WriteCall
  <1>2. Plain(at)
    BY <1>1 DEF ShimInv, PlainYet, WriteCall
  <1>3. code[at].does = <<at>>
    BY <1>1, <1>2, PlainFacts
  <1>4. <<at>> \in Seq(Nat)
    BY <1>1
  <1>5. arena' = Stub(<<at>>, SizeAt(at)) /\ Fits(row[at]) /\ SizeAt(at) \in {1, 2}
        /\ (row[at] = "load" => SizeAt(at) = 1)
    BY <1>3 DEF WriteCall, Size, SizeAt
  <1>6. ShimTypes
    BY DEF ShimInv
  <1>7. /\ arena' \in Seq(Cell) /\ Len(arena') = Len(arena) /\ used + SizeAt(at) \in 0 .. Len(arena)
        /\ \A c \in 1 .. used : arena'[c] = arena[c]
        /\ \A n \in 1 .. SizeAt(at) : arena'[used + n] = [does |-> <<at>>, part |-> n]
    BY <1>4, <1>5, <1>6, StubFacts
  <1>8. row[at] \notin Converted /\ row' = row /\ Size(row[at]) = SizeAt(at)
        /\ code' = [code EXCEPT ![at] = To(used + 1)] /\ used' = used + SizeAt(at)
    BY KindsDiffer DEF WriteCall, input, Size, SizeAt
  <1>9. used \in Nat
    BY <1>6 DEF ShimTypes
  <1> QED
    BY <1>1, <1>2, <1>7, <1>8, <1>9

LEMMA TwoPlaces ==
  ASSUME NEW x \in Nat, NEW y \in Nat
  PROVE  <<x>> \o <<y>> = <<x, y>>
  <1>1. <<x>> \in Seq(Nat) /\ Len(<<x>>) = 1 /\ <<x>>[1] = x
    OBVIOUS
  <1>2. <<y>> \in Seq(Nat) /\ Len(<<y>>) = 1 /\ <<y>>[1] = y
    OBVIOUS
  <1>3. <<x, y>> \in Seq(Nat) /\ Len(<<x, y>>) = 2 /\ <<x, y>>[1] = x /\ <<x, y>>[2] = y
    OBVIOUS
  <1> DEFINE both == <<x>> \o <<y>>
  <1>4. both \in Seq(Nat) /\ Len(both) = 2 /\ both[1] = x /\ both[2] = y
    BY <1>1, <1>2, ConcatProperties
  <1> HIDE DEF both
  <1>5. \A i \in 1 .. Len(both) : both[i] = <<x, y>>[i]
    BY <1>3, <1>4
  <1>6. both = <<x, y>>
    BY <1>3, <1>4, <1>5, SeqEqual
  <1> QED
    BY <1>6 DEF both

LEMMA ConvertWrites ==
  ASSUME ShimInv, Convert,
         NEW a, NEW b, a = Span(row, at)[1], b = Span(row, at)[2]
  PROVE  /\ at \in 1 .. Length /\ at \in Conversions
         /\ Plain(a) /\ Plain(b) /\ a \in 1 .. Length /\ b \in 1 .. Length /\ b = a + 1
         /\ SizeAt(a) = 2
         /\ code' = [code EXCEPT ![a] = To(used + 1), ![b] = Nop]
         /\ used' = used + 2
         /\ arena' \in Seq(Cell) /\ Len(arena') = Len(arena) /\ used' \in 0 .. Len(arena)
         /\ used \in Nat /\ \A c \in 1 .. used : arena'[c] = arena[c]
         /\ \A n \in 1 .. 2 : arena'[used + n] = [does |-> <<a, b>>, part |-> n]
         /\ row' = row
  <1>1. at \in 1 .. Length /\ Length \in Nat /\ row \in Rows
    BY ShimConstants DEF ShimInv, ShimTypes, Convert
  <1>2. at \in Conversions
    BY <1>1 DEF Convert, Conversions
  <1>3. /\ a \in 1 .. Length /\ b \in 1 .. Length /\ b = a + 1
        /\ \A n \in {a, b} : row[n] \in Converted \cup {"sse1"}
    BY <1>1, <1>2, SpanFacts
  <1>4. Plain(a) /\ Plain(b)
    <2>1. phase = "conversions" /\ PlainYet /\ at >= at
      BY <1>1 DEF ShimInv, Convert
    <2> QED
      BY <1>2, <2>1 DEF PlainYet
  <1>5. code[a].does \o code[b].does = <<a, b>>
    <2>1. code[a].does = <<a>> /\ code[b].does = <<b>>
      BY <1>3, <1>4, PlainFacts
    <2>2. <<a>> \o <<b>> = <<a, b>>
      BY <1>1, <1>3, TwoPlaces
    <2> QED
      BY <2>1, <2>2
  <1>6. Size(row[at]) = 2 /\ SizeAt(a) = 2
    <2>1. row[at] # "load" /\ row[a] # "load"
      BY <1>2, <1>3, KindsDiffer DEF Conversions
    <2> QED
      BY <2>1 DEF Size, SizeAt
  <1>7. <<a, b>> \in Seq(Nat)
    BY <1>1, <1>3
  <1>8. arena' = Stub(<<a, b>>, 2) /\ Fits(row[at]) /\ row[at] # "load"
        /\ code' = [code EXCEPT ![a] = To(used + 1), ![b] = Nop]
        /\ used' = used + 2 /\ row' = row
    BY <1>2, <1>5, <1>6, KindsDiffer DEF Convert, input, Conversions
  <1>9. ShimTypes
    BY DEF ShimInv
  <1>10. /\ arena' \in Seq(Cell) /\ Len(arena') = Len(arena) /\ used + 2 \in 0 .. Len(arena)
         /\ \A c \in 1 .. used : arena'[c] = arena[c]
         /\ \A n \in 1 .. 2 : arena'[used + n] = [does |-> <<a, b>>, part |-> n]
    BY <1>7, <1>8, <1>9, StubFacts
  <1>11. used \in Nat
    BY <1>9 DEF ShimTypes
  <1> QED
    BY <1>1, <1>2, <1>3, <1>4, <1>6, <1>8, <1>10, <1>11

LEMMA Patterns ==
  /\ DOMAIN Pattern = {"adds", "pairs"}
  /\ Len(Pattern["adds"]) = 3 /\ Len(Pattern["pairs"]) = 2
  /\ \A k \in 1 .. 3 : Pattern["adds"][k] \in {"add", "store"}
  /\ \A k \in 1 .. 2 : Pattern["pairs"][k] = "add"
  <1>1. DOMAIN Pattern = {"adds", "pairs"}
    BY DEF Pattern
  <1>2. Pattern["adds"] = <<"add", "store", "add">> /\ Pattern["pairs"] = <<"add", "add">>
    BY DEF Pattern
  <1>3. Len(Pattern["adds"]) = 3 /\ Len(Pattern["pairs"]) = 2
    BY <1>2
  <1>4. \A k \in 1 .. 3 : <<"add", "store", "add">>[k] \in {"add", "store"}
    OBVIOUS
  <1>5. \A k \in 1 .. 2 : <<"add", "add">>[k] = "add"
    OBVIOUS
  <1> QED
    BY <1>1, <1>2, <1>3, <1>4, <1>5

LEMMA AddWrites ==
  ASSUME ShimInv, Add, NEW n, n = Len(Pattern[phase])
  PROVE  /\ n \in {2, 3} /\ phase \in {"adds", "pairs"} /\ (phase = "pairs" => n = 2)
         /\ at \in 1 .. Length /\ at + n - 1 <= Length
         /\ \A k \in at .. at + n - 1 : Plain(k) /\ row[k] \in {"add", "store"}
         /\ code' = [i \in 1 .. Length |->
                       IF i = at THEN Straight(Interval(at, n), "sse1")
                       ELSE IF i \in at + 1 .. at + n - 1 THEN Nop ELSE code[i]]
         /\ at' = at + n /\ UNCHANGED <<row, arena, used, phase, left, done, other, want3, near>>
  <1>1. at \in 1 .. Length /\ Length \in Nat
    BY ShimConstants DEF ShimInv, ShimTypes, Add
  <1>2. phase \in {"adds", "pairs"} /\ n \in {2, 3} /\ (phase = "pairs" => n = 2)
        /\ \A k \in 1 .. n : Pattern[phase][k] \in {"add", "store"}
    BY Patterns DEF Add
  <1>3. at + n - 1 <= Length
        /\ \A k \in 0 .. n - 1 : row[at + k] = Pattern[phase][k + 1] /\ Untouched(at + k)
    BY DEF Add, Matches
  <1>4. ASSUME NEW k \in at .. at + n - 1
        PROVE  Plain(k) /\ row[k] \in {"add", "store"}
    <2>1. k - at \in 0 .. n - 1 /\ at + (k - at) = k /\ (k - at) + 1 \in 1 .. n
      BY <1>1, <1>2
    <2> QED
      BY <1>2, <1>3, <2>1 DEF Untouched, Plain
  <1>5. [k \in 1 .. n |-> at + k - 1] = Interval(at, n)
    BY DEF Interval
  <1> QED
    BY <1>1, <1>2, <1>3, <1>4, <1>5 DEF Add, input

LEMMA CodeWritten ==
  ASSUME NEW c \in [1 .. Length -> Code], NEW i, NEW e \in Code
  PROVE  [c EXCEPT ![i] = e] \in [1 .. Length -> Code]
  OBVIOUS

LEMMA TypesStep == ShimInv /\ ShimNext => ShimTypes'
  <1> SUFFICES ASSUME ShimInv, ShimNext PROVE ShimTypes'
    OBVIOUS
  <1>1. ShimTypes /\ Length \in Nat
    BY ShimConstants DEF ShimInv
  <1>2. \A i \in Nat, needs \in {"sse1"} : Straight(<<i>>, needs) \in Code
    BY DEF Straight, Code
  <1>3. Nop \in Code
    BY DEF Nop, Straight, Code
  <1>4. \A c \in Nat : To(c) \in Code
    BY DEF To, Code
  <1>5. Cardinality({i \in Conversions : i >= at}) \in Nat
    BY SetsOfPlaces
  <1>6. CASE Refused
    BY <1>1, <1>6 DEF Refused, input, ShimTypes, Phases
  <1>7. CASE Check
    <2>1. at' = at \/ Refused
      BY <1>7 DEF Check
    <2> QED
      BY <1>1, <1>6, <1>7 DEF Check, input, ShimTypes, Phases
  <1>8. CASE WriteInPlace
    <2>1. code' \in [1 .. Length -> Code]
      <3>1. at \in Nat /\ code' = [code EXCEPT ![at] = Straight(<<at>>, "sse1")]
        BY <1>8, <1>1, InPlaceWrites
      <3> QED
        BY <1>1, <1>2, <3>1 DEF ShimTypes
    <2>2. at' \in 1 .. Length + 1
      BY <1>1, <1>8 DEF WriteInPlace, Turn, ShimTypes
    <2> QED
      BY <1>1, <1>8, <2>1, <2>2 DEF WriteInPlace, input, ShimTypes
  <1>9. CASE WriteCall
    <2>1. /\ code' = [code EXCEPT ![at] = To(used + 1)] /\ used \in Nat
          /\ arena' \in Seq(Cell) /\ Len(arena') = Len(arena) /\ used' \in 0 .. Len(arena)
      BY <1>9, CallWrites
    <2>2. code' \in [1 .. Length -> Code]
      <3>1. code \in [1 .. Length -> Code] /\ To(used + 1) \in Code
        BY <1>1, <1>4, <2>1 DEF ShimTypes
      <3> QED
        BY <2>1, <3>1, CodeWritten
    <2>3. at' \in 1 .. Length + 1
      BY <1>1, <1>9 DEF WriteCall, Turn, ShimTypes
    <2> QED
      BY <1>1, <1>9, <2>1, <2>2, <2>3 DEF WriteCall, input, ShimTypes
  <1>10. CASE Convert
    <2>1. PICK a, b : a = Span(row, at)[1] /\ b = Span(row, at)[2]
      OBVIOUS
    <2>2. /\ code' = [code EXCEPT ![a] = To(used + 1), ![b] = Nop] /\ used \in Nat
          /\ arena' \in Seq(Cell) /\ Len(arena') = Len(arena) /\ used' \in 0 .. Len(arena)
      BY <1>10, <2>1, ConvertWrites
    <2>3. code' \in [1 .. Length -> Code]
      <3>1. code \in [1 .. Length -> Code] /\ To(used + 1) \in Code
        BY <1>1, <1>4, <2>2 DEF ShimTypes
      <3>2. [code EXCEPT ![a] = To(used + 1)] \in [1 .. Length -> Code]
        BY <3>1, CodeWritten
      <3>3. code' = [[code EXCEPT ![a] = To(used + 1)] EXCEPT ![b] = Nop]
        BY <2>2
      <3> QED
        BY <1>3, <3>2, <3>3, CodeWritten
    <2>4. at' \in 1 .. Length + 1
      BY <1>1, <1>10 DEF Convert, Turn, ShimTypes
    <2>5. hits' = hits + 1 /\ UNCHANGED <<input, left, done, phase>>
      BY <1>10 DEF Convert
    <2> QED
      BY <1>1, <2>2, <2>3, <2>4, <2>5 DEF input, ShimTypes
  <1>11. CASE WriteNoRoom \/ WriteNothing \/ ConvertNothing \/ AddNothing
    <2>1. at' \in 1 .. Length + 1 /\ left' \in Nat
      BY <1>1, <1>11 DEF WriteNoRoom, WriteNothing, ConvertNothing, AddNothing, Turn, ShimTypes
    <2> QED
      BY <1>1, <1>11, <2>1
         DEF WriteNoRoom, WriteNothing, ConvertNothing, AddNothing, input, ShimTypes
  <1>12. CASE CheckConversions
    <2>1. Refused \/ /\ phase' = "conversions" /\ at' = 1
                     /\ UNCHANGED <<input, code, arena, used, hits, left, done>>
      BY <1>12 DEF CheckConversions
    <2>2. ASSUME phase' = "conversions", at' = 1,
                 UNCHANGED <<input, code, arena, used, hits, left, done>>
          PROVE  ShimTypes'
      <3>1. at' \in 1 .. Length + 1 /\ phase' \in Phases
        BY <1>1, <2>2 DEF Phases
      <3> QED
        BY <1>1, <2>2, <3>1 DEF input, ShimTypes
    <2> QED
      BY <1>6, <2>1, <2>2
  <1>13. CASE ConversionsEnd
    <2>1. left' \in Nat /\ done' \in Int
      BY <1>1, <1>5, <1>13 DEF ConversionsEnd, ShimTypes
    <2> QED
      BY <1>1, <1>13, <2>1 DEF ConversionsEnd, input, ShimTypes, Phases
  <1>14. CASE Add
    <2>1. PICK n : n = Len(Pattern[phase])
      OBVIOUS
    <2>2. /\ n \in {2, 3} /\ at + n - 1 <= Length /\ at \in 1 .. Length
          /\ at' = at + n
      BY <1>14, <2>1, AddWrites
    <2>6. code' = [i \in 1 .. Length |->
                     IF i = at THEN Straight(Interval(at, n), "sse1")
                     ELSE IF i \in at + 1 .. at + n - 1 THEN Nop ELSE code[i]]
      BY <1>14, <2>1, AddWrites
    <2>3. Straight(Interval(at, n), "sse1") \in Code
      <3>1. \A k \in 1 .. n : at + k - 1 \in Nat
        BY <2>2
      <3>2. Interval(at, n) \in Seq(Nat)
        BY <2>2, <3>1 DEF Interval
      <3> QED
        BY <3>2 DEF Straight, Code
    <2>4. code' \in [1 .. Length -> Code]
      BY <1>1, <1>3, <2>3, <2>6 DEF ShimTypes
    <2>5. at' \in 1 .. Length + 1
      BY <1>1, <2>2
    <2> QED
      BY <1>1, <1>14, <2>4, <2>5 DEF Add, input, ShimTypes
  <1>15. CASE AddsEnd
    BY <1>1, <1>15 DEF AddsEnd, input, ShimTypes, Phases
  <1> QED
    BY <1>7, <1>8, <1>9, <1>10, <1>11, <1>12, <1>13, <1>14, <1>15 DEF ShimNext

(* The steps that write nothing in the code or the arena. *)
OnlyTurns ==
  \/ Check \/ WriteNoRoom \/ WriteNothing \/ CheckConversions
  \/ ConvertNothing \/ ConversionsEnd \/ AddNothing \/ AddsEnd

LEMMA TurnsWriteNothing == OnlyTurns => UNCHANGED <<input, code, arena, used, hits>>
  BY DEF OnlyTurns, Check, WriteNoRoom, WriteNothing, CheckConversions, Refused,
         ConvertNothing, ConversionsEnd, AddNothing, AddsEnd

LEMMA StubsStep == ShimInv /\ ShimNext => StubsKept'
  <1> SUFFICES ASSUME ShimInv, ShimNext PROVE StubsKept'
    OBVIOUS
  <1>1. ShimTypes /\ StubsKept /\ Length \in Nat /\ used \in Nat
        /\ \A i \in 1 .. Length : code[i] \in Code /\ code[i].to \in Nat /\ SizeAt(i) \in {1, 2}
    BY ShimConstants DEF ShimInv, ShimTypes, Code, SizeAt
  <1>2. CASE OnlyTurns
    BY <1>1, <1>2, TurnsWriteNothing DEF StubsKept, SizeAt, input
  <1>3. \A ops, needs, c : Straight(ops, needs).to = 0 /\ Nop.to = 0 /\ To(c).to = c
    BY DEF Straight, Nop, To
  <1>4. code \in [1 .. Length -> Code]
    BY <1>1 DEF ShimTypes
  <1>5. row' = row => \A i : SizeAt(i)' = SizeAt(i)
    BY DEF SizeAt
  <1>6. CASE WriteInPlace
    <2>1. code' = [code EXCEPT ![at] = Straight(<<at>>, "sse1")] /\ UNCHANGED <<row, used>>
      BY <1>6, InPlaceWrites
    <2>2. \A i \in 1 .. Length : code'[i] = code[i] \/ code'[i].to = 0
      BY <1>3, <1>4, <2>1
    <2> QED
      BY <1>1, <1>5, <2>1, <2>2 DEF StubsKept
  <1>7. CASE WriteCall
    <2>1. /\ code' = [code EXCEPT ![at] = To(used + 1)] /\ row' = row
          /\ used' = used + SizeAt(at) /\ at \in 1 .. Length
      BY <1>7, CallWrites
    <2>2. \A i \in 1 .. Length : \/ code'[i] = code[i]
                                 \/ i = at /\ code'[i].to = used + 1
      BY <1>3, <1>4, <2>1
    <2>3. ASSUME NEW i \in 1 .. Length, code'[i].to # 0
          PROVE  code'[i].to + SizeAt(i) - 1 <= used'
      <3>1. CASE code'[i] = code[i]
        <4>1. code[i].to + SizeAt(i) - 1 <= used
          BY <1>1, <2>3, <3>1 DEF StubsKept
        <4> QED
          BY <1>1, <2>1, <3>1, <4>1
      <3>2. CASE i = at /\ code'[i].to = used + 1
        BY <1>1, <2>1, <3>2
      <3> QED
        BY <2>2, <3>1, <3>2
    <2> QED
      BY <1>5, <2>1, <2>3 DEF StubsKept
  <1>8. CASE Convert
    <2>1. PICK a, b : a = Span(row, at)[1] /\ b = Span(row, at)[2]
      OBVIOUS
    <2>2. /\ code' = [code EXCEPT ![a] = To(used + 1), ![b] = Nop] /\ used' = used + 2
          /\ SizeAt(a) = 2 /\ row' = row
      BY <1>8, <2>1, ConvertWrites
    <2>3. \A i \in 1 .. Length : \/ code'[i] = code[i] \/ code'[i].to = 0
                                 \/ i = a /\ code'[i].to = used + 1
      BY <1>3, <1>4, <2>2
    <2>4. ASSUME NEW i \in 1 .. Length, code'[i].to # 0
          PROVE  code'[i].to + SizeAt(i) - 1 <= used'
      <3>1. CASE code'[i] = code[i]
        <4>1. code[i].to + SizeAt(i) - 1 <= used
          BY <1>1, <2>4, <3>1 DEF StubsKept
        <4> QED
          BY <1>1, <2>2, <3>1, <4>1
      <3>2. CASE i = a /\ code'[i].to = used + 1
        BY <1>1, <2>2, <3>2
      <3> QED
        BY <2>3, <2>4, <3>1, <3>2
    <2> QED
      BY <1>5, <2>2, <2>4 DEF StubsKept
  <1>9. CASE Add
    <2>1. PICK n : n = Len(Pattern[phase])
      OBVIOUS
    <2>2. /\ code' = [i \in 1 .. Length |->
                        IF i = at THEN Straight(Interval(at, n), "sse1")
                        ELSE IF i \in at + 1 .. at + n - 1 THEN Nop ELSE code[i]]
          /\ UNCHANGED <<row, used>>
      BY <1>9, <2>1, AddWrites
    <2>3. \A i \in 1 .. Length : code'[i] = code[i] \/ code'[i].to = 0
      BY <1>3, <2>2
    <2> QED
      BY <1>1, <1>5, <2>2, <2>3 DEF StubsKept
  <1> QED
    BY <1>2, <1>6, <1>7, <1>8, <1>9 DEF ShimNext, OnlyTurns

LEMMA PlainStep == ShimInv /\ ShimNext => PlainYet'
  <1> SUFFICES ASSUME ShimInv, ShimNext PROVE PlainYet'
    OBVIOUS
  <1>1. /\ ShimTypes /\ PlainYet /\ Length \in Nat /\ row \in Rows
        /\ code \in [1 .. Length -> Code] /\ at \in 1 .. Length + 1
    BY ShimConstants DEF ShimInv, ShimTypes
  <1>2. ASSUME row' = row, NEW i, code'[i] = code[i], Plain(i) PROVE Plain(i)'
    BY <1>2 DEF Plain
  <1>3. row' = row => \A k : (Span(row, k)[1])' = Span(row, k)[1]
                             /\ (Span(row, k)[2])' = Span(row, k)[2] /\ Conversions' = Conversions
    BY DEF Span, Conversions
  <1>4. ASSUME phase' \in {"adds", "pairs", "end"} PROVE PlainYet'
    BY <1>4 DEF PlainYet
  <1>5. CASE Check
    <2>1. CASE Refused
      BY <1>4, <2>1 DEF Refused
    <2>2. ASSUME phase = "check", phase' = "sites", UNCHANGED <<input, code>>
          PROVE  PlainYet'
      <3>1. \A i \in 1 .. Length : Plain(i)
        BY <1>1, <2>2 DEF PlainYet
      <3>2. row' = row /\ code' = code
        BY <2>2 DEF input
      <3>3. \A i \in 1 .. Length : Plain(i)'
        BY <1>2, <3>1, <3>2
      <3> QED
        BY <2>2, <3>3 DEF PlainYet
    <2> QED
      BY <1>5, <2>1, <2>2 DEF Check
  <1>6. ASSUME phase = "sites", phase' = "sites", at' = at + 1, row' = row,
               at <= Length, \A i \in 1 .. Length : i # at => code'[i] = code[i],
               row[at] \in InPlace \cup Called \/ code' = code
        PROVE  PlainYet'
    <2>1. ASSUME NEW i \in 1 .. Length, i >= at + 1 \/ row[i] \notin InPlace \cup Called
          PROVE  Plain(i)'
      <3>1. Plain(i)
        BY <1>1, <1>6, <2>1 DEF PlainYet
      <3>2. code'[i] = code[i]
        BY <1>1, <1>6, <2>1
      <3> QED
        BY <1>2, <1>6, <3>1, <3>2
    <2> QED
      BY <1>6, <2>1 DEF PlainYet
  <1>7. CASE WriteInPlace
    <2>1. code' = [code EXCEPT ![at] = Straight(<<at>>, "sse1")]
      BY <1>7, InPlaceWrites
    <2>2. \A i \in 1 .. Length : i # at => code'[i] = code[i]
      BY <1>1, <2>1
    <2> QED
      BY <1>6, <1>7, <2>2 DEF WriteInPlace, Turn, input
  <1>8. CASE WriteCall
    <2>1. code' = [code EXCEPT ![at] = To(used + 1)]
      BY <1>8, CallWrites
    <2>2. \A i \in 1 .. Length : i # at => code'[i] = code[i]
      BY <1>1, <2>1
    <2> QED
      BY <1>6, <1>8, <2>2 DEF WriteCall, Turn, input
  <1>9. CASE WriteNoRoom \/ WriteNothing
    <2>1. /\ phase = "sites" /\ phase' = "sites" /\ at' = at + 1 /\ row' = row
          /\ at <= Length /\ code' = code
      BY <1>9 DEF WriteNoRoom, WriteNothing, Turn, input
    <2> QED
      BY <1>6, <2>1
  <1>10. CASE CheckConversions
    <2>1. CASE Refused
      BY <1>4, <2>1 DEF Refused
    <2>2. ASSUME phase = "sites", phase' = "conversions", UNCHANGED <<input, code>>
          PROVE  PlainYet'
      <3>1. row' = row /\ code' = code
        BY <2>2 DEF input
      <3>2. ASSUME NEW k \in Conversions
            PROVE  Plain(Span(row, k)[1])' /\ Plain(Span(row, k)[2])'
        <4>1. PICK a, b : a = Span(row, k)[1] /\ b = Span(row, k)[2]
          OBVIOUS
        <4>2. a \in 1 .. Length /\ b \in 1 .. Length
              /\ row[a] \in Converted \cup {"sse1"} /\ row[b] \in Converted \cup {"sse1"}
          BY <1>1, <4>1, SpanFacts
        <4>3. Plain(a) /\ Plain(b)
          BY <1>1, <2>2, <4>2, KindsDiffer DEF PlainYet
        <4>4. Plain(a)' /\ Plain(b)'
          BY <3>1, <4>3 DEF Plain
        <4> QED
          BY <3>1, <4>1, <4>4 DEF Plain
      <3>3. Conversions' = Conversions
        BY <3>1 DEF Conversions
      <3> QED
        BY <2>2, <3>2, <3>3 DEF PlainYet
    <2> QED
      BY <1>10, <2>1, <2>2 DEF CheckConversions
  <1>11. CASE Convert
    <2>1. PICK a, b : a = Span(row, at)[1] /\ b = Span(row, at)[2]
      OBVIOUS
    <2>2. /\ at \in Conversions /\ row' = row
          /\ code' = [code EXCEPT ![a] = To(used + 1), ![b] = Nop]
      BY <1>11, <2>1, ConvertWrites
    <2>3. phase = "conversions" /\ phase' = "conversions" /\ at' = at + 1
      BY <1>11 DEF Convert, Turn
    <2>4. ASSUME NEW k \in Conversions, k >= at + 1
          PROVE  Plain(Span(row, k)[1])' /\ Plain(Span(row, k)[2])'
      <3>1. PICK c, d : c = Span(row, k)[1] /\ d = Span(row, k)[2]
        OBVIOUS
      <3>2. k # at /\ k >= at
        BY <1>1, <2>4, SetsOfPlaces
      <3>3. c \notin {a, b} /\ d \notin {a, b}
        BY <1>1, <2>1, <2>2, <3>1, <3>2, SpanFacts
      <3>4. c \in 1 .. Length /\ d \in 1 .. Length
        BY <1>1, <3>1, SpanFacts
      <3>5. Plain(c) /\ Plain(d)
        BY <1>1, <2>3, <3>1, <3>2 DEF PlainYet
      <3>6. code'[c] = code[c] /\ code'[d] = code[d]
        BY <1>1, <2>2, <3>3, <3>4
      <3>7. Plain(c)' /\ Plain(d)'
        BY <2>2, <3>5, <3>6 DEF Plain
      <3> QED
        BY <2>2, <3>1, <3>7 DEF Plain
    <2>5. Conversions' = Conversions
      BY <2>2 DEF Conversions
    <2> QED
      BY <2>3, <2>4, <2>5 DEF PlainYet
  <1>12. CASE ConvertNothing
    <2>1. /\ phase = "conversions" /\ phase' = "conversions" /\ at' = at + 1
          /\ row' = row /\ code' = code
      BY <1>12 DEF ConvertNothing, Turn, input
    <2>2. ASSUME NEW k \in Conversions, k >= at + 1
          PROVE  Plain(Span(row, k)[1])' /\ Plain(Span(row, k)[2])'
      <3>1. k >= at
        BY <1>1, <2>2, SetsOfPlaces
      <3>2. Plain(Span(row, k)[1]) /\ Plain(Span(row, k)[2])
        BY <1>1, <2>1, <2>2, <3>1 DEF PlainYet
      <3> QED
        BY <2>1, <3>2 DEF Plain
    <2>3. Conversions' = Conversions
      BY <2>1 DEF Conversions
    <2> QED
      BY <2>1, <2>2, <2>3 DEF PlainYet
  <1>13. CASE ConversionsEnd \/ AddsEnd
    BY <1>4, <1>13 DEF ConversionsEnd, AddsEnd
  <1>14. CASE Add \/ AddNothing
    <2>1. phase' \in {"adds", "pairs"}
      BY <1>14, Patterns DEF Add, AddNothing
    <2> QED
      BY <1>4, <2>1
  <1> QED
    BY <1>5, <1>7, <1>8, <1>9, <1>10, <1>11, <1>12, <1>13, <1>14 DEF ShimNext

LEMMA TiledStep == ShimInv /\ ShimNext => Tiled'
  <1> SUFFICES ASSUME ShimInv, ShimNext PROVE Tiled'
    OBVIOUS
  <1>1. /\ ShimTypes /\ StubsKept /\ Tiled /\ Length \in Nat /\ row \in Rows
        /\ code \in [1 .. Length -> Code]
    BY ShimConstants DEF ShimInv, ShimTypes
  <1>2. CASE OnlyTurns
    <2>1. UNCHANGED <<row, code, arena>>
      BY <1>2, TurnsWriteNothing DEF input
    <2>2. \A i \in 1 .. Length : Runs(i)' = Runs(i)
      BY <1>1, <2>1, RunsStill
    <2> QED
      BY <1>1, <2>2, TiledStill
  <1>3. CASE WriteInPlace
    <2>1. /\ Plain(at) /\ at \in 1 .. Length
          /\ code' = [code EXCEPT ![at] = Straight(<<at>>, "sse1")]
          /\ UNCHANGED <<row, arena, used>>
      BY <1>3, InPlaceWrites
    <2>2. Runs(at) = <<at>>
      BY <2>1, PlainFacts
    <2>3. code'[at].to = 0 /\ code'[at].does = <<at>>
      BY <1>1, <2>1 DEF Straight
    <2>4. ASSUME NEW i, i = at PROVE Runs(i)' = <<at>>
      BY <2>3, <2>4 DEF Runs
    <2>5. ASSUME NEW i \in 1 .. Length PROVE Runs(i)' = Runs(i)
      <3>1. CASE i = at
        BY <2>2, <2>4, <3>1
      <3>2. CASE i # at
        <4>1. code'[i] = code[i]
          BY <1>1, <2>1, <3>2
        <4> QED
          BY <1>1, <2>1, <4>1, RunsStill
      <3> QED
        BY <3>1, <3>2
    <2> QED
      BY <1>1, <2>5, TiledStill
  <1>4. CASE WriteCall
    <2>1. SUFFICES ASSUME NEW a, NEW ops, a = at, ops = <<at>> PROVE Tiled'
      OBVIOUS
    <2>2. /\ Plain(a) /\ a \in 1 .. Length
          /\ code' = [code EXCEPT ![a] = To(used + 1)]
          /\ used \in Nat /\ \A c \in 1 .. used : arena'[c] = arena[c]
          /\ \A n \in 1 .. SizeAt(a) : arena'[used + n] = [does |-> ops, part |-> n]
          /\ row' = row
      BY <1>4, <2>1, CallWrites
    <2>3. Runs(a) = ops
      BY <2>1, <2>2, PlainFacts
    <2>4. code'[a] = To(used + 1)
      BY <1>1, <2>2
    <2>5. Runs(a)' = ops
      BY <2>2, <2>4, RunsStub
    <2>6. ASSUME NEW i \in 1 .. Length PROVE Runs(i)' = Runs(i)
      <3>1. CASE i = a
        BY <2>3, <2>5, <3>1
      <3>2. CASE i # a
        <4>1. code'[i] = code[i]
          BY <1>1, <2>2, <3>2
        <4> QED
          BY <1>1, <2>2, <4>1, RunsStill
      <3> QED
        BY <3>1, <3>2
    <2> QED
      BY <1>1, <2>6, TiledStill
  <1>5. CASE Convert
    <2>1. SUFFICES ASSUME NEW a, NEW b, NEW ops,
                          a = Span(row, at)[1], b = Span(row, at)[2], ops = <<a, b>>
                   PROVE  Tiled'
      OBVIOUS
    <2>2. /\ Plain(a) /\ Plain(b) /\ a \in 1 .. Length /\ b \in 1 .. Length /\ b = a + 1
          /\ SizeAt(a) = 2
          /\ code' = [code EXCEPT ![a] = To(used + 1), ![b] = Nop]
          /\ used \in Nat /\ \A c \in 1 .. used : arena'[c] = arena[c]
          /\ \A n \in 1 .. 2 : arena'[used + n] = [does |-> ops, part |-> n]
          /\ row' = row
      BY <1>5, <2>1, ConvertWrites
    <2>3. Runs(a) = <<a>> /\ Runs(b) = <<b>>
      BY <2>2, PlainFacts
    <2>4. code'[a] = To(used + 1) /\ code'[b] = Nop
          /\ \A i \in 1 .. Length : i \notin {a, b} => code'[i] = code[i]
      BY <1>1, <2>2
    <2>5. Runs(a)' = ops
      <3>1. \A n \in 1 .. SizeAt(a) : arena'[used + n] = [does |-> ops, part |-> n]
        BY <2>2
      <3>2. used \in Nat /\ row' = row /\ code'[a] = To(used + 1)
        BY <2>2, <2>4
      <3> QED
        BY <3>1, <3>2, RunsStub
    <2>7. \A i \in 1 .. Length : i \notin {a, b} => Runs(i)' = Runs(i)
      BY <1>1, <2>2, <2>4, RunsStill
    <2>8. ops = Interval(a, 2)
      <3>1. ops \in Seq(Int) /\ Len(ops) = 2 /\ ops[1] = a /\ ops[2] = a + 1
        BY <2>1, <2>2
      <3>2. Interval(a, 2) \in Seq(Int) /\ Len(Interval(a, 2)) = 2
            /\ Interval(a, 2)[1] = a /\ Interval(a, 2)[2] = a + 1
        BY <2>2 DEF Interval
      <3>3. \A i \in 1 .. Len(ops) : ops[i] = Interval(a, 2)[i]
        BY <3>1, <3>2
      <3> QED
        BY <3>1, <3>2, <3>3, SeqEqual
    <2>9. a + 2 - 1 <= Length /\ a .. a + 2 - 1 = {a, b} /\ a + 1 .. a + 2 - 1 = {b}
      BY <1>1, <2>2
    <2>10. \A k \in a .. a + 2 - 1 : Runs(k) = <<k>>
      BY <2>3, <2>9
    <2>11. \A k \in a + 1 .. a + 2 - 1 : Runs(k)' = <<>>
      <3> SUFFICES ASSUME NEW k, k = b PROVE Runs(k)' = <<>>
        BY <2>9
      <3>1. code'[k] = Nop
        BY <2>4
      <3> QED
        BY <3>1 DEF Runs, Nop, Straight
    <2>12. \A i \in 1 .. Length : i \notin a .. a + 2 - 1 => Runs(i)' = Runs(i)
      BY <2>7, <2>9
    <2>13. 2 \in Nat \ {0} /\ Runs(a)' = Interval(a, 2) /\ a + 2 - 1 <= Length
      BY <2>5, <2>8, <2>9
    <2> QED
      BY <1>1, <2>2, <2>10, <2>11, <2>12, <2>13, TiledMerge
  <1>6. CASE Add
    <2>1. PICK n : n = Len(Pattern[phase])
      OBVIOUS
    <2>2. PICK a : a = at
      OBVIOUS
    <2>3. /\ n \in {2, 3} /\ a \in 1 .. Length /\ a + n - 1 <= Length
          /\ \A k \in a .. a + n - 1 : Plain(k)
          /\ UNCHANGED <<row, arena, used>>
      BY <1>6, <2>1, <2>2, AddWrites
    <2>4. code' = [i \in 1 .. Length |->
                     IF i = a THEN Straight(Interval(a, n), "sse1")
                     ELSE IF i \in a + 1 .. a + n - 1 THEN Nop ELSE code[i]]
      BY <1>6, <2>1, <2>2, AddWrites
    <2>5. \A k \in a .. a + n - 1 : Runs(k) = <<k>>
      <3>1. \A k \in a .. a + n - 1 : k \in 1 .. Length
        BY <1>1, <2>3
      <3> QED
        BY <2>3, <3>1, PlainFacts
    <2>6. Runs(a)' = Interval(a, n)
      <3>1. code'[a] = Straight(Interval(a, n), "sse1")
        BY <2>3, <2>4
      <3> QED
        BY <3>1 DEF Runs, Straight
    <2>7. \A k \in a + 1 .. a + n - 1 : Runs(k)' = <<>>
      <3> SUFFICES ASSUME NEW k \in a + 1 .. a + n - 1 PROVE Runs(k)' = <<>>
        OBVIOUS
      <3>1. k \in 1 .. Length /\ k # a
        BY <1>1, <2>3
      <3>2. code'[k] = Nop
        BY <2>4, <3>1
      <3> QED
        BY <3>2 DEF Runs, Nop, Straight
    <2>8. \A i \in 1 .. Length : i \notin a .. a + n - 1 => Runs(i)' = Runs(i)
      <3> SUFFICES ASSUME NEW i \in 1 .. Length, i \notin a .. a + n - 1
                   PROVE  Runs(i)' = Runs(i)
        OBVIOUS
      <3>1. i # a /\ i \notin a + 1 .. a + n - 1
        BY <2>3
      <3>2. code'[i] = code[i]
        BY <2>4, <3>1
      <3> QED
        BY <1>1, <2>3, <3>2, RunsStill
    <2> QED
      BY <1>1, <2>3, <2>5, <2>6, <2>7, <2>8, TiledMerge
  <1> QED
    BY <1>2, <1>3, <1>4, <1>5, <1>6 DEF ShimNext, OnlyTurns

LEMMA OneMore ==
  ASSUME NEW set \in SUBSET (1 .. Length), NEW i \in 1 .. Length, i \notin set
  PROVE  Cardinality(set \cup {i}) = Cardinality(set) + 1
  <1>1. IsFiniteSet(set)
    BY SetsOfPlaces
  <1> QED
    BY <1>1, FS_AddElement

LEMMA OthersAre ==
  /\ Others = {i \in 1 .. Length : row[i] \in InPlace \cup Called}
  /\ \A i \in Sites : Needs(row[i]) = "sse2"
  /\ \A i \in Conversions : row[i] \in Converted /\ i \in Sites
  /\ Others \cap Conversions = {} /\ Others \cup Conversions = Sites
  /\ Others \subseteq 1 .. Length /\ Conversions \subseteq 1 .. Length
  BY DEF Others, Sites, Conversions, Site, InPlace, Called, Converted, Needs

LEMMA CountedStep == ShimInv /\ ShimNext => CountedYet'
  <1> SUFFICES ASSUME ShimInv, ShimNext PROVE CountedYet'
    OBVIOUS
  <1>1. /\ ShimTypes /\ PlainYet /\ CountedYet /\ Length \in Nat /\ row \in Rows
        /\ code \in [1 .. Length -> Code] /\ at \in 1 .. Length + 1
        /\ hits \in Nat /\ left \in Nat
    BY ShimConstants DEF ShimInv, ShimTypes
  <1>2. row' = row
    BY TurnsWriteNothing
       DEF ShimNext, OnlyTurns, WriteInPlace, WriteCall, Convert, Add, input
  <1>3. Sites' = Sites /\ Conversions' = Conversions /\ Others' = Others
    BY <1>2 DEF Sites, Conversions, Others
  <1>4. \A set \in SUBSET (1 .. Length) : IsFiniteSet(set) /\ Cardinality(set) \in Nat
    BY SetsOfPlaces
  <1>21. \A i \in Conversions : i \in 1 .. Length
    BY OthersAre
  <1>5. CASE Refused
    BY <1>5 DEF Refused, CountedYet
  <1>6. ASSUME phase = "check", phase' = "sites", UNCHANGED <<hits, left, at>>
        PROVE  CountedYet'
    <2>1. at = 1 /\ hits = 0 /\ left = 0
      BY <1>1, <1>6 DEF PlainYet, CountedYet
    <2>2. Before(Others)' = {}
      BY <1>3, <1>6, <2>1, OthersAre DEF Before
    <2>3. On2(Before(Others))' = {}
      BY <2>2 DEF On2
    <2>4. Cardinality({}) = 0
      BY FS_EmptySet
    <2> QED
      BY <1>6, <2>1, <2>2, <2>3, <2>4 DEF CountedYet
  <1>7. ASSUME phase = "sites", phase' = "sites", at' = at + 1, at <= Length,
               row[at] \in InPlace \cup Called,
               \A i \in 1 .. Length : i # at => code'[i].needs = code[i].needs,
               \/ code'[at].needs = "sse1" /\ hits' = hits + 1 /\ left' = left
               \/ code'[at].needs = "sse2" /\ hits' = hits /\ left' = left + 1
        PROVE  CountedYet'
    <2>1. at \in Others /\ at \in 1 .. Length
      BY <1>1, <1>7, OthersAre
    <2>2. Before(Others)' = Before(Others) \cup {at} /\ at \notin Before(Others)
          /\ Before(Others) \in SUBSET (1 .. Length)
      BY <1>1, <1>3, <1>7, <2>1, OthersAre DEF Before
    <2>3. Cardinality(Before(Others) \cup {at}) = Cardinality(Before(Others)) + 1
      BY <2>1, <2>2, OneMore
    <2>4. \A i \in Before(Others) : code'[i].needs = code[i].needs
      BY <1>7, <2>2
    <2>5. hits + left = Cardinality(Before(Others)) /\ left = Cardinality(On2(Before(Others)))
      BY <1>1, <1>7 DEF CountedYet
    <2>6. On2(Before(Others)) \in SUBSET (1 .. Length) /\ at \notin On2(Before(Others))
      BY <2>2 DEF On2
    <2>7. CASE code'[at].needs = "sse1" /\ hits' = hits + 1 /\ left' = left
      <3>1. On2(Before(Others))' = On2(Before(Others))
        BY <2>2, <2>4, <2>7 DEF On2
      <3>2. hits' + left' = Cardinality(Before(Others)) + 1
        BY <1>1, <2>5, <2>7
      <3> QED
        BY <1>7, <2>2, <2>3, <2>5, <2>7, <3>1, <3>2 DEF CountedYet
    <2>8. CASE code'[at].needs = "sse2" /\ hits' = hits /\ left' = left + 1
      <3>1. On2(Before(Others))' = On2(Before(Others)) \cup {at}
        BY <2>2, <2>4, <2>8 DEF On2
      <3>2. Cardinality(On2(Before(Others)) \cup {at}) = Cardinality(On2(Before(Others))) + 1
        BY <2>1, <2>6, OneMore
      <3>3. hits' + left' = Cardinality(Before(Others)) + 1
        BY <1>1, <2>5, <2>8
      <3> QED
        BY <1>7, <2>2, <2>3, <2>5, <2>8, <3>1, <3>2, <3>3 DEF CountedYet
    <2> QED
      BY <1>7, <2>7, <2>8
  <1>8. CASE WriteInPlace
    <2>1. code' = [code EXCEPT ![at] = Straight(<<at>>, "sse1")] /\ at \in 1 .. Length
      BY <1>8, InPlaceWrites
    <2>2. code'[at].needs = "sse1"
          /\ \A i \in 1 .. Length : i # at => code'[i].needs = code[i].needs
      BY <1>1, <2>1 DEF Straight
    <2>3. /\ phase = "sites" /\ phase' = "sites" /\ at' = at + 1 /\ at <= Length
          /\ row[at] \in InPlace \cup Called /\ hits' = hits + 1 /\ left' = left
      BY <1>8 DEF WriteInPlace, Turn
    <2> QED
      BY <1>7, <2>2, <2>3
  <1>9. CASE WriteCall
    <2>1. code' = [code EXCEPT ![at] = To(used + 1)] /\ at \in 1 .. Length
      BY <1>9, CallWrites
    <2>2. code'[at].needs = "sse1"
          /\ \A i \in 1 .. Length : i # at => code'[i].needs = code[i].needs
      BY <1>1, <2>1 DEF To
    <2>3. /\ phase = "sites" /\ phase' = "sites" /\ at' = at + 1 /\ at <= Length
          /\ row[at] \in InPlace \cup Called /\ hits' = hits + 1 /\ left' = left
      BY <1>9 DEF WriteCall, Turn
    <2> QED
      BY <1>7, <2>2, <2>3
  <1>10. CASE WriteNoRoom
    <2>1. /\ phase = "sites" /\ phase' = "sites" /\ at' = at + 1 /\ at <= Length
          /\ row[at] \in InPlace \cup Called /\ hits' = hits /\ left' = left + 1 /\ code' = code
      BY <1>10 DEF WriteNoRoom, Turn
    <2>2. at \in 1 .. Length /\ at \in Sites
      BY <1>1, <2>1, OthersAre
    <2>3. Plain(at)
      BY <1>1, <2>1, <2>2 DEF PlainYet
    <2>4. code'[at].needs = "sse2"
      BY <2>1, <2>2, <2>3, PlainFacts, OthersAre
    <2> QED
      BY <1>7, <2>1, <2>4
  <1>11. CASE WriteNothing
    <2>1. /\ phase = "sites" /\ phase' = "sites" /\ at' = at + 1 /\ at <= Length
          /\ row[at] \notin InPlace \cup Called /\ UNCHANGED <<hits, left, code>>
      BY <1>11 DEF WriteNothing, Turn
    <2>2. Before(Others)' = Before(Others)
      <3>1. at \notin Others
        BY <2>1, OthersAre
      <3> QED
        BY <1>1, <1>3, <2>1, <3>1, OthersAre DEF Before
    <2>3. On2(Before(Others))' = On2(Before(Others))
      BY <2>1, <2>2 DEF On2
    <2> QED
      BY <1>1, <2>1, <2>2, <2>3 DEF CountedYet
  <1>12. ASSUME phase = "sites", at > Length, phase' = "conversions", at' = 1,
                UNCHANGED <<code, hits, left>>
         PROVE  CountedYet'
    <2>1. Before(Others) = Others
      BY <1>1, <1>12, OthersAre DEF Before
    <2>2. Before(Conversions)' = {}
      <3>1. \A i \in Conversions : ~ i < 1
        BY <1>21
      <3> QED
        BY <1>3, <1>12, <3>1, Zenon DEF Before
    <2>3. On2(Others)' = On2(Others)
      BY <1>3, <1>12 DEF On2
    <2>4. hits + left = Cardinality(Others) /\ left = Cardinality(On2(Others))
      BY <1>1, <1>12, <2>1 DEF CountedYet
    <2>5. Cardinality({}) = 0 /\ Cardinality(Others) \in Nat
      BY <1>4, FS_EmptySet, OthersAre
    <2>6. Cardinality(Others) + Cardinality({}) = Cardinality(Others)
      BY <2>5
    <2> QED
      BY <1>3, <1>12, <2>2, <2>3, <2>4, <2>6 DEF CountedYet
  <1>13. CASE Convert
    <2>1. SUFFICES ASSUME NEW a, NEW b, a = Span(row, at)[1], b = Span(row, at)[2]
                   PROVE  CountedYet'
      OBVIOUS
    <2>2. /\ at \in Conversions /\ at \in 1 .. Length
          /\ code' = [code EXCEPT ![a] = To(used + 1), ![b] = Nop]
      BY <1>13, <2>1, ConvertWrites
    <2>3. at \in {a, b} /\ \A n \in {a, b} : row[n] \in Converted \cup {"sse1"}
      BY <1>1, <2>1, <2>2, SpanFacts
    <2>4. \A i \in 1 .. Length : IF i \in {a, b} THEN code'[i].needs = "sse1"
                                 ELSE code'[i] = code[i]
      BY <1>1, <2>2 DEF To, Nop, Straight
    <2>5. \A i \in Others : code'[i] = code[i]
      <3>1. \A i \in Others : i \notin {a, b} /\ i \in 1 .. Length
        BY <2>3, OthersAre, KindsDiffer
      <3> QED
        BY <2>4, <3>1
    <2>6. On2(Others)' = On2(Others)
      BY <1>3, <2>5 DEF On2
    <2>7. Before(Conversions)' = Before(Conversions) \cup {at}
          /\ at \notin Before(Conversions) /\ Before(Conversions) \in SUBSET (1 .. Length)
      <3>1. at' = at + 1
        BY <1>13 DEF Convert, Turn
      <3>2. \A i \in Conversions : (i < at + 1 <=> i < at \/ i = at) /\ (i = at => ~ i < at)
        BY <1>1, <1>21
      <3>3. Before(Conversions)' = {i \in Conversions : i < at + 1}
        BY <1>3, <3>1, Zenon DEF Before
      <3>4. {i \in Conversions : i < at + 1} = {i \in Conversions : i < at} \cup {at}
        BY <2>2, <3>2, Zenon
      <3>5. Before(Conversions) = {i \in Conversions : i < at}
        BY DEF Before
      <3>6. at \notin {i \in Conversions : i < at}
            /\ {i \in Conversions : i < at} \in SUBSET (1 .. Length)
        BY <1>21, <2>2, <3>2
      <3> QED
        BY <3>3, <3>4, <3>5, <3>6
    <2>8. Cardinality(Before(Conversions) \cup {at}) = Cardinality(Before(Conversions)) + 1
      BY <2>2, <2>7, OneMore
    <2>9. /\ hits + left = Cardinality(Others) + Cardinality(Before(Conversions))
          /\ left = Cardinality(On2(Others))
          /\ \A i \in Before(Conversions) : code[i].needs = "sse1"
      BY <1>1, <1>13 DEF CountedYet, Convert
    <2>10. \A i \in Before(Conversions) \cup {at} : code'[i].needs = "sse1"
      BY <2>2, <2>3, <2>4, <2>7, <2>9
    <2>11. phase' = "conversions" /\ hits' = hits + 1 /\ left' = left
      BY <1>13 DEF Convert
    <2>12. hits' + left' = Cardinality(Others) + Cardinality(Before(Conversions) \cup {at})
      <3>1. Cardinality(Others) \in Nat /\ Cardinality(Before(Conversions)) \in Nat
        BY <1>4, <2>7, OthersAre
      <3> QED
        BY <1>1, <2>8, <2>9, <2>11, <3>1
    <2> QED
      BY <1>3, <2>6, <2>7, <2>9, <2>10, <2>11, <2>12 DEF CountedYet
  <1>14. CASE ConvertNothing
    <2>1. /\ phase = "conversions" /\ phase' = "conversions" /\ at' = at + 1 /\ at <= Length
          /\ row[at] \notin Converted /\ UNCHANGED <<hits, left, code>>
      BY <1>14 DEF ConvertNothing, Turn
    <2>2. Before(Conversions)' = Before(Conversions)
      <3>1. at \notin Conversions
        BY <2>1 DEF Conversions
      <3>2. \A i \in Conversions : i < at + 1 <=> i < at
        BY <1>1, <1>21, <3>1
      <3>3. Before(Conversions)' = {i \in Conversions : i < at + 1}
        BY <1>3, <2>1, Zenon DEF Before
      <3> QED
        BY <3>2, <3>3, Zenon DEF Before
    <2>3. On2(Others)' = On2(Others)
      BY <1>3, <2>1 DEF On2
    <2> QED
      BY <1>1, <1>3, <2>1, <2>2, <2>3 DEF CountedYet
  <1>15. CASE ConversionsEnd
    <2> DEFINE later == {i \in Conversions : i >= at}
    <2>1. /\ phase = "conversions" /\ phase' = "adds" /\ left' = left + Cardinality(later)
          /\ done' = hits /\ code' = code
      BY <1>15 DEF ConversionsEnd
    <2>2. /\ hits + left = Cardinality(Others) + Cardinality(Before(Conversions))
          /\ left = Cardinality(On2(Others))
          /\ \A i \in Before(Conversions) : code[i].needs = "sse1"
      BY <1>1, <2>1 DEF CountedYet
    <2>3. \A i \in later : code[i].needs = "sse2"
      <3> SUFFICES ASSUME NEW i \in later PROVE code[i].needs = "sse2"
        OBVIOUS
      <3>1. Plain(Span(row, i)[1]) /\ Plain(Span(row, i)[2])
        BY <1>1, <2>1 DEF PlainYet
      <3>2. i = Span(row, i)[1] \/ i = Span(row, i)[2]
        BY <1>1, SpanFacts
      <3>3. Plain(i) /\ i \in 1 .. Length /\ i \in Sites
        BY <3>1, <3>2, OthersAre
      <3> QED
        BY <3>3, PlainFacts, OthersAre
    <2>4. Conversions = Before(Conversions) \cup later /\ Before(Conversions) \cap later = {}
      <3>1. \A i \in Conversions : i >= at <=> ~ i < at
        BY <1>1, <1>21
      <3> QED
        BY <3>1, Zenon DEF Before
    <2>5. On2(Sites)' = On2(Others) \cup later /\ On2(Others) \cap later = {}
      BY <1>3, <2>1, <2>2, <2>3, <2>4, OthersAre DEF On2
    <2>6. /\ IsFiniteSet(On2(Others)) /\ IsFiniteSet(later) /\ IsFiniteSet(Others)
          /\ IsFiniteSet(Before(Conversions)) /\ IsFiniteSet(Conversions)
          /\ Cardinality(On2(Others)) \in Nat /\ Cardinality(later) \in Nat
          /\ Cardinality(Others) \in Nat /\ Cardinality(Before(Conversions)) \in Nat
          /\ Cardinality(Conversions) \in Nat
      BY <1>4, OthersAre DEF On2, Before
    <2> HIDE DEF later
    <2>7. ASSUME NEW S, NEW T, IsFiniteSet(S), IsFiniteSet(T), S \cap T = {},
                 Cardinality(S) \in Nat, Cardinality(T) \in Nat
          PROVE  Cardinality(S \cup T) = Cardinality(S) + Cardinality(T)
      <3>1. Cardinality(S \cup T) = Cardinality(S) + Cardinality(T) - Cardinality({})
        BY <2>7, FS_Union
      <3> QED
        BY <2>7, <3>1, FS_EmptySet
    <2>8. Cardinality(On2(Others) \cup later) = Cardinality(On2(Others)) + Cardinality(later)
      BY <2>5, <2>6, <2>7
    <2>9. Cardinality(Conversions) = Cardinality(Before(Conversions)) + Cardinality(later)
      BY <2>4, <2>6, <2>7
    <2>10. Cardinality(Sites) = Cardinality(Others) + Cardinality(Conversions)
      BY <2>6, <2>7, OthersAre
    <2>11. left' = Cardinality(On2(Others) \cup later)
      BY <2>1, <2>2, <2>8
    <2>12. done' + left' = Cardinality(Sites)
      <3>2. hits + (left + Cardinality(later)) = Cardinality(Others) + Cardinality(Conversions)
        <4>1. /\ hits \in Nat /\ left \in Nat /\ Cardinality(later) \in Nat
              /\ Cardinality(Others) \in Nat /\ Cardinality(Before(Conversions)) \in Nat
          BY <1>1, <2>6
        <4>2. hits + left = Cardinality(Others) + Cardinality(Before(Conversions))
          BY <2>2
        <4> QED
          BY <2>9, <4>1, <4>2
      <3> QED
        BY <2>1, <2>10, <3>2
    <2> QED
      BY <1>3, <2>1, <2>5, <2>11, <2>12 DEF CountedYet
  <1>16. ASSUME phase \in {"adds", "pairs", "end"}, phase' \in {"adds", "pairs", "end"},
                UNCHANGED <<left, done>>, \A i \in Sites : code'[i] = code[i]
         PROVE  CountedYet'
    <2>1. On2(Sites)' = On2(Sites)
      BY <1>3, <1>16 DEF On2
    <2> QED
      BY <1>1, <1>3, <1>16, <2>1 DEF CountedYet
  <1>17. CASE Add
    <2>1. SUFFICES ASSUME NEW n, n = Len(Pattern[phase]) PROVE CountedYet'
      OBVIOUS
    <2>2. /\ phase \in {"adds", "pairs"} /\ at \in 1 .. Length /\ n \in {2, 3}
          /\ \A k \in at .. at + n - 1 : row[k] \in {"add", "store"}
          /\ UNCHANGED <<phase, left, done>>
      BY <1>17, <2>1, AddWrites
    <2>3. code' = [i \in 1 .. Length |->
                     IF i = at THEN Straight(Interval(at, n), "sse1")
                     ELSE IF i \in at + 1 .. at + n - 1 THEN Nop ELSE code[i]]
      BY <1>17, <2>1, AddWrites
    <2>4. ASSUME NEW i \in Sites PROVE code'[i] = code[i]
      <3>1. row[i] \in Site /\ i \in 1 .. Length
        BY DEF Sites
      <3>2. i \notin at .. at + n - 1
        BY <2>2, <3>1, KindsDiffer
      <3>3. i # at /\ i \notin at + 1 .. at + n - 1
        BY <2>2, <3>2
      <3> QED
        BY <2>3, <3>1, <3>3
    <2> QED
      BY <1>16, <2>2, <2>4
  <1>18. CASE AddNothing \/ AddsEnd
    <2>1. /\ phase \in {"adds", "pairs"} /\ phase' \in {"adds", "pairs", "end"}
          /\ UNCHANGED <<left, done, code>>
      BY <1>18, Patterns DEF AddNothing, AddsEnd
    <2> QED
      BY <1>16, <2>1
  <1>19. CASE Check
    BY <1>5, <1>6, <1>19 DEF Check
  <1>20. CASE CheckConversions
    BY <1>5, <1>12, <1>20 DEF CheckConversions
  <1> QED
    BY <1>8, <1>9, <1>10, <1>11, <1>13, <1>14, <1>15, <1>17, <1>18, <1>19, <1>20 DEF ShimNext

LEMMA PairsStep == ShimInv /\ ShimNext => PairsGone'
  <1> SUFFICES ASSUME ShimInv, ShimNext, phase' \in {"pairs", "end"}, want3', near',
                      NEW i \in 1 .. Length - 1, phase' = "end" \/ i < at'
               PROVE  ~Pair(i)'
    BY ShimConstants DEF PairsGone
  <1>1. /\ ShimTypes /\ PairsGone /\ Length \in Nat /\ row \in Rows
        /\ code \in [1 .. Length -> Code] /\ at \in 1 .. Length + 1
        /\ i \in 1 .. Length /\ i + 1 \in 1 .. Length
    BY ShimConstants DEF ShimInv, ShimTypes
  <1>2. /\ UNCHANGED input
        /\ Add \/ AddNothing \/ AddsEnd
        /\ phase \in {"adds", "pairs"}
    <2>1. CASE Add \/ AddNothing \/ AddsEnd
      BY <2>1, Patterns DEF Add, AddNothing, AddsEnd
    <2>2. CASE ~(Add \/ AddNothing \/ AddsEnd)
      <3>1. phase' \in {"sites", "conversions", "adds"}
        BY <2>2 DEF ShimNext, Check, WriteInPlace, WriteCall, WriteNoRoom, WriteNothing,
                    CheckConversions, Convert, ConvertNothing, ConversionsEnd, Refused
      <3> QED
        BY <3>1
    <2> QED
      BY <2>1, <2>2
  <1>3. want3 = want3' /\ near = near' /\ row' = row /\ other' = other
    BY <1>2 DEF input
  <1>4. ASSUME code' = code, ~Pair(i) PROVE ~Pair(i)'
    BY <1>3, <1>4 DEF Pair, Untouched
  <1>5. CASE AddsEnd
    <2>1. phase = "pairs" /\ phase' = "end" /\ at > Length /\ code' = code
      BY <1>2, <1>3, <1>5 DEF AddsEnd
    <2>2. ~Pair(i)
      BY <1>1, <1>3, <2>1 DEF PairsGone
    <2> QED
      BY <1>4, <2>1, <2>2
  <1>6. CASE AddNothing
    <2>1. /\ phase = "pairs" /\ phase' = "pairs" /\ at' = at + 1 /\ code' = code
          /\ ~Matches(at)
      BY <1>2, <1>3, <1>6 DEF AddNothing, Turn
    <2>2. CASE i < at
      <3>1. ~Pair(i)
        BY <1>1, <1>3, <2>1, <2>2 DEF PairsGone
      <3> QED
        BY <1>4, <2>1, <3>1
    <2>3. CASE i = at
      <3>1. Pair(i) => Matches(i)
        <4> SUFFICES ASSUME Pair(i), NEW k \in 0 .. 1
                     PROVE  row[i + k] = "add" /\ Untouched(i + k)
          <5>1. Pattern[phase] = <<"add", "add">> /\ Len(Pattern[phase]) = 2
                /\ \A k \in 0 .. 1 : Pattern[phase][k + 1] = "add"
            <6>1. \A k \in 0 .. 1 : k + 1 \in 1 .. 2
              OBVIOUS
            <6> QED
              BY <2>1, <6>1, Patterns DEF Pattern
          <5>2. i + 2 - 1 <= Length /\ 2 - 1 = 1
            BY <1>1
          <5> QED
            BY <5>1, <5>2 DEF Matches
        <4>1. CASE k = 0
          <5>1. i + k = i
            BY <1>1, <4>1
          <5> QED
            BY <5>1 DEF Pair
        <4>2. CASE k = 1
          BY <4>2 DEF Pair
        <4> QED
          BY <4>1, <4>2
      <3>2. ~Pair(i)
        BY <2>1, <2>3, <3>1
      <3> QED
        BY <1>4, <2>1, <3>2
    <2> QED
      BY <1>1, <2>1, <2>2, <2>3
  <1>7. CASE Add
    <2>1. SUFFICES ASSUME NEW n, n = Len(Pattern[phase]) PROVE ~Pair(i)'
      OBVIOUS
    <2>2. /\ phase = "pairs" /\ n = 2 /\ at \in 1 .. Length /\ at + n - 1 <= Length
          /\ at' = at + n /\ phase' = phase
      <3>1. phase' = phase /\ phase = "pairs"
        BY <1>2, <1>7 DEF Add
      <3> QED
        BY <1>7, <2>1, <3>1, AddWrites
    <2>3. code' = [j \in 1 .. Length |->
                     IF j = at THEN Straight(Interval(at, n), "sse1")
                     ELSE IF j \in at + 1 .. at + n - 1 THEN Nop ELSE code[j]]
      BY <1>7, <2>1, AddWrites
    <2>4. ASSUME NEW j \in at .. at + 1 PROVE code'[j].needs = "sse1" /\ j \in 1 .. Length
      <3>1. j \in 1 .. Length
        BY <1>1, <2>2
      <3>2. CASE j = at
        BY <2>3, <3>1, <3>2 DEF Straight
      <3>3. CASE j # at
        <4>1. j \in at + 1 .. at + n - 1
          BY <2>2, <3>3
        <4> QED
          BY <2>3, <3>1, <3>3, <4>1 DEF Nop, Straight
      <3> QED
        BY <3>1, <3>2, <3>3
    <2>5. ASSUME NEW j \in at .. at + 1, row[j] = "add" PROVE ~Untouched(j)'
      <3>1. code'[j].needs = "sse1" /\ Needs(row[j]) = "sse3"
        BY <2>4, <2>5, KindsDiffer DEF Needs
      <3>2. code'[j] # Straight(<<j>>, "sse3")
        BY <3>1 DEF Straight
      <3> QED
        BY <1>3, <3>1, <3>2 DEF Untouched, Needs
    <2>6. CASE i < at - 1
      <3>1. code'[i] = code[i] /\ code'[i + 1] = code[i + 1]
        <4>1. \A j \in 1 .. Length : j < at => j # at /\ j \notin at + 1 .. at + n - 1
          BY <2>2
        <4>2. i < at /\ i + 1 < at
          BY <1>1, <2>2, <2>6
        <4> QED
          BY <1>1, <2>3, <4>1, <4>2
      <3>2. ~Pair(i)
        BY <1>1, <1>3, <2>2, <2>6 DEF PairsGone
      <3> QED
        BY <1>3, <3>1, <3>2 DEF Pair, Untouched, Needs
    <2>7. CASE i = at - 1
      <3>1. i + 1 = at /\ at \in at .. at + 1
        BY <1>1, <2>2, <2>7
      <3>2. ASSUME NEW j, j = i + 1, row[j] = "add" PROVE ~Untouched(j)'
        BY <2>5, <3>1, <3>2
      <3> QED
        BY <1>3, <3>2 DEF Pair, Untouched
    <2>8. CASE i >= at
      <3>1. i \in at .. at + 1
        BY <1>1, <2>2, <2>8
      <3>2. row[i] = "add" => ~Untouched(i)'
        BY <2>5, <3>1
      <3> QED
        BY <1>3, <3>2 DEF Pair
    <2> QED
      BY <1>1, <2>2, <2>6, <2>7, <2>8
  <1> QED
    BY <1>2, <1>5, <1>6, <1>7

LEMMA ShimInductive == ShimInv /\ [ShimNext]_shimVars => ShimInv'
  <1>1. CASE ShimInv /\ ShimNext
    BY <1>1, TypesStep, StubsStep, PlainStep, TiledStep, CountedStep, PairsStep DEF ShimInv
  <1>2. ASSUME ShimInv, UNCHANGED shimVars PROVE ShimInv'
    <2>1. UNCHANGED <<row, other, code, arena, used, hits, left, done, at, phase, want3, near>>
      BY <1>2 DEF shimVars
    <2>2. ShimTypes' /\ StubsKept' /\ CountedYet' /\ PairsGone'
      BY <1>2, <2>1
         DEF ShimInv, ShimTypes, StubsKept, SizeAt, CountedYet, Others, Sites, Conversions,
                  On2, Before, PairsGone, Pair, Untouched
    <2>3. PlainYet'
      <3>1. /\ \A i : Plain(i)' <=> Plain(i)
            /\ \A k : /\ Plain(Span(row, k)[1])' <=> Plain(Span(row, k)[1])
                     /\ Plain(Span(row, k)[2])' <=> Plain(Span(row, k)[2])
            /\ Conversions' = Conversions
        BY <2>1 DEF Plain, Conversions
      <3>2. PlainYet
        BY <1>2 DEF ShimInv
      <3> QED
        BY <2>1, <3>1, <3>2 DEF PlainYet
    <2>4. Tiled'
      <3>1. \A i : Runs(i)' = Runs(i)
        BY <2>1 DEF Runs
      <3> QED
        BY <1>2, <3>1, TiledStill DEF ShimInv
    <2> QED
      BY <2>2, <2>3, <2>4 DEF ShimInv
  <1> QED
    BY <1>1, <1>2

LEMMA ShimSays == ShimInv => SameProgram /\ LeftIsCounted
  <1> SUFFICES ASSUME ShimInv PROVE SameProgram /\ LeftIsCounted
    OBVIOUS
  <1>1. SameProgram
    BY TiledComputes DEF ShimInv
  <1>2. LeftIsCounted
    <2>1. phase = "adds" /\ done > 0 =>
            /\ left = Cardinality({i \in Sites : code[i].needs = "sse2"})
            /\ done + left = Cardinality(Sites)
      BY DEF ShimInv, CountedYet, On2
    <2>2. phase = "end" /\ want3 /\ near =>
            \A i \in 1 .. Length - 1 :
              ~(row[i] = "add" /\ row[i + 1] = "add" /\ Untouched(i) /\ Untouched(i + 1))
      BY DEF ShimInv, PairsGone, Pair
    <2> QED
      BY <2>1, <2>2 DEF LeftIsCounted
  <1> QED
    BY <1>1, <1>2

(* After every write of the two passes the code computes what it did, each
   instruction once and in its place (sse2_shim.h, sse3_shim.h), whatever the
   tables and however long the arena. *)
THEOREM ShimSameProgram == ShimSpec => []SameProgram
  <1>1. ShimSpec => []ShimInv
    BY ShimInitiates, ShimInductive, PTL DEF ShimSpec
  <1> QED
    BY <1>1, ShimSays, PTL

(* What scva_sse2_patch returns and leaves is so, and the second pass leaves
   no pair it could have rewritten. *)
THEOREM ShimCounts == ShimSpec => []LeftIsCounted
  <1>1. ShimSpec => []ShimInv
    BY ShimInitiates, ShimInductive, PTL DEF ShimSpec
  <1> QED
    BY <1>1, ShimSays, PTL
=============================================================================
