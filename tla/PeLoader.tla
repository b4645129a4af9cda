------------------------------ MODULE PeLoader ------------------------------
(***************************************************************************)
(* pe_loader.c: images mapped into a process of several threads, and the   *)
(* thread-local storage each finds.  On Linux a thread that enters an      *)
(* image has a block of its own, pointing at one array of slots they all   *)
(* share; an image owns a slot.  On 32-bit Windows a thread keeps a list   *)
(* of blocks by the id of the image.  There is no lock: a step is an       *)
(* access to what threads share.  Parsing, relocating, binding and         *)
(* patching only pass or fail.                                             *)
(***************************************************************************)
EXTENDS Integers, Sequences, FiniteSets, SequencesExt

CONSTANTS
  Threads,
  Images,       \* bound: loads, each of an image of its own
  Slots,        \* PE_TLS_SLOTS
  Platforms,    \* "linux", "win32"
  Serial        \* the host loads and unloads one image at a time

ASSUME LoaderAssumption ==
  /\ Slots \in Nat \ {0}
  /\ Platforms \subseteq {"linux", "win32"}
  /\ Serial \in BOOLEAN

VARIABLES
  platform,
  image,     \* of each image: its state, slot (or id on Windows), -1 for none
  job,       \* what each thread is at: [at, img]
  teb,       \* of each thread: whether it has a block, and the array it names
  array,     \* g_tls_slots: 0, or the array's number
  arrays,    \* the arrays allocated: the image whose block is in each slot
  next,      \* g_tls_next, or g_tls_ids on Windows
  free,      \* g_tls_free up to g_tls_nfree, the last handed back at its end
  nodes      \* Windows: each thread's list of [id, img], as a set

vars == <<platform, image, job, teb, array, arrays, next, free, nodes>>

NoImage == "none"
NoBlock == [has |-> FALSE, array |-> 0]
Idle == [at |-> "idle", img |-> NoImage]
Empty == [s \in 0..(Slots - 1) |-> NoImage]

Init ==
  /\ platform \in Platforms
  /\ image = [i \in Images |-> [state |-> "new", tls |-> FALSE, slot |-> -1]]
  /\ job = [t \in Threads |-> Idle]
  /\ teb = [t \in Threads |-> NoBlock]
  /\ array = 0 /\ arrays = <<>>
  /\ next = 0 /\ free = <<>>
  /\ nodes = [t \in Threads |-> {}]

At(t, where) == job[t].at = where
Goto(t, where) == job' = [job EXCEPT ![t].at = where]
Return(t) == job' = [job EXCEPT ![t] = Idle]
Img(t) == job[t].img

(* install_teb: the block a thread has once it attached.  One attached before
   the first image with thread-local storage takes the array the next time. *)
Attached(t) ==
  IF platform = "win32" \/ (teb[t].has /\ teb[t].array # 0) THEN teb[t]
  ELSE [has |-> TRUE, array |-> array]

Attach(t) == teb' = [teb EXCEPT ![t] = Attached(t)]

(* pe_thread_attach, by a thread about to enter an image. *)
ThreadAttach(t) ==
  /\ At(t, "idle") /\ platform = "linux"
  /\ Attach(t)
  /\ UNCHANGED <<platform, image, job, array, arrays, next, free, nodes>>

-----------------------------------------------------------------------------
(* pe_load *)

MayStart == Serial => \A t \in Threads : At(t, "idle")

(* The file is read and the thread attached. *)
Load(t, i) ==
  /\ At(t, "idle") /\ image[i].state = "new" /\ MayStart
  /\ \E tls \in BOOLEAN :
       image' = [image EXCEPT ![i] = [state |-> "loading", tls |-> tls, slot |-> -1]]
  /\ job' = [job EXCEPT ![t] = [at |-> "map", img |-> i]]
  /\ Attach(t)
  /\ UNCHANGED <<platform, array, arrays, next, free, nodes>>

(* Any step fails: what the load has taken by then, its slot too, is kept. *)
Fail(t) ==
  /\ job[t].at \in {"map", "array", "slot", "entry"}
  /\ image' = [image EXCEPT ![Img(t)].state = "failed"]
  /\ Return(t)
  /\ UNCHANGED <<platform, teb, array, arrays, next, free, nodes>>

(* Headers, sections, relocations, imports, the patch hook. *)
Map(t) ==
  /\ At(t, "map")
  /\ Goto(t, IF ~image[Img(t)].tls THEN "entry"
             ELSE IF platform = "win32" THEN "id"
             ELSE IF array = 0 THEN "array" ELSE "slot")
  /\ UNCHANGED <<platform, image, teb, array, arrays, next, free, nodes>>

(* The first image with thread-local storage has the array allocated. *)
NewArray(t) ==
  /\ At(t, "array")
  /\ arrays' = Append(arrays, Empty)
  /\ array' = Len(arrays')
  /\ teb' = [teb EXCEPT ![t].array = array']
  /\ Goto(t, "slot")
  /\ UNCHANGED <<platform, image, next, free, nodes>>

(* A slot handed back, or one never used; FAIL when there is neither. *)
TakeSlot(t) ==
  /\ At(t, "slot")
  /\ \/ /\ free # <<>>
        /\ image' = [image EXCEPT ![Img(t)].slot = Last(free)]
        /\ free' = Front(free)
        /\ UNCHANGED next
     \/ /\ free = <<>> /\ next < Slots
        /\ image' = [image EXCEPT ![Img(t)].slot = next]
        /\ next' = next + 1
        /\ UNCHANGED free
  /\ Goto(t, "block")
  /\ UNCHANGED <<platform, teb, array, arrays, nodes>>

StoreBlock(t) ==
  /\ At(t, "block")
  /\ arrays' = [arrays EXCEPT ![array][image[Img(t)].slot] = Img(t)]
  /\ Goto(t, "entry")
  /\ UNCHANGED <<platform, image, teb, array, next, free, nodes>>

(* Mutant of TakeId: an id is the number of images there are. *)
TakeIdCounted(t) ==
  /\ At(t, "id")
  /\ image' = [image EXCEPT ![Img(t)].slot =
                 Cardinality({i \in Images : image[i].state = "loaded"}) + 1]
  /\ Goto(t, "entry")
  /\ UNCHANGED <<platform, teb, array, arrays, next, free, nodes>>

(* Windows: an id never used before goes into the image's stub. *)
TakeId(t) ==
  /\ At(t, "id")
  /\ next' = next + 1
  /\ image' = [image EXCEPT ![Img(t)].slot = next']
  /\ Goto(t, "entry")
  /\ UNCHANGED <<platform, teb, array, arrays, free, nodes>>

(* TLS callbacks and DllMain, which may use the storage. *)
Entry(t) ==
  /\ At(t, "entry")
  /\ image' = [image EXCEPT ![Img(t)].state = "loaded"]
  /\ Return(t)
  /\ UNCHANGED <<platform, teb, array, arrays, next, free, nodes>>

(* pe_tls_array, from code of a loaded image on any thread: the thread's
   block for the image, made at its first use. *)
Enter(t, i) ==
  /\ At(t, "idle") /\ platform = "win32"
  /\ image[i].state = "loaded" /\ image[i].tls
  /\ \A n \in nodes[t] : n.id # image[i].slot
  /\ nodes' = [nodes EXCEPT ![t] = @ \cup {[id |-> image[i].slot, img |-> i]}]
  /\ UNCHANGED <<platform, image, job, teb, array, arrays, next, free>>

-----------------------------------------------------------------------------
(* pe_unload *)

Unload(t, i) ==
  /\ At(t, "idle") /\ image[i].state = "loaded" /\ MayStart
  /\ image' = [image EXCEPT ![i].state = "gone"]
  /\ job' = [job EXCEPT ![t] = [at |-> "clear", img |-> i]]
  /\ UNCHANGED <<platform, teb, array, arrays, next, free, nodes>>

Forget(t) ==
  image' = [image EXCEPT ![Img(t)] = [state |-> "gone", tls |-> FALSE, slot |-> -1]]

HasSlot(t) == platform = "linux" /\ image[Img(t)].slot >= 0 /\ array # 0

ClearSlot(t) ==
  /\ At(t, "clear") /\ HasSlot(t)
  /\ arrays' = [arrays EXCEPT ![array][image[Img(t)].slot] = NoImage]
  /\ Goto(t, "give")
  /\ UNCHANGED <<platform, image, teb, array, next, free, nodes>>

(* Mutant of GiveSlot: the slot is not handed back. *)
GiveSlotNever(t) ==
  /\ At(t, "give")
  /\ Forget(t)
  /\ Return(t)
  /\ UNCHANGED <<platform, teb, array, arrays, next, free, nodes>>

GiveSlot(t) ==
  /\ At(t, "give")
  /\ free' = IF Len(free) < Slots THEN Append(free, image[Img(t)].slot) ELSE free
  /\ Forget(t)
  /\ Return(t)
  /\ UNCHANGED <<platform, teb, array, arrays, next, nodes>>

UnloadRest(t) ==
  /\ At(t, "clear") /\ ~HasSlot(t)
  /\ Forget(t)
  /\ Return(t)
  /\ UNCHANGED <<platform, teb, array, arrays, next, free, nodes>>

Next ==
  \E t \in Threads :
    \/ ThreadAttach(t) \/ Fail(t) \/ Map(t) \/ NewArray(t) \/ TakeSlot(t)
    \/ StoreBlock(t) \/ TakeId(t) \/ Entry(t)
    \/ ClearSlot(t) \/ GiveSlot(t) \/ UnloadRest(t)
    \/ \E i \in Images : Load(t, i) \/ Enter(t, i) \/ Unload(t, i)

Spec == Init /\ [][Next]_vars

-----------------------------------------------------------------------------

States == {"new", "loading", "loaded", "failed", "gone"}

TypeOK ==
  /\ platform \in Platforms
  /\ \A i \in Images : /\ image[i].state \in States /\ image[i].tls \in BOOLEAN
                       /\ image[i].slot \in Int
  /\ \A t \in Threads : job[t].img \in Images \cup {NoImage}
  /\ array \in 0..Len(arrays)
  /\ \A t \in Threads : teb[t].has \in BOOLEAN /\ teb[t].array \in 0..Len(arrays)
  /\ \A a \in DOMAIN arrays : arrays[a] \in [0..(Slots - 1) -> Images \cup {NoImage}]
  /\ next \in Nat /\ Range(free) \subseteq 0..(Slots - 1)

Loaded(i) == image[i].state = "loaded" /\ image[i].tls

(* Storage a thread would find for image i once it has attached. *)
Finds(t, i) ==
  IF platform = "linux"
  THEN LET a == Attached(t).array
       IN a # 0 /\ arrays[a][image[i].slot] = i
  ELSE \A n \in nodes[t] : n.id = image[i].slot => n.img = i

(* After any loads, failures and unloads, every thread finds the block of the
   image it enters and no other's ("Without it a second image overwrites the
   first image's block and the two share thread-local state"; "an image loaded
   after another was unloaded cannot pick up the old one's block"). *)
EachFindsItsOwn == \A t \in Threads, i \in Images : Loaded(i) => Finds(t, i)

(* With no load under way, every slot ever used is free, a loaded image's or
   lost to a load that failed, so a process runs out only of slots in use or
   lost ("so a host that creates and destroys plugin instances does not run
   the array out"). *)
Holding == {i \in Images : image[i].slot >= 0 /\ image[i].state \in {"loaded", "failed"}}

SlotsAccounted ==
  (platform = "linux" /\ \A t \in Threads : At(t, "idle")) =>
    /\ Range(free) \cup {image[i].slot : i \in Holding} = 0..(next - 1)
    /\ Len(free) + Cardinality(Holding) = next
=============================================================================
