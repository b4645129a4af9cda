-------------------------- MODULE AudioPath_proof --------------------------
(***************************************************************************)
(* The resampler's window, alone, for every filter width, chunk and rate   *)
(* pair within the assumption; then the audio path for every size of       *)
(* block, chunk and call: what a render call is given, that the resampler  *)
(* inside the path is Resampler, and when a message plays.                 *)
(***************************************************************************)
EXTENDS AudioPath, WellFoundedInduction, TLAPS

(* The resampler. *)

Before == Half - 1       \* frames a window holds before its point

(* Where the point, the window and the frames held lie in each other. *)
Shape ==
  /\ i >= Before
  /\ i + Half < have + Taps
  /\ have <= i + Half + Chunk
  /\ have <= Cap
  /\ pc = "pull" => last = i + Half /\ (last >= have => have + Chunk <= Cap)
  /\ pc = "filter" => i + Half < have

(* The frames held are those pulled last, in order, dropped frames aside. *)
Contents ==
  /\ \A k \in 0 .. have - 1 : in[k] = k + dropped - Before
  /\ pulled = have + dropped - Before

(* The point, counted from the first frame, is the time of the output frame
   to come. *)
Clock == Den * (i + dropped - Before) + f = Time

IInv == TypeOK /\ Shape /\ Contents /\ Clock

LEMMA Constants ==
  /\ Half \in Nat /\ Half >= 1 /\ Chunk \in Nat /\ Den \in Nat /\ Den >= 1
  /\ Taps = Half + Half /\ Taps <= Chunk
  /\ Cap = Taps + Chunk + Chunk + Chunk + Chunk
BY ResamplerAssumption DEF Taps, Cap

LEMMA StepType ==
  ASSUME NEW s \in Steps
  PROVE  /\ s.whole \in Nat /\ s.whole <= Taps
         /\ s.frac \in Nat /\ s.frac < Den
         /\ s.whole = Taps => s.frac = 0
<1>1. s \in [whole : 0 .. Taps, frac : 0 .. Den - 1]
  BY ResamplerAssumption
<1> QED
  BY <1>1, Constants, ResamplerAssumption

LEMMA Advances ==
  \A p, q, n \in Int :
    p >= Before /\ p + Half < n /\ n <= p + Half + Chunk /\ q >= p /\ q <= p + Taps
    => q >= Before /\ q + Half < n + Taps /\ n <= q + Half + Chunk
<1> SUFFICES ASSUME NEW h \in Int, NEW c \in Int, NEW t \in Int, NEW b \in Int,
                    NEW p \in Int, NEW q \in Int, NEW n \in Int,
                    p >= b, p + h < n, n <= p + h + c, q >= p, q <= p + t
             PROVE  q >= b /\ q + h < n + t /\ n <= q + h + c
  BY Constants DEF Before
<1> QED
  OBVIOUS

(* The invariant and each step's keeping of it, cited by the modules that
   compose the resampler. *)
LEMMA Starts == Init => IInv
<1> SUFFICES ASSUME Init PROVE IInv
  OBVIOUS
<1> USE Constants DEF Init
<1>1. TypeOK
  BY DEF TypeOK, Silence
<1>2. Shape
  BY DEF Shape, Before
<1>3. Contents
  <2>1. \A k \in 0 .. have - 1 : k \in 0 .. Cap - 1 /\ k < Half - 1
    OBVIOUS
  <2>2. \A k \in 0 .. have - 1 : in[k] = k - (Half - 1)
    BY <2>1
  <2>3. have = Half - 1 /\ dropped = 0 /\ pulled = 0
    OBVIOUS
  <2> QED
    BY ONLY <2>2, <2>3, Constants DEF Contents, Before
<1>4. Clock
  <2>1. Time = 0
    BY StepType DEF Time
  <2> QED
    BY <2>1 DEF Clock, Before
<1> QED
  BY <1>1, <1>2, <1>3, <1>4 DEF IInv

LEMMA Keeps == IInv /\ [Next]_vars => IInv'
<1> SUFFICES ASSUME IInv, [Next]_vars PROVE IInv'
  OBVIOUS
<1> USE Constants DEF IInv
<1>1. CASE FillDrops
  <2>1. /\ Drop \in Nat /\ Drop > 0 /\ Drop <= have
        /\ have - Drop <= Taps - 1
    BY <1>1 DEF FillDrops, Drop, Shape, Before, TypeOK
  <2>2. TypeOK'
    <3>1. Moved \in [0 .. Cap - 1 -> Int]
      BY <2>1 DEF Moved, TypeOK, Shape
    <3> QED
      BY <1>1, <2>1, <3>1 DEF FillDrops, TypeOK, Drop, Shape, Before
  <2>3. Shape'
    BY <1>1, <2>1 DEF FillDrops, Shape, Drop, Before, TypeOK
  <2>4. Contents'
    <3>1. \A k \in 0 .. have - Drop - 1 : in'[k] = in[k + Drop]
      BY <1>1, <2>1 DEF FillDrops, Moved, Shape, TypeOK
    <3>2. \A k \in 0 .. have - Drop - 1 : in'[k] = k + Drop + dropped - Before
      <4> SUFFICES ASSUME NEW k \in 0 .. have - Drop - 1
                   PROVE  in'[k] = k + Drop + dropped - Before
        OBVIOUS
      <4>1. k + Drop \in 0 .. have - 1
        BY <2>1 DEF TypeOK
      <4>2. in[k + Drop] = k + Drop + dropped - Before
        BY <4>1 DEF Contents
      <4> QED
        BY <3>1, <4>2
    <3> QED
      BY <1>1, <2>1, <3>2 DEF FillDrops, Contents, TypeOK, Before
  <2>5. Clock'
    <3>1. i' + dropped' - Before = i + dropped - Before
      BY <1>1, <2>1 DEF FillDrops, TypeOK, Before
    <3> QED
      BY <1>1, <3>1 DEF FillDrops, Clock, Time
  <2> QED
    BY <2>2, <2>3, <2>4, <2>5
<1>2. CASE FillKeeps
  <2>1. TypeOK'
    BY <1>2 DEF FillKeeps, TypeOK
  <2>2. Shape'
    BY <1>2 DEF FillKeeps, Shape, Drop, Before, TypeOK
  <2> QED
    BY <1>2, <2>1, <2>2 DEF FillKeeps, Contents, Clock, Time
<1>3. CASE Pull
  <2>1. TypeOK'
    BY <1>3 DEF Pull, TypeOK
  <2>2. Shape'
    BY <1>3 DEF Pull, Shape, Before, TypeOK
  <2>3. Contents'
    <3>1. \A k \in 0 .. have - 1 : in'[k] = in[k]
      BY <1>3 DEF Pull, Shape, TypeOK
    <3>2. \A k \in have .. have + Chunk - 1 : in'[k] = pulled + (k - have)
      BY <1>3 DEF Pull, Shape, TypeOK
    <3>3. \A k \in 0 .. have + Chunk - 1 :
            k \in 0 .. have - 1 \/ k \in have .. have + Chunk - 1
      BY DEF TypeOK
    <3>4. \A k \in 0 .. have - 1 : in'[k] = k + dropped - Before
      BY <3>1 DEF Contents
    <3>5. \A k \in have .. have + Chunk - 1 : in'[k] = k + dropped - Before
      BY <3>2 DEF Contents, TypeOK, Before
    <3>6. \A k \in 0 .. have + Chunk - 1 : in'[k] = k + dropped - Before
      BY <3>3, <3>4, <3>5
    <3>7. have' = have + Chunk /\ pulled' = pulled + Chunk
          /\ UNCHANGED dropped
      BY <1>3 DEF Pull
    <3>8. pulled' = have' + dropped' - Before
      BY <3>7 DEF Contents, TypeOK, Before
    <3> QED
      <4>1. \A k \in 0 .. have' - 1 : in'[k] = k + dropped' - Before
        <5> SUFFICES ASSUME NEW k \in 0 .. have' - 1
                     PROVE  in'[k] = k + dropped' - Before
          OBVIOUS
        <5>1. k \in 0 .. have + Chunk - 1
          BY <3>7 DEF TypeOK
        <5> QED
          BY <3>6, <3>7, <5>1
      <4> QED
        BY <4>1, <3>8 DEF Contents, Before
  <2> QED
    BY <1>3, <2>1, <2>2, <2>3 DEF Pull, Clock, Time
<1>4. CASE Pulled
  <2>1. TypeOK'
    BY <1>4 DEF Pulled, TypeOK
  <2>2. Shape'
    BY <1>4 DEF Pulled, Shape, TypeOK
  <2> QED
    BY <1>4, <2>1, <2>2 DEF Pulled, Contents, Clock, Time
<1>5. CASE Filter
  <2> DEFINE w == step.whole  fr == step.frac
  <2>0. /\ w \in Nat /\ w <= Taps /\ fr \in Nat /\ fr < Den
        /\ w = Taps => fr = 0
    BY StepType DEF TypeOK
  <2> HIDE DEF w, fr
  <2>1. \/ f + fr >= Den /\ i' = i + w + 1 /\ f' = f + fr - Den
        \/ f + fr < Den /\ i' = i + w /\ f' = f + fr
    BY <1>5, <2>0 DEF Filter, TypeOK, w, fr
  <2>2. i' \in Nat /\ i' >= i /\ i' <= i + Taps /\ f' \in 0 .. Den - 1
    BY <2>0, <2>1 DEF TypeOK
  <2>3. TypeOK'
    BY <1>5, <2>2 DEF Filter, TypeOK
  <2>4. Shape'
    <3>1. i + Half < have
      BY <1>5 DEF Filter, Shape
    <3>2. pc' = "frame" /\ have' = have
      BY <1>5 DEF Filter
    <3>3. i >= Before /\ have <= i + Half + Chunk /\ have <= Cap
          /\ i \in Nat /\ have \in Nat
      BY DEF Shape, TypeOK
    <3>4. i' >= Before /\ i' + Half < have + Taps /\ have <= i' + Half + Chunk
      <4>1. i \in Int /\ i' \in Int /\ have \in Int
        BY <2>2, <3>3
      <4> QED
        BY ONLY <4>1, <2>2, <3>1, <3>3, Advances
    <3> QED
      BY ONLY <3>2, <3>3, <3>4 DEF Shape, Before
  <2>5. Clock'
    <3> DEFINE x == i + dropped - Before
    <3>1. x \in Int /\ f \in Int /\ out \in Int
      BY DEF TypeOK, Before
    <3>2. Den * x + f = out * (w * Den + fr)
      BY DEF Clock, Time, w, fr
    <3>3. /\ Den * (x + w) + (f + fr) = (out + 1) * (w * Den + fr)
          /\ Den * (x + w + 1) + (f + fr - Den) = (out + 1) * (w * Den + fr)
      <4> HIDE DEF x
      <4>1. Den * (x + w) = Den * x + w * Den
        BY <2>0, <3>1
      <4>2. Den * (x + w + 1) = Den * x + w * Den + Den
        BY <2>0, <3>1
      <4>3. (out + 1) * (w * Den + fr) = out * (w * Den + fr) + (w * Den + fr)
        BY <2>0, <3>1
      <4>4. /\ Den * x \in Int /\ w * Den \in Int
            /\ out * (w * Den + fr) \in Int
        BY <2>0, <3>1
      <4> QED
        BY <2>0, <3>1, <3>2, <4>1, <4>2, <4>3, <4>4
    <3>4. \/ i' + dropped - Before = x + w + 1 /\ f' = f + fr - Den
          \/ i' + dropped - Before = x + w /\ f' = f + fr
      BY <2>0, <2>1 DEF TypeOK, Before
    <3>5. Den * (i' + dropped - Before) + f' = (out + 1) * (w * Den + fr)
      <4> HIDE DEF x
      <4> QED
        BY <3>3, <3>4
    <3> QED
      BY <1>5, <3>5 DEF Filter, Clock, Time, w, fr
  <2> QED
    BY <1>5, <2>3, <2>4, <2>5 DEF Filter, Contents
<1>6. CASE UNCHANGED vars
  BY <1>6 DEF vars, TypeOK, Shape, Contents, Clock, Time
<1> QED
  BY <1>1, <1>2, <1>3, <1>4, <1>5, <1>6 DEF Next

THEOREM Inductive == Spec => []IInv
BY Starts, Keeps, PTL DEF Spec

(* Types: of every field, in every reachable state. *)
THEOREM TypeCorrect == Spec => []TypeOK
BY Inductive, PTL DEF IInv

(* InBounds: the array is never read or written outside, and never asked to
   drop more than it holds. *)
THEOREM NeverOutside == Spec => []InBounds
<1>1. IInv => InBounds
  BY Constants DEF IInv, Shape, InBounds, TypeOK, Before
<1> QED
  BY <1>1, Inductive, PTL

(* InStep: the window of output frame j is the frames around j times the step,
   for every j: the streams never drift apart. *)
THEOREM Step == Spec => []InStep
<1>1. IInv => InStep
  <2> SUFFICES ASSUME IInv, pc = "filter", NEW k \in 0 .. Taps - 1
               PROVE  Den * (in[i - Half + 1 + k] - k + Half - 1) + f = Time
    BY DEF InStep
  <2> USE Constants DEF IInv
  <2>1. i - Half + 1 + k \in 0 .. have - 1
    BY DEF Shape, TypeOK, Before
  <2>2. in[i - Half + 1 + k] = i - Half + 1 + k + dropped - Before
    BY <2>1 DEF Contents
  <2>3. in[i - Half + 1 + k] - k + Half - 1 = i + dropped - Before
    BY <2>2 DEF TypeOK, Before
  <2> QED
    BY <2>3 DEF Clock
<1> QED
  BY <1>1, Inductive, PTL

(* LittleAhead: the engine renders at most a chunk past the window. *)
THEOREM Ahead == Spec => []LittleAhead
<1>1. ASSUME NEW d \in Nat, NEW x \in Int, NEW y \in Int, x <= y
      PROVE  d * x <= d * y
  BY <1>1
<1>2. IInv => LittleAhead
  <2> SUFFICES ASSUME IInv PROVE LittleAhead
    OBVIOUS
  <2> USE Constants DEF IInv
  <2> DEFINE x == pulled - Half - Chunk
             y == i + dropped - Before
  <2>1. x \in Int /\ y \in Int /\ f \in Nat
    BY DEF TypeOK, Before
  <2>0. x <= y
    BY DEF Contents, Shape, TypeOK, Before
  <2>2. Den * y + f = Time /\ Den * x \in Int /\ Den * y \in Int
    BY <2>1 DEF Clock
  <2>3. Den * x <= Den * y
    BY <1>1, <2>0, <2>1
  <2> HIDE DEF x, y
  <2>4. Den * x <= Time
    BY <2>1, <2>2, <2>3
  <2> QED
    BY <2>4 DEF LittleAhead, x
<1> QED
  BY <1>2, Inductive, PTL

-----------------------------------------------------------------------------
(* The path. *)

(* The types the steps need; the options are fixed from the start. *)
PathTypes ==
  /\ backend \in {"vsc", "scva"}
  /\ left \in Nat /\ want \in Nat /\ had \in Nat
  /\ had + want <= Longest
  /\ buf \in [0 .. Longest - 1 -> Int]
  /\ block \in [0 .. Block - 1 -> Int] /\ used \in 0 .. Block
  /\ rendered \in Nat /\ handed \in Nat

(* What the engine has rendered is what was handed out and, of a VSC, what is
   left of its block. *)
Engine ==
  /\ backend = "scva" => handed = rendered
  /\ backend = "vsc" =>
       /\ handed = rendered - Block + used
       /\ used < Block => \A k \in 0 .. Block - 1 : block[k] = rendered - Block + k

(* A pull is one render call of a chunk; only a resampled synth pulls. *)
Pulling ==
  /\ Resampled => handed = pulled + had
  /\ ~Resampled => pc = "frame" /\ left = 0
  /\ pc # "frame" => left > 0
  /\ Resampled /\ pc # "pull" => want = 0 /\ had = 0
  /\ Resampled /\ pc = "pull" /\ (want > 0 \/ had > 0) =>
       want + had = Chunk /\ last >= have

PathInv == IInv /\ PathTypes /\ Engine /\ FramesInOrder /\ Pulling

LEMMA Sizes ==
  /\ Block \in Nat /\ Block >= 1 /\ MaxBlock \in Nat /\ MaxBlock >= 1
  /\ Longest \in Nat /\ Chunk <= Longest
  /\ \A n \in Calls : n \in Nat /\ n >= 1 /\ n <= Longest
<1>1. PICK n \in Calls \cup {Chunk} : \A k \in Calls \cup {Chunk} : k <= n
  BY PathAssumption
<1>2. /\ Longest \in Calls \cup {Chunk}
      /\ \A k \in Calls \cup {Chunk} : k <= Longest
  BY <1>1 DEF Longest
<1> QED
  BY <1>2, PathAssumption, ResamplerAssumption

(* Every step of the path is one of Resampler's or leaves it alone. *)
LEMMA Refined ==
  PathInv /\ [PathNext]_allVars => [Next]_vars
<1> SUFFICES ASSUME PathInv, [PathNext]_allVars PROVE [Next]_vars
  OBVIOUS
<1>1. CASE PullReturns
  <2>1. /\ pc = "pull" /\ want = 0 /\ had > 0
        /\ have' = have + Chunk /\ pulled' = pulled + Chunk
        /\ UNCHANGED <<step, i, f, last, pc, out, dropped>>
        /\ in' = [k \in 0 .. Cap - 1 |-> IF k >= have /\ k < have + Chunk
                                         THEN buf[k - have] ELSE in[k]]
    BY <1>1 DEF PullReturns
  <2>2. had = Chunk /\ last >= have /\ handed = pulled + Chunk
    BY <2>1 DEF PathInv, Pulling, PathTypes
  <2>3. \A k \in 0 .. Chunk - 1 : buf[k] = pulled + k
    BY <2>2, Constants DEF PathInv, FramesInOrder, PathTypes, IInv, TypeOK
  <2>4. \A k \in 0 .. Cap - 1 : k >= have /\ k < have + Chunk =>
          buf[k - have] = pulled + (k - have)
    BY <2>3, Constants DEF PathInv, IInv, TypeOK
  <2>5. in' = [k \in 0 .. Cap - 1 |-> IF k >= have /\ k < have + Chunk
                                      THEN pulled + (k - have) ELSE in[k]]
    BY <2>1, <2>4
  <2> QED
    BY <2>1, <2>2, <2>5 DEF Pull, Next
<1>2. CASE Fills
  BY <1>2 DEF Fills, Next
<1>3. CASE Held
  BY <1>3 DEF Held, Next
<1>4. CASE FilterOne
  BY <1>4 DEF FilterOne, Next
<1>5. CASE Opens \/ Closes \/ SendMidi
  BY <1>5 DEF Opens, Closes, SendMidi
<1>6. CASE \E n \in Calls : Call(n)
  BY <1>6 DEF Call
<1>7. CASE RenderBlock \/ CopyOut \/ Process \/ Pulls
  BY <1>7 DEF RenderBlock, CopyOut, Process, Pulls
<1>8. CASE UNCHANGED allVars
  BY <1>8 DEF allVars
<1> QED
  BY <1>1, <1>2, <1>3, <1>4, <1>5, <1>6, <1>7, <1>8 DEF PathNext

(* Copying n of the engine's frames to where the call has got keeps their
   order. *)
LEMMA Appended ==
  ASSUME PathTypes, FramesInOrder, NEW n \in Nat, n <= want,
         NEW src, \A k \in 0 .. n - 1 : src[k] = handed + k,
         buf' = [k \in DOMAIN buf |-> IF k >= had /\ k < had + n
                                      THEN src[k - had] ELSE buf[k]],
         had' = had + n, handed' = handed + n
  PROVE  /\ buf' \in [0 .. Longest - 1 -> Int]
         /\ \A k \in 0 .. had' - 1 : buf'[k] = handed' - had' + k
<1>1. \A k \in 0 .. Longest - 1 : k >= had /\ k < had + n => src[k - had] = handed + (k - had)
  BY Sizes DEF PathTypes
<1>2. \A k \in 0 .. had + n - 1 : k \in 0 .. Longest - 1
  BY Sizes DEF PathTypes
<1>3. \A k \in 0 .. Longest - 1 : buf'[k] = IF k >= had /\ k < had + n
                                           THEN handed + (k - had) ELSE buf[k]
  BY <1>1 DEF PathTypes
<1>4. \A k \in 0 .. had + n - 1 : buf'[k] = handed - had + k
  BY <1>2, <1>3 DEF PathTypes, FramesInOrder
<1>5. buf' \in [0 .. Longest - 1 -> Int]
  <2>1. \A k \in 0 .. Longest - 1 : (IF k >= had /\ k < had + n
                                     THEN handed + (k - had) ELSE buf[k]) \in Int
    BY DEF PathTypes
  <2> QED
    BY <1>1, <2>1 DEF PathTypes
<1> QED
  BY <1>4, <1>5 DEF PathTypes

LEMMA PathStarts == PathInit => PathInv
<1> SUFFICES ASSUME PathInit PROVE PathInv
  OBVIOUS
<1> USE Sizes DEF PathInit, OpenInit
<1>1. IInv
  BY Starts
<1>2. PathTypes
  BY DEF PathTypes, NoFrame
<1>3. Engine /\ FramesInOrder
  BY DEF Engine, FramesInOrder
<1>4. Pulling
  BY DEF Pulling, Init
<1> QED
  BY <1>1, <1>2, <1>3, <1>4 DEF PathInv

LEMMA PathKeeps == PathInv /\ [PathNext]_allVars => PathInv'
<1> SUFFICES ASSUME PathInv, [PathNext]_allVars PROVE PathInv'
  OBVIOUS
<1>0. IInv'
  BY Refined, Keeps DEF PathInv
<1> USE Sizes, Constants DEF PathInv
<1>1. CASE Opens \/ Closes
  <2>1. UNCHANGED <<vars, pathVars, backend, rate, engine_rate>>
    BY <1>1 DEF Opens, Opening, OpenVsc, Gets, Configure, VscOpenFails,
                BuffersFail, Wrap, WrapFails, OpenScva, ScvaOpenFails, Closes,
                Close
  <2> QED
    BY <1>0, <2>1 DEF vars, pathVars, callVars, blockVars, PathTypes, Engine,
                      FramesInOrder, Pulling, Resampled
<1>2. ASSUME NEW n \in Calls, Call(n) PROVE PathInv'
  <2>1. /\ UNCHANGED <<pc, pulled, last, have, backend, rate, engine_rate,
                       buf, block, used, rendered, handed>>
        /\ want = 0 /\ pc = "frame"
    BY <1>2 DEF Call, Idle, vars, openVars, blockVars, callVars, Asks
  <2>2. CASE Resampled
    BY <1>0, <1>2, <2>1, <2>2
    DEF Call, callVars, PathTypes, Engine, FramesInOrder, Pulling, Resampled
  <2>3. CASE ~Resampled
    <3>1. want' = n /\ had' = 0 /\ left' = left
      BY <1>2, <2>3 DEF Call, Asks
    <3> QED
      BY <1>0, <2>1, <2>3, <3>1
      DEF PathTypes, Engine, FramesInOrder, Pulling, Resampled
  <2> QED
    BY <2>2, <2>3
<1>3. CASE SendMidi
  BY <1>0, <1>3 DEF SendMidi, vars, openVars, callVars, blockVars, PathTypes,
                    Engine, FramesInOrder, Pulling, Resampled
<1>4. CASE RenderBlock
  <2>1. /\ UNCHANGED <<pc, pulled, last, have, backend, rate, engine_rate, left,
                       want, had, buf, handed>>
        /\ backend = "vsc" /\ want > 0 /\ used = Block
        /\ rendered' = rendered + Block /\ used' = 0
        /\ block' = [k \in 0 .. Block - 1 |-> rendered + k]
    BY <1>4 DEF RenderBlock, vars, openVars, callVars
  <2>2. PathTypes'
    BY <2>1 DEF PathTypes
  <2>3. Engine' /\ FramesInOrder'
    BY <2>1 DEF PathTypes, Engine, FramesInOrder
  <2>4. Pulling'
    BY <2>1 DEF Pulling, Resampled
  <2> QED
    BY <1>0, <2>2, <2>3, <2>4
<1>5. CASE CopyOut
  <2>1. /\ UNCHANGED <<pc, pulled, last, have, backend, rate, engine_rate, left,
                       block, rendered>>
        /\ backend = "vsc" /\ want > 0 /\ used < Block
        /\ had' = had + Take /\ want' = want - Take
        /\ used' = used + Take /\ handed' = handed + Take
        /\ buf' = [k \in DOMAIN buf |-> IF k >= had /\ k < had + Take
                                        THEN block[used + k - had] ELSE buf[k]]
    BY <1>5 DEF CopyOut, vars, openVars
  <2>2. Take \in Nat /\ Take > 0 /\ Take <= want /\ used + Take <= Block
    BY <2>1 DEF Take, PathTypes
  <2> DEFINE src == [k \in 0 .. Take - 1 |-> block[used + k]]
  <2>3. \A k \in 0 .. Take - 1 : src[k] = handed + k
    <3>1. \A k \in 0 .. Block - 1 : block[k] = rendered - Block + k
      BY <2>1 DEF Engine
    <3>2. handed = rendered - Block + used
      BY <2>1 DEF Engine
    <3> SUFFICES ASSUME NEW k \in 0 .. Take - 1 PROVE block[used + k] = handed + k
      BY DEF src
    <3>3. used + k \in 0 .. Block - 1
      BY <2>2 DEF PathTypes
    <3> QED
      BY <3>1, <3>2, <3>3, <2>2 DEF PathTypes
  <2>4. \A k \in 0 .. Longest - 1 : k >= had /\ k < had + Take =>
          block[used + k - had] = src[k - had]
    BY <2>2 DEF PathTypes
  <2>5. buf' = [k \in DOMAIN buf |-> IF k >= had /\ k < had + Take
                                     THEN src[k - had] ELSE buf[k]]
    BY <2>1, <2>4 DEF PathTypes
  <2> HIDE DEF src
  <2>6. /\ buf' \in [0 .. Longest - 1 -> Int]
        /\ \A k \in 0 .. had' - 1 : buf'[k] = handed' - had' + k
    BY <2>1, <2>2, <2>3, <2>5, Appended
  <2>7. PathTypes'
    BY <2>1, <2>2, <2>6 DEF PathTypes
  <2>8. Engine' /\ FramesInOrder'
    <3>1. handed' = rendered - Block + used' /\ used' <= Block
      BY <2>1, <2>2 DEF PathTypes, Engine
    <3>2. \A k \in 0 .. Block - 1 : block'[k] = rendered' - Block + k
      BY <2>1 DEF Engine
    <3>3. Engine'
      BY <2>1, <3>1, <3>2 DEF Engine
    <3>4. handed' <= rendered'
      BY <2>1, <3>1, <2>7 DEF PathTypes
    <3> QED
      BY <2>6, <3>3, <3>4 DEF FramesInOrder
  <2>9. Pulling'
    BY <2>1, <2>2 DEF Pulling, Resampled, PathTypes, IInv, TypeOK
  <2> QED
    BY <1>0, <2>7, <2>8, <2>9
<1>6. CASE Process
  <2> DEFINE n == IF want > MaxBlock THEN MaxBlock ELSE want
             src == [k \in 0 .. n - 1 |-> rendered + k]
  <2>1. /\ UNCHANGED <<pc, pulled, last, have, backend, rate, engine_rate, left,
                       block, used>>
        /\ backend = "scva" /\ want > 0
        /\ had' = had + n /\ want' = want - n
        /\ rendered' = rendered + n /\ handed' = handed + n
        /\ buf' = [k \in DOMAIN buf |-> IF k >= had /\ k < had + n
                                        THEN rendered + k - had ELSE buf[k]]
    BY <1>6 DEF Process, vars, openVars, blockVars
  <2>2. n \in Nat /\ n > 0 /\ n <= want
    BY <2>1 DEF PathTypes
  <2> HIDE DEF n
  <2>3. \A k \in 0 .. n - 1 : src[k] = handed + k
    BY <2>1, <2>2 DEF Engine, PathTypes
  <2>4. \A k \in 0 .. Longest - 1 : k >= had /\ k < had + n =>
          rendered + k - had = src[k - had]
    BY <2>2 DEF PathTypes
  <2>5. buf' = [k \in DOMAIN buf |-> IF k >= had /\ k < had + n
                                     THEN src[k - had] ELSE buf[k]]
    BY <2>1, <2>4 DEF PathTypes
  <2> HIDE DEF src
  <2>6. /\ buf' \in [0 .. Longest - 1 -> Int]
        /\ \A k \in 0 .. had' - 1 : buf'[k] = handed' - had' + k
    BY <2>1, <2>2, <2>3, <2>5, Appended
  <2>7. PathTypes'
    BY <2>1, <2>2, <2>6 DEF PathTypes
  <2>8. Engine' /\ FramesInOrder'
    BY <2>1, <2>2, <2>6 DEF PathTypes, Engine, FramesInOrder
  <2>9. Pulling'
    BY <2>1, <2>2 DEF Pulling, Resampled, PathTypes, IInv, TypeOK
  <2> QED
    BY <1>0, <2>7, <2>8, <2>9
<1>7. CASE Fills \/ Held
  <2>1. /\ UNCHANGED <<openVars, pathVars, pulled>>
        /\ \/ pc = "frame" /\ left > 0 /\ pc' = "pull"
           \/ pc = "pull" /\ want = 0 /\ had = 0 /\ pc' = "filter"
    BY <1>7 DEF Fills, FillDrops, FillKeeps, Held, Pulled
  <2>2. Resampled
    BY <2>1 DEF Pulling
  <2>3. want = 0 /\ had = 0
    BY <2>1, <2>2 DEF Pulling
  <2> QED
    BY <1>0, <2>1, <2>2, <2>3 DEF openVars, pathVars, callVars, blockVars,
       PathTypes, Engine, FramesInOrder, Pulling, Resampled
<1>8. CASE Pulls
  <2>1. /\ UNCHANGED <<pc, pulled, last, have, backend, rate, engine_rate, left,
                       buf, block, used, rendered, handed>>
        /\ pc = "pull" /\ last >= have /\ want = 0 /\ had = 0
        /\ want' = Chunk /\ had' = 0
    BY <1>8 DEF Pulls, Asks, vars, openVars, blockVars
  <2>2. PathTypes'
    BY <2>1 DEF PathTypes
  <2>3. Engine' /\ FramesInOrder' /\ Pulling'
    BY <2>1 DEF Engine, FramesInOrder, Pulling, Resampled, PathTypes
  <2> QED
    BY <1>0, <2>2, <2>3
<1>9. CASE PullReturns
  <2>1. /\ UNCHANGED <<pc, last, backend, rate, engine_rate, left,
                       want, buf, block, used, rendered, handed>>
        /\ pc = "pull" /\ want = 0 /\ had > 0
        /\ had' = 0 /\ pulled' = pulled + Chunk
    BY <1>9 DEF PullReturns, openVars, blockVars
  <2>2. Resampled /\ had = Chunk
    BY <2>1 DEF Pulling, PathTypes
  <2>3. PathTypes'
    BY <2>1 DEF PathTypes
  <2>4. Engine' /\ FramesInOrder'
    BY <2>1 DEF Engine, FramesInOrder, PathTypes
  <2>5. Pulling'
    BY <2>1, <2>2 DEF Pulling, Resampled, PathTypes, IInv, TypeOK
  <2> QED
    BY <1>0, <2>3, <2>4, <2>5
<1>10. CASE FilterOne
  <2>1. /\ UNCHANGED <<openVars, callVars, blockVars, rendered, handed, pulled>>
        /\ pc = "filter" /\ pc' = "frame" /\ left' = left - 1
    BY <1>10 DEF FilterOne, Filter
  <2>2. Resampled
    BY <2>1 DEF Pulling
  <2> QED
    BY <1>0, <2>1, <2>2 DEF openVars, callVars, blockVars, PathTypes, Engine,
                            FramesInOrder, Pulling, Resampled
<1>11. CASE UNCHANGED allVars
  BY <1>0, <1>11 DEF allVars, vars, openVars, pathVars, callVars, blockVars,
                     PathTypes, Engine, FramesInOrder, Pulling, Resampled
<1> QED
  BY <1>1, <1>2, <1>3, <1>4, <1>5, <1>6, <1>7, <1>8, <1>9, <1>10, <1>11
  DEF PathNext

THEOREM PathInductive == PathSpec => []PathInv
BY PathStarts, PathKeeps, PTL DEF PathSpec

(* ImplementsResampler: what the path does to the resampler is what Resampler
   says, so all that is proved of Resampler holds in the path. *)
THEOREM PathRefines == PathSpec => ImplementsResampler
<1>1. PathInit => Init
  BY DEF PathInit
<1> QED
  BY <1>1, Refined, PathInductive, PTL DEF PathSpec, ImplementsResampler, Spec

(* FramesInOrder: no size of call, chunk or block loses a frame or gives one
   twice. *)
THEOREM InOrder == PathSpec => []FramesInOrder
BY PathInductive, PTL DEF PathInv

(* InBounds and InStep, of the resampler inside the path. *)
THEOREM PathInBounds == PathSpec => []InBounds
BY PathRefines, NeverOutside, PTL DEF ImplementsResampler

THEOREM PathInStep == PathSpec => []InStep
BY PathRefines, Step, PTL DEF ImplementsResampler

-----------------------------------------------------------------------------
(* When messages play. *)

StepTime == step.whole * Den + step.frac

(* A frame the host has had needed half a window after it, so the engine was
   at least that far when it was made. *)
Lead ==
  Resampled /\ pc = "frame" /\ out > 0 => Time - StepTime < Den * (pulled - Half)

Whole == backend = "vsc" => \E n \in Nat : rendered = n * Block

(* Between render calls a VSC's last block is not untouched. *)
Touched == backend = "vsc" /\ want = 0 => used >= 1

Bare == backend = "scva" => ~Resampled

(* A message not played yet would be in time if it played next. *)
Waiting == msg.is = "sent" => Prompt(msg.at, rendered)

MsgType == msg \in [is : {"none", "sent", "played"}, at : Nat, frame : Nat]

MidiInv == MsgType /\ Bare /\ Lead /\ Whole /\ Touched /\ Waiting /\ MidiPlaysSoon

LEMMA Scaled ==
  ASSUME NEW x \in Int, NEW y \in Int
  PROVE  /\ Den * x \in Int /\ Den * x - Den * y = Den * (x - y)
         /\ x < y => Den * x < Den * y
         /\ x <= y => Den * x <= Den * y
BY Constants

LEMMA Times ==
  ASSUME IInv
  PROVE  /\ StepTime \in Nat /\ Time \in Nat
         /\ out = 0 => Time = 0
         /\ Den * (pulled - Half - Chunk) <= Time
<1>1. StepTime \in Nat
  <2>1. step \in Steps /\ Den \in Nat
    BY Constants DEF IInv, TypeOK
  <2>2. step.whole \in Nat /\ step.frac \in Nat
    BY <2>1, StepType
  <2> QED
    BY <2>1, <2>2 DEF StepTime
<1> USE Constants DEF IInv
<1>2. Time = out * StepTime /\ out \in Nat
  BY DEF Time, StepTime, TypeOK
<1>3. Time \in Nat /\ (out = 0 => Time = 0)
  BY <1>1, <1>2
<1>4. pulled - Half - Chunk \in Int /\ i + dropped - Before \in Int
      /\ pulled - Half - Chunk <= i + dropped - Before
  BY DEF Contents, Shape, TypeOK, Before
<1>5. Den * (pulled - Half - Chunk) <= Den * (i + dropped - Before)
  BY <1>4, Scaled
<1>6. Den * (i + dropped - Before) + f = Time /\ f \in Nat
      /\ Den * (pulled - Half - Chunk) \in Int /\ Den * (i + dropped - Before) \in Int
  BY <1>4, Scaled DEF Clock, TypeOK
<1> QED
  BY <1>1, <1>3, <1>5, <1>6

(* At the end of a frame: its window was held. *)
LEMMA WindowHeld ==
  ASSUME IInv, pc = "filter"
  PROVE  Time < Den * (pulled - Half)
<1> USE Constants DEF IInv
<1> DEFINE x == i + dropped - Before
           y == pulled - Half
<1>1. x \in Int /\ y \in Int /\ f \in Nat /\ f < Den
  BY DEF TypeOK, Before
<1>2. x + 1 <= y
  BY DEF Contents, Shape, TypeOK, Before
<1>3. Den * x + f = Time
  BY DEF Clock
<1> HIDE DEF x
<1>4. Den * (x + 1) <= Den * y
  <2> HIDE DEF y
  <2>1. x + 1 \in Int
    BY <1>1
  <2> QED
    BY <1>1, <1>2, <2>1, Scaled
<1>5. Den * (x + 1) = Den * x + Den
  BY <1>1
<1>6. Den * x \in Int /\ Den * y \in Int
  <2> HIDE DEF y
  <2> QED
    BY <1>1
<1> QED
  BY <1>1, <1>3, <1>4, <1>5, <1>6

(* A message sent between two calls is in time if it plays next. *)
LEMMA SentInTime ==
  ASSUME PathInv, Bare, Lead, Whole, Touched, Idle
  PROVE  Prompt(HostTime, rendered)
<1> USE Sizes, Constants DEF PathInv
<1>0. /\ handed \in Nat /\ rendered \in Nat /\ used \in Nat /\ used <= Block
      /\ want = 0 /\ pc = "frame"
  BY DEF PathTypes, Idle
<1>1. CASE backend = "scva"
  <2>1. HostTime = Den * rendered
    BY <1>1 DEF Bare, HostTime, Engine
  <2> QED
    BY <1>0, <1>1, <2>1, Scaled DEF Prompt
<1>2. CASE backend = "vsc" /\ ~Resampled
  <2>1. handed <= rendered /\ rendered - handed < Block
    BY <1>0, <1>2 DEF Engine, Touched
  <2>2. HostTime = Den * handed
    BY <1>2 DEF HostTime
  <2>3. /\ Den * rendered - Den * handed = Den * (rendered - handed)
        /\ Den * handed <= Den * rendered
        /\ Den * (rendered - handed) < Den * Block
        /\ Den * rendered \in Int /\ Den * handed \in Int
    BY <1>0, <2>1, Scaled
  <2>4. PICK n \in Nat : rendered = n * Block
    BY <1>2 DEF Whole
  <2>5. n <= n * Block
    BY <2>4
  <2>6. \E m \in 0 .. rendered : rendered = m * Block
    BY <1>0, <2>4, <2>5
  <2>7. Den * rendered - HostTime >= 0 /\ Den * rendered - HostTime < Den * Block
    BY <2>2, <2>3
  <2> QED
    BY <1>2, <2>6, <2>7 DEF Prompt
<1>3. CASE backend = "vsc" /\ Resampled
  <2>1. HostTime = Time
    BY <1>3 DEF HostTime
  <2>2. pulled \in Nat /\ handed = pulled
    BY <1>0, <1>3 DEF Pulling, IInv, TypeOK
  <2>3. pulled <= rendered /\ rendered < pulled + Block
    BY <1>0, <1>3, <2>2 DEF Engine, Touched
  <2>4. /\ StepTime \in Nat /\ Time \in Nat
        /\ out = 0 => Time = 0
        /\ Den * (pulled - Half - Chunk) <= Time
    BY Times
  <2>5. Den * rendered - Time < Den * (Half + Chunk + Block)
    <3>1. rendered - (pulled - Half - Chunk) < Half + Chunk + Block
      BY <1>0, <2>2, <2>3
    <3>2. Den * (rendered - (pulled - Half - Chunk)) < Den * (Half + Chunk + Block)
      BY <1>0, <2>2, <3>1, Scaled
    <3>3. Den * rendered - Den * (pulled - Half - Chunk)
            = Den * (rendered - (pulled - Half - Chunk))
      BY <1>0, <2>2, Scaled
    <3>4. /\ Den * rendered \in Int /\ Den * (pulled - Half - Chunk) \in Int
          /\ Den * (Half + Chunk + Block) \in Int
      BY <1>0, <2>2, Scaled
    <3> QED
      BY <2>4, <3>2, <3>3, <3>4
  <2>6. Time > 0 => Den * rendered - Time > Den * Half - StepTime
    <3> SUFFICES ASSUME Time > 0 PROVE Den * rendered - Time > Den * Half - StepTime
      OBVIOUS
    <3>1. Time - StepTime < Den * (pulled - Half)
      BY <1>0, <1>3, <2>4 DEF Lead, IInv, TypeOK
    <3>2. Den * (pulled - Half) <= Den * (rendered - Half)
      BY <1>0, <2>2, <2>3, Scaled
    <3>3. Den * rendered - Den * Half = Den * (rendered - Half)
      BY <1>0, Scaled
    <3>4. /\ Den * rendered \in Int /\ Den * Half \in Int
          /\ Den * (pulled - Half) \in Int
      BY <1>0, <2>2, Scaled
    <3> QED
      BY <2>4, <3>1, <3>2, <3>3, <3>4
  <2> QED
    BY <1>3, <2>1, <2>5, <2>6 DEF Prompt, StepTime
<1> QED
  BY <1>1, <1>2, <1>3 DEF PathTypes

LEMMA MidiStarts == PathInit => MidiInv
<1> SUFFICES ASSUME PathInit PROVE MidiInv
  OBVIOUS
<1>1. Bare
  BY DEF PathInit, OpenInit, Bare, Resampled, RenderedAt
<1>2. Lead
  BY DEF PathInit, Init, Lead
<1>3. Whole /\ Touched
  <2>1. 0 = 0 * Block
    BY Sizes
  <2> QED
    BY <2>1, Sizes DEF PathInit, Whole, Touched
<1>4. MsgType /\ Waiting /\ MidiPlaysSoon
  BY DEF PathInit, NoMessage, MsgType, Waiting, MidiPlaysSoon
<1> QED
  BY <1>1, <1>2, <1>3, <1>4 DEF MidiInv

(* Steps that leave the engine's frames and the message alone. *)
LEMMA MessageKept ==
  ASSUME Waiting, MidiPlaysSoon, UNCHANGED <<step, backend, rate, engine_rate, rendered, msg>>
  PROVE  Waiting' /\ MidiPlaysSoon'
BY DEF Waiting, MidiPlaysSoon, Prompt, Resampled

(* Steps in which the engine renders. *)
LEMMA MessagePlays ==
  ASSUME PathTypes, MsgType, Waiting, MidiPlaysSoon,
         UNCHANGED <<step, backend, rate, engine_rate>>, msg' = Heard(msg)
  PROVE  MsgType' /\ Waiting' /\ MidiPlaysSoon'
<1>1. CASE msg.is = "sent"
  <2>1. msg'.is = "played" /\ msg'.at = msg.at /\ msg'.frame = rendered
    BY <1>1 DEF Heard, MsgType
  <2>2. MsgType'
    BY <1>1 DEF Heard, MsgType, PathTypes
  <2> QED
    BY <1>1, <2>1, <2>2 DEF Waiting, MidiPlaysSoon, Prompt, Resampled
<1>2. CASE msg.is # "sent"
  BY <1>2 DEF Heard, MsgType, Waiting, MidiPlaysSoon, Prompt, Resampled
<1> QED
  BY <1>1, <1>2

LEMMA MidiKeeps == PathInv /\ MidiInv /\ [PathNext]_allVars => MidiInv'
<1> SUFFICES ASSUME PathInv, MidiInv, [PathNext]_allVars PROVE MidiInv'
  OBVIOUS
<1> USE Sizes, Constants DEF PathInv, MidiInv
<1>1. CASE Opens \/ Closes
  <2>1. UNCHANGED <<vars, pathVars, backend, rate, engine_rate>>
    BY <1>1 DEF Opens, Opening, OpenVsc, Gets, Configure, VscOpenFails,
                BuffersFail, Wrap, WrapFails, OpenScva, ScvaOpenFails, Closes,
                Close
  <2>2. UNCHANGED <<step, rendered, msg>>
    BY <2>1 DEF vars, pathVars
  <2> QED
    BY <2>1, <2>2, MessageKept
    DEF vars, pathVars, callVars, blockVars, MsgType, Bare, Lead, Whole, Touched,
        Resampled, Time, StepTime
<1>2. ASSUME NEW n \in Calls, Call(n) PROVE MidiInv'
  <2>1. /\ UNCHANGED <<step, pc, out, pulled, backend, rate, engine_rate,
                       used, rendered, msg>>
        /\ want = 0 /\ (want' = 0 => want = 0)
    BY <1>2 DEF Call, Idle, vars, openVars, blockVars, callVars
  <2> QED
    BY <2>1, MessageKept DEF MsgType, Bare, Lead, Whole, Touched, Resampled,
                             Time, StepTime
<1>3. CASE SendMidi
  <2>1. /\ UNCHANGED <<step, pc, out, pulled, backend, rate, engine_rate,
                       used, want, rendered>>
        /\ Idle
        /\ msg' = [is |-> "sent", at |-> HostTime, frame |-> 0]
    BY <1>3 DEF SendMidi, vars, openVars, blockVars, callVars
  <2>2. Prompt(HostTime, rendered)
    BY <2>1, SentInTime
  <2>3. HostTime \in Nat
    BY Times, Scaled DEF HostTime, PathTypes
  <2>4. MsgType' /\ Waiting' /\ MidiPlaysSoon'
    BY <2>1, <2>2, <2>3 DEF MsgType, Waiting, MidiPlaysSoon, Prompt, Resampled
  <2> QED
    BY <2>1, <2>4 DEF Bare, Lead, Whole, Touched, Resampled, Time, StepTime
<1>4. CASE RenderBlock
  <2>1. /\ UNCHANGED <<step, pc, out, pulled, backend, rate, engine_rate, want>>
        /\ want > 0 /\ rendered' = rendered + Block /\ msg' = Heard(msg)
    BY <1>4 DEF RenderBlock, vars, openVars, callVars
  <2>2. MsgType' /\ Waiting' /\ MidiPlaysSoon'
    BY <2>1, MessagePlays
  <2>3. Whole'
    <3>1. ASSUME NEW n \in Nat, rendered = n * Block
          PROVE  \E m \in Nat : rendered' = m * Block
      <4>1. rendered' = (n + 1) * Block
        BY <2>1, <3>1
      <4> QED
        BY <4>1
    <3> QED
      BY <2>1, <3>1 DEF Whole
  <2>4. Touched'
    BY <2>1 DEF Touched
  <2> QED
    BY <2>1, <2>2, <2>3, <2>4 DEF Bare, Lead, Resampled, Time, StepTime
<1>5. CASE CopyOut
  <2>1. /\ UNCHANGED <<step, pc, out, pulled, backend, rate, engine_rate,
                       rendered, msg>>
        /\ want > 0 /\ used < Block /\ used' = used + Take
    BY <1>5 DEF CopyOut, vars, openVars
  <2>2. used' >= 1
    BY <2>1 DEF Take, PathTypes
  <2> QED
    BY <2>1, <2>2, MessageKept DEF MsgType, Bare, Lead, Whole, Touched, Resampled,
                                   Time, StepTime
<1>6. CASE Process
  <2>1. /\ UNCHANGED <<step, pc, out, pulled, backend, rate, engine_rate>>
        /\ backend = "scva" /\ msg' = Heard(msg)
    BY <1>6 DEF Process, vars, openVars
  <2>2. MsgType' /\ Waiting' /\ MidiPlaysSoon'
    BY <2>1, MessagePlays
  <2> QED
    BY <2>1, <2>2 DEF Bare, Lead, Whole, Touched, Resampled, Time, StepTime
<1>7. CASE Fills \/ Held \/ Pulls \/ PullReturns
  <2>1. /\ UNCHANGED <<step, out, backend, rate, engine_rate, used,
                       rendered, msg>>
        /\ pc' # "frame"
        /\ want' = 0 => want = 0
    BY <1>7 DEF Fills, FillDrops, FillKeeps, Held, Pulled, Pulls, PullReturns,
                vars, openVars, pathVars, callVars, blockVars
  <2> QED
    BY <2>1, MessageKept DEF MsgType, Bare, Lead, Whole, Touched, Resampled
<1>8. CASE FilterOne
  <2>1. /\ UNCHANGED <<step, pulled, backend, rate, engine_rate, used, want,
                       rendered, msg>>
        /\ pc = "filter" /\ pc' = "frame" /\ out' = out + 1
    BY <1>8 DEF FilterOne, Filter, openVars, callVars, blockVars
  <2>2. Lead'
    <3>1. StepTime \in Nat /\ out \in Nat /\ Time = out * StepTime
      BY Times DEF Time, StepTime, IInv, TypeOK
    <3>2. Time' = (out + 1) * StepTime /\ StepTime' = StepTime
      BY <2>1 DEF Time, StepTime
    <3>3. Time' - StepTime' = Time
      BY <3>1, <3>2
    <3>4. Time < Den * (pulled - Half)
      BY <2>1, WindowHeld
    <3> QED
      BY <2>1, <3>3, <3>4 DEF Lead
  <2> QED
    BY <2>1, <2>2, MessageKept DEF MsgType, Bare, Whole, Touched, Resampled
<1>9. CASE UNCHANGED allVars
  <2>1. UNCHANGED <<step, pc, out, pulled, backend, rate, engine_rate, used, want,
                    rendered, msg>>
    BY <1>9 DEF allVars, vars, openVars, pathVars, callVars, blockVars
  <2> QED
    BY <2>1, MessageKept DEF MsgType, Bare, Lead, Whole, Touched, Resampled,
                             Time, StepTime
<1> QED
  BY <1>1, <1>2, <1>3, <1>4, <1>5, <1>6, <1>7, <1>8, <1>9 DEF PathNext

(* MidiPlaysSoon, for every size of window, chunk, block and call. *)
THEOREM PlaysSoon == PathSpec => []MidiPlaysSoon
<1>1. PathSpec => []MidiInv
  BY MidiStarts, MidiKeeps, PathInductive, PTL DEF PathSpec
<1> QED
  BY <1>1, PTL DEF MidiInv

-----------------------------------------------------------------------------
(* Opening an engine: the rate it is opened at, and what it leaves behind.  *)
(* The nearest rates are found one rate at a time, so what was found is     *)
(* proved by induction over them, from the well-foundedness of < on Nat.    *)

LEMMA Least ==
  ASSUME NEW S, S \subseteq Nat, S # {}
  PROVE  \E x \in S : \A y \in S : ~ y < x
<1>1. \E x \in S : \A y \in S : ~ (<<y, x>> \in OpToRel(<, Nat))
  BY NatLessThanWellFounded, WFMin
<1>2. \A x, y \in S : y < x => <<y, x>> \in OpToRel(<, Nat)
  BY Zenon DEF OpToRel
<1> QED
  BY <1>1, <1>2, Zenon

LEMMA SetInduction ==
  ASSUME NEW S, 0 \in S, \A n \in Nat : n \in S => n + 1 \in S
  PROVE  Nat \subseteq S
<1> DEFINE T == Nat \ S
<1> SUFFICES ASSUME T # {} PROVE FALSE
  OBVIOUS
<1>1. PICK x \in T : \A y \in T : ~ y < x
  BY Least
<1> QED
  BY <1>1

(* The nearest rates among the first n. *)
Nearest(e, n) == e = [k \in 0 .. n |-> IF k = 0 THEN [above |-> 0, below |-> 0]
                                       ELSE Nearer(e[k - 1], Rates[k])]

LEMMA NearestExist ==
  ASSUME NEW N \in Nat
  PROVE  \E e : Nearest(e, N)
<1> DEFINE S == {n \in Nat : \E e : Nearest(e, n)}
<1>1. 0 \in S
  <2> DEFINE e == [k \in 0 .. 0 |-> [above |-> 0, below |-> 0]]
  <2>1. Nearest(e, 0)
    BY DEF Nearest
  <2> QED
    BY <2>1
<1>2. ASSUME NEW n \in Nat, n \in S
      PROVE  n + 1 \in S
  <2>1. PICK e : Nearest(e, n)
    BY <1>2
  <2> DEFINE g == [k \in 0 .. n + 1 |-> IF k = n + 1 THEN Nearer(e[n], Rates[n + 1])
                                        ELSE e[k]]
  <2>2. ASSUME NEW k \in 0 .. n + 1
        PROVE  g[k] = IF k = 0 THEN [above |-> 0, below |-> 0]
                      ELSE Nearer(g[k - 1], Rates[k])
    <3>1. CASE k = n + 1
      BY <3>1
    <3>2. CASE k \in 0 .. n
      <4>1. e[k] = IF k = 0 THEN [above |-> 0, below |-> 0]
                   ELSE Nearer(e[k - 1], Rates[k])
        BY <2>1, <3>2 DEF Nearest
      <4> QED
        BY <3>2, <4>1
    <3> QED
      BY <3>1, <3>2
  <2>3. Nearest(g, n + 1)
    BY <2>2, Zenon DEF Nearest
  <2> QED
    BY <2>3
<1>3. Nat \subseteq S
  <2> HIDE DEF S
  <2> QED BY <1>1, <1>2, SetInduction
<1> QED
  BY <1>3

LEMMA EitherIsNearest == Nearest(Either, Len(Rates))
<1>1. Len(Rates) \in Nat
  BY RatesAssumption
<1>2. \E e : Nearest(e, Len(Rates))
  BY <1>1, NearestExist
<1> QED
  BY <1>2, Zenon DEF Either, Nearest

(* A side is the nearest of the first n rates there, or 0 with none there. *)
IsNearest(side, n) ==
  /\ side \in [above : Nat, below : Nat]
  /\ IF side.above = 0 THEN \A j \in 1 .. n : Rates[j] <= rate
     ELSE /\ \E j \in 1 .. n : Rates[j] = side.above
          /\ side.above > rate
          /\ \A j \in 1 .. n : Rates[j] > rate => side.above <= Rates[j]
  /\ IF side.below = 0 THEN \A j \in 1 .. n : Rates[j] > rate
     ELSE /\ \E j \in 1 .. n : Rates[j] = side.below
          /\ side.below <= rate
          /\ \A j \in 1 .. n : Rates[j] <= rate => Rates[j] <= side.below

LEMMA NearerIsNearest ==
  ASSUME rate \in Nat, NEW n \in Nat, n + 1 \in 1 .. Len(Rates),
         NEW side, IsNearest(side, n)
  PROVE  IsNearest(Nearer(side, Rates[n + 1]), n + 1)
<1> DEFINE r == Rates[n + 1]
           next == Nearer(side, r)
<1>1. \A j \in 1 .. n + 1 : Rates[j] \in Nat \ {0}
  BY RatesAssumption
<1>2. r \in Nat \ {0} /\ side \in [above : Nat, below : Nat]
  BY <1>1 DEF IsNearest
<1>3. 1 .. n + 1 = (1 .. n) \cup {n + 1}
  OBVIOUS
<1>4. /\ next \in [above : Nat, below : Nat]
      /\ next.above = IF r > rate /\ (side.above = 0 \/ r < side.above) THEN r
                      ELSE side.above
      /\ next.below = IF ~(r > rate) /\ r > side.below THEN r ELSE side.below
  BY <1>2 DEF Nearer
<1>5. IF next.above = 0 THEN \A j \in 1 .. n + 1 : Rates[j] <= rate
      ELSE /\ \E j \in 1 .. n + 1 : Rates[j] = next.above
           /\ next.above > rate
           /\ \A j \in 1 .. n + 1 : Rates[j] > rate => next.above <= Rates[j]
  <2> HIDE DEF next
  <2> QED
    BY <1>1, <1>2, <1>3, <1>4 DEF IsNearest
<1>6. IF next.below = 0 THEN \A j \in 1 .. n + 1 : Rates[j] > rate
      ELSE /\ \E j \in 1 .. n + 1 : Rates[j] = next.below
           /\ next.below <= rate
           /\ \A j \in 1 .. n + 1 : Rates[j] <= rate => Rates[j] <= next.below
  <2> HIDE DEF next
  <2>1. IF side.below = 0 THEN \A j \in 1 .. n : Rates[j] > rate
        ELSE /\ \E j \in 1 .. n : Rates[j] = side.below
             /\ side.below <= rate
             /\ \A j \in 1 .. n : Rates[j] <= rate => Rates[j] <= side.below
    BY DEF IsNearest
  <2>2. CASE ~(r > rate) /\ r > side.below
    <3>1. next.below = r
      BY <1>4, <2>2
    <3> QED
      BY <1>1, <1>2, <1>3, <2>1, <2>2, <3>1
  <2>3. CASE ~(~(r > rate) /\ r > side.below)
    <3>1. next.below = side.below
      BY <1>4, <2>3
    <3> QED
      BY <1>1, <1>2, <1>3, <2>1, <2>3, <3>1
  <2> QED
    BY <2>2, <2>3
<1> QED
  BY <1>4, <1>5, <1>6 DEF IsNearest

LEMMA EitherNearest ==
  ASSUME rate \in Nat
  PROVE  IsNearest(Either[Len(Rates)], Len(Rates))
<1> DEFINE S == {n \in Nat : n <= Len(Rates) => IsNearest(Either[n], n)}
<1>1. Len(Rates) \in Nat
  BY RatesAssumption
<1>2. /\ Either[0] = [above |-> 0, below |-> 0]
      /\ \A k \in 1 .. Len(Rates) : Either[k] = Nearer(Either[k - 1], Rates[k])
  BY <1>1, EitherIsNearest DEF Nearest
<1>3. 0 \in S
  BY <1>2 DEF IsNearest
<1>4. ASSUME NEW n \in Nat, n \in S
      PROVE  n + 1 \in S
  <2> SUFFICES ASSUME n + 1 <= Len(Rates) PROVE IsNearest(Either[n + 1], n + 1)
    OBVIOUS
  <2>1. n + 1 \in 1 .. Len(Rates) /\ IsNearest(Either[n], n)
    BY <1>1, <1>4
  <2>2. Either[n + 1] = Nearer(Either[n], Rates[n + 1])
    BY <1>2, <2>1
  <2> QED
    BY <2>1, <2>2, NearerIsNearest
<1>5. Nat \subseteq S
  <2> HIDE DEF S
  <2> QED BY <1>3, <1>4, SetInduction
<1> QED
  BY <1>1, <1>5

(* The rate an engine of VSC's is opened at is the nearest it has. *)
LEMMA RenderedAtNearest ==
  ASSUME rate \in Nat \ {0}, backend = "vsc"
  PROVE  /\ \E k \in DOMAIN Rates : Rates[k] = RenderedAt
         /\ RenderedAt # rate => \A k \in DOMAIN Rates :
              /\ Rates[k] # rate
              /\ Rates[k] > rate => RenderedAt > rate /\ RenderedAt <= Rates[k]
              /\ Rates[k] < rate => RenderedAt > rate \/ RenderedAt >= Rates[k]
<1> DEFINE side == Either[Len(Rates)]
<1>1. /\ DOMAIN Rates = 1 .. Len(Rates) /\ Len(Rates) \in Nat \ {0}
      /\ \A k \in 1 .. Len(Rates) : Rates[k] \in Nat \ {0}
  BY RatesAssumption
<1>2. IsNearest(side, Len(Rates))
  BY EitherNearest
<1>3. CASE \E k \in DOMAIN Rates : Rates[k] = rate
  BY <1>3 DEF RenderedAt
<1>4. CASE ~(\E k \in DOMAIN Rates : Rates[k] = rate)
  <2>1. RenderedAt = IF side.above # 0 THEN side.above ELSE side.below
    BY <1>4 DEF RenderedAt
  <2> HIDE DEF side
  <2> QED
    BY <1>1, <1>2, <1>4, <2>1 DEF IsNearest
<1> QED
  BY <1>3, <1>4

(* What is held at each stage. *)
HeldAt ==
  IF backend = "scva"
  THEN CASE stage = "load" -> {"synth"}
         [] stage \in {"bind", "open"} -> {"synth", "image"}
         [] OTHER -> {}
  ELSE CASE stage = "vsc" -> {"synth"}
         [] stage = "load" -> {"synth", "vsc"}
         [] stage \in {"bind", "tones", "buffers"} -> {"synth", "vsc", "image"}
         [] stage = "configure" -> {"synth", "vsc", "image", "tones"}
         [] stage = "wrapper" -> {"synth", "vsc", "image", "buffers"}
         [] stage = "resampler" -> {"synth", "vsc", "image", "buffers", "wrapper"}
         [] stage = "open" -> {"synth", "vsc", "image", "buffers"}
                              \cup IF Resampled THEN {"wrapper", "resampler"} ELSE {}
         [] OTHER -> {}

(* Only VSC's engine has buffers of the backend's, and only an engine without
   the rate asked for is wrapped. *)
OpenInv ==
  /\ backend \in {"vsc", "scva"} /\ rate \in HostRates
  /\ engine_rate = RenderedAt
  /\ stage \in IF backend = "vsc" THEN Stages
               ELSE {"synth", "load", "bind", "open", "closed", "failed"}
  /\ stage \in {"wrapper", "resampler"} => Resampled
  /\ held = HeldAt
  /\ backend = "scva" => core = IF stage \in {"synth", "load", "bind"} THEN "unset"
                                ELSE IF stage = "open" THEN "fit" ELSE core

LEMMA OpenStarts == PathInit => OpenInv
  BY DEF PathInit, OpenInit, OpenInv, HeldAt, Stages

LEMMA OpenKeeps == OpenInv /\ [PathNext]_allVars => OpenInv'
<1> SUFFICES ASSUME OpenInv, [PathNext]_allVars PROVE OpenInv'
  OBVIOUS
<1>1. CASE Opening \/ Close
  <2>1. backend' = backend /\ rate' = rate /\ engine_rate' = engine_rate
    BY <1>1 DEF Opening, OpenVsc, Gets, Configure, VscOpenFails, BuffersFail, Wrap,
                WrapFails, OpenScva, ScvaOpenFails, Close
  <2>2. RenderedAt' = RenderedAt
    BY <2>1 DEF RenderedAt, Either, Nearer
  <2>3. Resampled' = Resampled
    BY <2>1 DEF Resampled
  <2>4. CoreStart = "fit"
    BY DEF CoreStart, SetRate, SetBlock
  <2>5. CASE OpenVsc
    BY <2>1, <2>2, <2>3, <2>5 DEF OpenInv, OpenVsc, Gets, HeldAt, Stages
  <2>6. CASE Configure
    BY <2>1, <2>2, <2>3, <2>6 DEF OpenInv, Configure, HeldAt, Stages
  <2>7. CASE VscOpenFails
    BY <2>1, <2>2, <2>3, <2>7 DEF OpenInv, VscOpenFails, HeldAt, Stages
  <2>8. CASE BuffersFail
    BY <2>1, <2>2, <2>3, <2>8 DEF OpenInv, BuffersFail, ClosedVsc, HeldAt, Stages
  <2>9. CASE Wrap
    BY <2>1, <2>2, <2>3, <2>9 DEF OpenInv, Wrap, Gets, HeldAt, Stages
  <2>10. CASE WrapFails
    BY <2>1, <2>2, <2>3, <2>10 DEF OpenInv, WrapFails, ClosedVsc, HeldAt, Stages
  <2>11. CASE OpenScva
    BY <2>1, <2>2, <2>3, <2>4, <2>11 DEF OpenInv, OpenScva, Gets, HeldAt, Stages
  <2>12. CASE ScvaOpenFails
    BY <2>1, <2>2, <2>3, <2>12 DEF OpenInv, ScvaOpenFails, HeldAt, Stages
  <2>13. CASE Close
    BY <2>1, <2>2, <2>3, <2>13 DEF OpenInv, Close, ClosedVsc, HeldAt, Stages
  <2> QED
    BY <1>1, <2>5, <2>6, <2>7, <2>8, <2>9, <2>10, <2>11, <2>12, <2>13 DEF Opening
<1>2. CASE UNCHANGED openVars
  <2>1. UNCHANGED <<backend, rate, engine_rate, stage, held, core>>
    BY <1>2 DEF openVars
  <2>2. RenderedAt' = RenderedAt
    BY <2>1 DEF RenderedAt, Either, Nearer
  <2>3. Resampled' = Resampled
    BY <2>1 DEF Resampled
  <2>4. HeldAt' = HeldAt
    BY <2>1, <2>3 DEF HeldAt
  <2> QED
    BY <2>1, <2>2, <2>3, <2>4 DEF OpenInv
<1> QED
  BY <1>1, <1>2 DEF PathNext, Opens, Closes, Call, SendMidi, RenderBlock, CopyOut,
     Process, Fills, Pulls, PullReturns, Held, FilterOne, allVars

THEOREM OpenInductive == PathSpec => []OpenInv
  BY OpenStarts, OpenKeeps, PTL DEF PathSpec

(* OpensFit: what opens plays at the rate it was asked for, or is resampled
   from the nearest rate above it, or else below, whatever rates an engine
   lists and in whatever order; SCCore.dll's rate is set about its block
   size. *)
THEOREM Fits == PathSpec => []OpensFit
<1>1. OpenInv => OpensFit
  <2> SUFFICES ASSUME OpenInv, stage = "open"
               PROVE  /\ backend = "scva" => core = "fit" /\ ~Resampled
                      /\ backend = "vsc" =>
                           /\ HasRate
                           /\ Resampled => \A k \in DOMAIN Rates :
                                /\ Rates[k] # rate
                                /\ Rates[k] > rate => engine_rate > rate
                                                      /\ engine_rate <= Rates[k]
                                /\ Rates[k] < rate => engine_rate > rate
                                                      \/ engine_rate >= Rates[k]
    BY DEF OpensFit
  <2>1. rate \in Nat \ {0} /\ engine_rate = RenderedAt
    BY RatesAssumption DEF OpenInv
  <2>2. CASE backend = "scva"
    BY <2>1, <2>2 DEF OpenInv, RenderedAt, Resampled
  <2>3. CASE backend = "vsc"
    BY <2>1, <2>3, RenderedAtNearest, Zenon DEF Resampled, HasRate
  <2> QED
    BY <2>2, <2>3 DEF OpenInv
<1> QED
  BY <1>1, OpenInductive, PTL

(* NothingLeftBehind: whichever step of opening fails, and after a close, all
   that was taken has been given back. *)
THEOREM NothingLeft == PathSpec => []NothingLeftBehind
<1>1. OpenInv => NothingLeftBehind
  BY DEF OpenInv, HeldAt, NothingLeftBehind
<1> QED
  BY <1>1, OpenInductive, PTL

=============================
