------------------------- MODULE SurfaceHandoffProofs -------------------------
(* Proofs about SurfaceHandoff, for every number of slots and of frames.    *)
EXTENDS SurfaceHandoff, TLAPS

\* The frames whose rendering is finished.
Rendered == f - Len(jobs) - (IF writing = 0 THEN 0 ELSE 1)

\* Types.
Jobs == [index : Slots, sync : Nat, new : BOOLEAN]
Types ==
  /\ f \in Nat /\ writing \in Nat /\ jobs \in Seq(Nat)
  /\ contents \in [Slots -> Nat]
  /\ produce \in Nat /\ consume \in Nat
  /\ ready_index \in Slots /\ index \in Slots
  /\ ready_sync \in Nat /\ sync \in Nat /\ last_present_sync \in Nat
  /\ new_frame \in BOOLEAN
  /\ reads \in Seq(Jobs)

\* The core's queue renders the frames one after the other: those in the queue
\* are the last ones that were submitted, in order, the one being rendered is
\* the one before them, and the produce timeline is where they left it.
InOrder ==
  /\ Rendered \in Nat
  /\ produce = 2 * Rendered
  /\ writing # 0 => writing = Rendered + 1
  /\ \A i \in DOMAIN jobs : jobs[i] = f - Len(jobs) + i

\* A slot holds a frame that belongs there and was rendered, and no earlier
\* one than the last that was.
LastOnes ==
  /\ \A g \in Nat : g > 0 /\ g <= Rendered => contents[SlotOf(g)] >= g
  /\ \A s \in Slots : contents[s] # 0 =>
                        contents[s] <= Rendered /\ SlotOf(contents[s]) = s

\* The values that reach the host are values of frames, and never fall; what
\* is submitted or released is no later than what was loaded last.
Values ==
  /\ ready_sync % 2 = 0 /\ sync % 2 = 0
  /\ sync <= ready_sync /\ ready_sync <= 2 * f
  /\ consume <= sync + 1
  /\ host_pc = "composite" => (new_frame <=> sync > last_present_sync)
  /\ \A i \in DOMAIN reads :
       /\ reads[i].sync % 2 = 0 /\ reads[i].sync <= sync
       /\ reads[i].new => reads[i].sync > 0

\* A composite that runs is the first of the queue, and its frame was rendered.
Running ==
  reading => reads # <<>> /\ (reads[1].new => produce >= reads[1].sync)

\* The host's queue signals in order, and a value again only for a frame whose
\* composite failed.
InSequence ==
  /\ \A i, k \in DOMAIN reads : i < k /\ reads[i].new /\ reads[k].new =>
       \/ reads[i].sync < reads[k].sync
       \/ reads[i].sync = reads[k].sync /\ reads[k].sync \in unrecorded
  /\ \A i \in DOMAIN reads : reads[i].new =>
       \/ reads[i].sync >= consume
       \/ reads[i].sync + 1 = consume /\ reads[i].sync \in unrecorded

\* The frame loaded last was submitted before only if it is on record, its
\* composite is the one waited for, or that one failed.
OnRecord ==
  \/ consume = sync + 1
  \/ \E i \in DOMAIN reads : reads[i].new /\ reads[i].sync = sync
  => \/ host_pc = "wait" /\ new_frame
     \/ last_present_sync >= sync
     \/ sync \in unrecorded

\* A frame that was not forced into its slot waited for its release.
Waited ==
  HonoursConsume =>
    \A h \in Nat : h > SlotCount /\ h <= f /\ h \notin forced
                     => consume >= 2 * (h - SlotCount) + 1

\* The inductive invariant.
HostInv == Values /\ Running /\ InSequence /\ OnRecord /\ Waited
IInv == Types /\ InOrder /\ LastOnes /\ HostInv

-----------------------------------------------------------------------------
\* Division with remainder.
LEMMA Division ==
  ASSUME NEW N \in Nat, N >= 2, NEW g \in Nat
  PROVE  \E q \in Nat, r \in 0..(N - 1) : g = N * q + r /\ r = g % N
  OBVIOUS

\* A frame's slot as the rest of a division.
LEMMA SlotIsRest ==
  ASSUME NEW g \in Nat
  PROVE  \E q \in Nat : g = SlotCount * q + SlotOf(g)
<1>1. \E q \in Nat, r \in 0..(SlotCount - 1) :
        g = SlotCount * q + r /\ r = g % SlotCount
  BY SlotsAssumption, Division
<1> QED BY <1>1 DEF SlotOf

\* Two frames less than SlotCount apart are in different slots.
LEMMA SlotsDiffer ==
  ASSUME NEW g \in Nat, NEW h \in Nat, g < h, h < g + SlotCount
  PROVE  SlotOf(g) # SlotOf(h)
<1>1. SlotCount \in Nat /\ SlotOf(g) \in Nat
  BY SlotsAssumption DEF SlotOf
<1>2. SUFFICES ASSUME SlotOf(g) = SlotOf(h) PROVE FALSE
  OBVIOUS
<1>3. PICK a \in Nat : g = SlotCount * a + SlotOf(g)
  BY SlotIsRest
<1>4. PICK b \in Nat : h = SlotCount * b + SlotOf(g)
  BY <1>2, SlotIsRest
<1>5. h - g = SlotCount * (b - a)
  BY <1>1, <1>3, <1>4
<1>6. CASE b > a
  <2>1. SlotCount * (b - a) >= SlotCount
    BY <1>1, <1>6
  <2> QED BY <1>1, <1>5, <2>1
<1>7. CASE b <= a
  <2>1. SlotCount * (b - a) <= 0
    BY <1>1, <1>7
  <2> QED BY <1>1, <1>5, <2>1
<1> QED BY <1>6, <1>7

LEMMA SlotType == \A g \in Nat : SlotOf(g) \in Slots
  BY SlotsAssumption DEF SlotOf, Slots

\* Two frames of one slot are SlotCount apart.
LEMMA SlotsApart ==
  ASSUME NEW g \in Nat, NEW h \in Nat, g < h, SlotOf(g) = SlotOf(h)
  PROVE  h >= g + SlotCount
<1>1. SlotCount \in Nat
  BY SlotsAssumption
<1> QED BY <1>1, SlotsDiffer

\* A composite in the queue has a value and knows whether it is new.
LEMMA ReadsType ==
  ASSUME Types
  PROVE  /\ DOMAIN reads = 1..Len(reads) /\ Len(reads) \in Nat
         /\ \A i \in DOMAIN reads : reads[i].sync \in Nat /\ reads[i].new \in BOOLEAN
<1>1. \A i \in DOMAIN reads : reads[i] \in Jobs
  BY DEF Types
<1>2. \A j \in Jobs : j.sync \in Nat /\ j.new \in BOOLEAN
  BY DEF Jobs
<1>3. DOMAIN reads = 1..Len(reads) /\ Len(reads) \in Nat
  BY DEF Types
<1> QED BY <1>1, <1>2, <1>3

LEMMA InitInv == Init => IInv
<1> SUFFICES ASSUME Init PROVE IInv
  OBVIOUS
<1>1. Types
  <2>1. 0 \in Slots /\ contents \in [Slots -> Nat]
    BY SlotsAssumption DEF Init, Slots
  <2>2. new_frame \in BOOLEAN
    BY DEF Init
  <2>3. jobs \in Seq(Nat) /\ reads \in Seq(Jobs)
    BY DEF Init
  <2> QED BY <2>1, <2>2, <2>3 DEF Init, Types
<1>2. Len(jobs) = 0 /\ Rendered = 0
  <2>1. Len(jobs) = 0 /\ f = 0 /\ writing = 0
    BY DEF Init
  <2> QED BY <2>1 DEF Rendered
<1>3. InOrder
  BY <1>2 DEF Init, InOrder
<1>4. LastOnes
  BY <1>2 DEF LastOnes, Init
<1>5. DOMAIN reads = {}
  BY DEF Init
<1>6. Values /\ Running /\ InSequence /\ OnRecord
  BY <1>5 DEF Init, Values, Running, InSequence, OnRecord
<1>7. Waited
  BY SlotsAssumption DEF Init, Waited
<1> QED
  BY <1>1, <1>3, <1>4, <1>6, <1>7 DEF IInv, HostInv

-----------------------------------------------------------------------------
\* The core's thread and queue touch the frames' order and the slots.

\* What both ways to render do to all but the wait.
LEMMA SubmitFrameStep ==
  ASSUME IInv, SubmitFrame
  PROVE  /\ Types' /\ InOrder' /\ LastOnes' /\ Values' /\ Running'
         /\ InSequence' /\ OnRecord'
         /\ f' = f + 1 /\ consume' = consume
<1> USE DEF IInv, HostInv
<1>1. /\ f' = f + 1 /\ jobs' = Append(jobs, f + 1) /\ f + 1 \in Nat
      /\ Len(jobs') = Len(jobs) + 1
      /\ UNCHANGED <<writing, contents, produce, ready_index, ready_sync, host_pc,
                     index, sync, new_frame, last_present_sync, consume, reads,
                     reading, unrecorded>>
  BY DEF SubmitFrame, Types, gpu_vars, ring_vars, host_vars, queue_vars,
         failure_vars
<1>2. Types'
  BY <1>1 DEF Types
<1>3. Rendered' = Rendered
  BY <1>1 DEF Types, Rendered
<1>4. InOrder'
  <2>1. \A i \in DOMAIN jobs' : jobs'[i] = f' - Len(jobs') + i
    BY <1>1 DEF Types, InOrder
  <2> QED BY <1>1, <1>3, <2>1 DEF InOrder
<1>5. LastOnes'
  BY <1>1, <1>3 DEF LastOnes
<1>6. Values'
  <2>1. ready_sync' <= 2 * f'
    BY <1>1 DEF Types, Values
  <2> QED BY <1>1, <2>1 DEF Values
<1>7. Running' /\ InSequence' /\ OnRecord'
  BY <1>1 DEF Running, InSequence, OnRecord
<1> QED BY <1>1, <1>2, <1>4, <1>5, <1>6, <1>7

LEMMA RenderStep ==
  ASSUME IInv, Render
  PROVE  IInv'
<1>1. SubmitFrame /\ forced' = forced
  BY DEF Render
<1>2. Waited'
  <2>1. f' = f + 1 /\ consume' = consume /\ f \in Nat /\ SlotCount \in Nat
    BY <1>1, SubmitFrameStep, SlotsAssumption DEF IInv, Types
  <2>2. ASSUME HonoursConsume, NEW h \in Nat, h > SlotCount, h <= f + 1,
               h \notin forced
        PROVE  consume >= 2 * (h - SlotCount) + 1
    <3>1. CASE h = f + 1
      BY <2>1, <2>2, <3>1 DEF Render, ReuseValue
    <3>2. CASE h <= f
      BY <2>2, <3>2 DEF IInv, HostInv, Waited
    <3> QED BY <2>1, <2>2, <3>1, <3>2
  <2> QED BY <1>1, <2>1, <2>2 DEF Waited
<1> QED BY <1>1, <1>2, SubmitFrameStep DEF IInv, HostInv

LEMMA GiveUpStep ==
  ASSUME IInv, GiveUp
  PROVE  IInv'
<1>1. SubmitFrame /\ forced' = forced \union {f + 1}
  BY DEF GiveUp
<1>2. Waited'
  BY <1>1, SubmitFrameStep DEF IInv, HostInv, Waited, Types
<1> QED BY <1>1, <1>2, SubmitFrameStep DEF IInv, HostInv

LEMMA BeginWriteStep ==
  ASSUME IInv, BeginWrite
  PROVE  IInv'
<1> USE DEF IInv
<1>1. /\ jobs # <<>> /\ writing = 0
      /\ writing' = Head(jobs) /\ jobs' = Tail(jobs)
      /\ UNCHANGED <<f, contents, produce, ready_index, ready_sync, host_pc,
                     index, sync, new_frame, last_present_sync, consume, reads,
                     reading, unrecorded, forced>>
  BY DEF BeginWrite, ring_vars, host_vars, queue_vars, failure_vars
<1>2. /\ Len(jobs) \in Nat /\ Len(jobs) > 0 /\ Head(jobs) = jobs[1]
      /\ Tail(jobs) \in Seq(Nat) /\ Len(Tail(jobs)) = Len(jobs) - 1
      /\ \A i \in 1..(Len(jobs) - 1) : Tail(jobs)[i] = jobs[i + 1]
      /\ DOMAIN jobs = 1..Len(jobs)
      /\ DOMAIN Tail(jobs) = 1..(Len(jobs) - 1)
  BY <1>1 DEF Types
<1>3. Head(jobs) = f - Len(jobs) + 1
  BY <1>2 DEF InOrder
<1>4. Rendered = f - Len(jobs) /\ writing' = Rendered + 1 /\ writing' \in Nat /\ writing' # 0
  BY <1>1, <1>2, <1>3 DEF Rendered, InOrder, Types
<1>5. Rendered' = Rendered
  BY <1>1, <1>2, <1>4 DEF Rendered, Types
<1>6. Types'
  BY <1>1, <1>2, <1>4 DEF Types
<1>7. InOrder'
  <2>1. ASSUME NEW i \in DOMAIN jobs'
        PROVE  jobs'[i] = f' - Len(jobs') + i
    <3>1. f \in Nat /\ i \in 1..(Len(jobs) - 1) /\ i + 1 \in DOMAIN jobs
      BY <1>1, <1>2, <2>1 DEF Types
    <3>2. jobs[i + 1] = f - Len(jobs) + (i + 1)
      BY <3>1 DEF InOrder
    <3> HIDE DEF IInv
    <3> QED BY <1>1, <1>2, <3>1, <3>2
  <2> QED BY <1>1, <1>4, <1>5, <2>1 DEF InOrder
<1>8. LastOnes'
  BY <1>1, <1>5 DEF LastOnes
<1>9. HostInv'
  BY <1>1 DEF HostInv, Values, Running, InSequence, OnRecord, Waited
<1> QED BY <1>6, <1>7, <1>8, <1>9

LEMMA EndWriteStep ==
  ASSUME IInv, EndWrite
  PROVE  IInv'
<1> USE DEF IInv
<1>1. /\ writing # 0 /\ writing' = 0 /\ produce' = 2 * writing
      /\ contents' = [contents EXCEPT ![SlotOf(writing)] = writing]
      /\ UNCHANGED <<f, jobs, ready_index, ready_sync, host_pc,
                     index, sync, new_frame, last_present_sync, consume, reads,
                     reading, unrecorded, forced>>
  BY DEF EndWrite, core_vars, ring_vars, host_vars, queue_vars, failure_vars
<1>2. Len(jobs) \in Nat /\ writing = Rendered + 1 /\ Rendered \in Nat
  BY <1>1 DEF InOrder, Types
<1>3. Rendered' = Rendered + 1
  BY <1>1, <1>2 DEF Rendered, Types
<1>4. SlotOf(writing) \in Slots
  BY SlotType DEF Types
<1>5. Types'
  <2>1. contents' \in [Slots -> Nat]
    BY <1>1 DEF Types
  <2>2. produce' \in Nat
    BY <1>1 DEF Types
  <2> QED BY <1>1, <2>1, <2>2 DEF Types
<1>6. InOrder'
  BY <1>1, <1>2, <1>3 DEF InOrder
<1>7. LastOnes'
  <2>1. ASSUME NEW g \in Nat, g > 0, g <= Rendered + 1
        PROVE  contents'[SlotOf(g)] >= g
    <3>1. SlotOf(g) \in Slots
      BY SlotType
    <3>2. CASE SlotOf(g) = SlotOf(writing)
      BY <1>1, <1>2, <2>1, <3>1, <3>2 DEF Types
    <3>3. CASE SlotOf(g) # SlotOf(writing)
      <4>1. g <= Rendered
        BY <1>2, <2>1, <3>3
      <4> QED BY <1>1, <2>1, <3>1, <3>3, <4>1 DEF Types, LastOnes
    <3> QED BY <3>2, <3>3
  <2>2. ASSUME NEW s \in Slots, contents'[s] # 0
        PROVE  contents'[s] <= Rendered + 1 /\ SlotOf(contents'[s]) = s
    <3>1. CASE s = SlotOf(writing)
      BY <1>1, <1>2, <3>1 DEF Types
    <3>2. CASE s # SlotOf(writing)
      <4>1. contents'[s] = contents[s] /\ contents[s] \in Nat
        BY <1>1, <3>2 DEF Types
      <4> QED BY <1>2, <2>2, <4>1 DEF LastOnes
    <3> QED BY <3>1, <3>2
  <2> QED BY <1>3, <2>1, <2>2 DEF LastOnes
<1>8. Running'
  <2>1. produce' >= produce
    BY <1>1, <1>2 DEF InOrder
  <2>2. ASSUME reading PROVE reads[1].sync \in Nat
    <3>1. reads # <<>>
      BY <2>2 DEF HostInv, Running
    <3>2. 1 \in DOMAIN reads
      BY <3>1 DEF Types
    <3> QED BY <3>2, ReadsType
  <2> QED BY <1>1, <2>1, <2>2 DEF HostInv, Running, Types
<1>9. Values' /\ InSequence' /\ OnRecord' /\ Waited'
  BY <1>1 DEF HostInv, Values, InSequence, OnRecord, Waited
<1> QED BY <1>5, <1>6, <1>7, <1>8, <1>9 DEF HostInv

-----------------------------------------------------------------------------
\* The other steps leave the frames' order and the slots alone.
LEMMA OtherStep ==
  ASSUME IInv, UNCHANGED <<f, jobs, writing, contents, produce>>,
         Types', HostInv'
  PROVE  IInv'
  BY DEF IInv, InOrder, LastOnes, Rendered

\* A value of frames that is loaded is not below the last one, so only the
\* same frame can have been submitted before.
LEMMA LoadSyncStep ==
  ASSUME IInv, LoadSync
  PROVE  IInv'
<1> USE DEF IInv, HostInv
<1>1. /\ host_pc = "sync" /\ host_pc' = "composite"
      /\ sync' = ready_sync /\ new_frame' = (ready_sync > last_present_sync)
      /\ UNCHANGED <<f, jobs, writing, contents, produce, ready_index, ready_sync,
                     index, last_present_sync, consume, reads, reading,
                     unrecorded, forced>>
  BY DEF LoadSync, IsNew, core_vars, gpu_vars, ring_vars, queue_vars,
         failure_vars
<1>2. Types'
  BY <1>1 DEF Types
<1>3. \A i \in DOMAIN reads : reads[i].sync \in Nat
  BY ReadsType
<1>v. /\ sync \in Nat /\ ready_sync \in Nat /\ consume \in Nat
      /\ sync <= ready_sync /\ consume <= sync + 1
      /\ \A i \in DOMAIN reads : reads[i].sync <= sync
  BY DEF Types, Values
<1>4. Values'
  <2>1. consume <= ready_sync + 1
    BY <1>v
  <2>2. \A i \in DOMAIN reads : reads[i].sync <= ready_sync
    BY <1>3, <1>v
  <2>3. new_frame' <=> sync' > last_present_sync'
    BY <1>1 DEF Types
  <2>4. ready_sync % 2 = 0 /\ ready_sync <= 2 * f
    BY DEF Values
  <2> QED BY <1>1, <1>v, <2>1, <2>2, <2>3, <2>4 DEF Values
<1>5. Running' /\ InSequence' /\ Waited'
  BY <1>1 DEF Running, InSequence, Waited
<1>6. OnRecord'
  <2>1. CASE ready_sync = sync
    BY <1>1, <2>1 DEF OnRecord
  <2>2. CASE ready_sync > sync
    <3>1. consume # ready_sync + 1
      BY <1>v, <2>2
    <3>2. \A i \in DOMAIN reads : reads[i].sync # ready_sync
      BY <1>3, <1>v, <2>2
    <3> QED BY <1>1, <3>1, <3>2 DEF OnRecord
  <2>3. ready_sync = sync \/ ready_sync > sync
    BY <1>v
  <2> QED BY <2>1, <2>2, <2>3
<1> QED BY <1>1, <1>2, <1>4, <1>5, <1>6, OtherStep

\* A composite joins the queue: the value it will signal is above the others,
\* or it is that of a composite that failed.
LEMMA SubmitStep ==
  ASSUME IInv, Submit
  PROVE  IInv'
<1> USE DEF IInv, HostInv
<1>1. /\ host_pc = "composite" /\ host_pc' = "wait"
      /\ UNCHANGED <<f, jobs, writing, contents, produce, ready_index, ready_sync,
                     index, sync, new_frame, last_present_sync, consume, reading,
                     unrecorded, forced>>
  BY DEF Submit, core_vars, gpu_vars, ring_vars, failure_vars
<1>2. PICK slot \in [DOMAIN reads -> Slots] :
        reads' = Append([i \in DOMAIN reads |->
                           [reads[i] EXCEPT !.index = slot[i]]], Composite)
  BY DEF Submit
<1> DEFINE n == Len(reads)
           old == [i \in DOMAIN reads |-> [reads[i] EXCEPT !.index = slot[i]]]
<1>3. n \in Nat /\ DOMAIN reads = 1..n /\ \A i \in 1..n : reads[i] \in Jobs
  BY DEF Types
<1>4. Composite \in Jobs /\ Composite.sync = sync /\ Composite.new = new_frame
  BY DEF Types, Composite, Jobs
<1>5. \A i \in 1..n : /\ old[i] \in Jobs
                       /\ old[i].sync = reads[i].sync /\ old[i].new = reads[i].new
  BY <1>3 DEF Jobs
<1>6. old \in Seq(Jobs) /\ Len(old) = n
  BY <1>3, <1>5
<1>7. /\ reads' \in Seq(Jobs) /\ DOMAIN reads' = 1..(n + 1)
      /\ \A i \in 1..n : reads'[i] = old[i]
      /\ reads'[n + 1] = Composite
  BY <1>2, <1>3, <1>4, <1>6
<1> HIDE DEF old, n
<1>8. /\ \A i \in 1..n : reads'[i].sync = reads[i].sync /\ reads'[i].new = reads[i].new
      /\ reads'[n + 1].sync = sync /\ reads'[n + 1].new = new_frame
  BY <1>4, <1>5, <1>7
<1>9. \A i \in 1..n : reads[i].sync \in Nat
  BY <1>3 DEF Jobs
<1>v. /\ sync \in Nat /\ consume \in Nat /\ last_present_sync \in Nat
      /\ consume <= sync + 1 /\ sync % 2 = 0
      /\ new_frame <=> sync > last_present_sync
  BY <1>1 DEF Types, Values
<1>w. \A i \in 1..n : reads[i].sync <= sync
  BY <1>3 DEF Values
<1>10. Types'
  BY <1>1, <1>7 DEF Types
<1>11. Values'
  <2>1. ASSUME NEW i \in DOMAIN reads'
        PROVE  /\ reads'[i].sync % 2 = 0 /\ reads'[i].sync <= sync
               /\ reads'[i].new => reads'[i].sync > 0
    <3>1. CASE i \in 1..n
      BY <1>3, <1>8, <3>1 DEF Values
    <3>2. CASE i = n + 1
      BY <1>v, <1>8, <3>2
    <3> QED BY <1>3, <1>7, <3>1, <3>2
  <2> QED BY <1>1, <2>1 DEF Values
<1>12. Running'
  <2>1. ASSUME reading
        PROVE  reads' # <<>> /\ 1 \in 1..n
    BY <1>3, <1>7, <2>1 DEF Running, n, Types
  <2> QED BY <1>1, <1>8, <2>1 DEF Running
<1>13. ASSUME new_frame,
              consume = sync + 1 \/ \E i \in 1..n : reads[i].new /\ reads[i].sync = sync
       PROVE  sync \in unrecorded
  <2>1. ~(last_present_sync >= sync)
    BY <1>v, <1>13
  <2> QED BY <1>1, <1>3, <1>13, <2>1 DEF OnRecord
<1>14. InSequence'
  <2>1. ASSUME NEW i \in DOMAIN reads', NEW k \in DOMAIN reads',
               i < k, reads'[i].new, reads'[k].new
        PROVE  \/ reads'[i].sync < reads'[k].sync
               \/ reads'[i].sync = reads'[k].sync /\ reads'[k].sync \in unrecorded
    <3>1. i \in 1..n
      BY <1>3, <1>7, <2>1
    <3>2. CASE k \in 1..n
      BY <1>1, <1>3, <1>8, <2>1, <3>1, <3>2 DEF InSequence
    <3>3. CASE k = n + 1
      <4>1. reads[i].sync \in Nat /\ reads[i].sync <= sync /\ reads[i].new
        BY <1>8, <1>9, <1>w, <2>1, <3>1
      <4>2. reads[i].sync = sync => sync \in unrecorded
        BY <1>8, <1>13, <2>1, <3>1, <3>3, <4>1
      <4> QED BY <1>v, <1>8, <3>1, <3>3, <4>1, <4>2
    <3> QED BY <1>3, <1>7, <3>2, <3>3
  <2>2. ASSUME NEW i \in DOMAIN reads', reads'[i].new
        PROVE  \/ reads'[i].sync >= consume
               \/ reads'[i].sync + 1 = consume /\ reads'[i].sync \in unrecorded
    <3>1. CASE i \in 1..n
      BY <1>1, <1>3, <1>8, <2>2, <3>1 DEF InSequence
    <3>2. CASE i = n + 1
      BY <1>v, <1>8, <1>13, <2>2, <3>2
    <3> QED BY <1>3, <1>7, <3>1, <3>2
  <2> QED BY <1>1, <2>1, <2>2 DEF InSequence
<1>15. OnRecord'
  <2>1. CASE new_frame
    BY <1>1, <2>1 DEF OnRecord
  <2>2. CASE ~new_frame
    BY <1>1, <1>v, <2>2 DEF OnRecord
  <2> QED BY <2>1, <2>2
<1>16. Waited'
  BY <1>1 DEF Waited
<1> QED BY <1>1, <1>10, <1>11, <1>12, <1>14, <1>15, <1>16, OtherStep

\* A composite ends: the consume timeline does not fall, and stands below or at
\* what the next will signal.
LEMMA EndReadStep ==
  ASSUME IInv, EndRead
  PROVE  IInv'
<1> USE DEF IInv, HostInv
<1>1. /\ reading /\ ~reading' /\ reads' = Tail(reads)
      /\ consume' = (IF reads[1].new THEN reads[1].sync + 1 ELSE consume)
      /\ UNCHANGED <<f, jobs, writing, contents, produce, ready_index, ready_sync,
                     host_pc, index, sync, new_frame, last_present_sync,
                     unrecorded, forced>>
  BY DEF EndRead, Released, core_vars, gpu_vars, ring_vars, host_vars,
         failure_vars
<1> DEFINE n == Len(reads)
<1>2. /\ n \in Nat /\ n > 0 /\ DOMAIN reads = 1..n
      /\ \A i \in 1..n : reads[i] \in Jobs
      /\ reads' \in Seq(Jobs) /\ DOMAIN reads' = 1..(n - 1)
      /\ \A i \in 1..(n - 1) : reads'[i] = reads[i + 1]
  BY <1>1 DEF Types, Running
<1> HIDE DEF n
<1>3. \A i \in 1..n : reads[i].sync \in Nat /\ reads[i].new \in BOOLEAN
  BY <1>2 DEF Jobs
<1>4. 1 \in 1..n /\ \A i \in 1..(n - 1) : i + 1 \in 1..n /\ 1 < i + 1
  BY <1>2
<1>5. consume' \in Nat /\ consume' >= consume /\ consume' <= sync + 1
  <2>1. sync \in Nat /\ consume \in Nat /\ consume <= sync + 1
    BY DEF Types, Values
  <2>2. reads[1].sync \in Nat /\ reads[1].sync <= sync
    BY <1>2, <1>3, <1>4 DEF Values
  <2>3. reads[1].new => reads[1].sync + 1 >= consume
    <3>1. /\ InSequence
          /\ 1 \in DOMAIN reads
      BY <1>2, <1>4
    <3> HIDE DEF IInv, HostInv
    <3>2. reads[1].new => \/ reads[1].sync >= consume
                          \/ reads[1].sync + 1 = consume
      BY <3>1 DEF InSequence
    <3> QED BY <2>1, <2>2, <3>2
  <2> QED BY <1>1, <2>1, <2>2, <2>3
<1>6. Types'
  BY <1>1, <1>2, <1>5 DEF Types
<1>7. Values'
  BY <1>1, <1>2, <1>4, <1>5 DEF Values
<1>8. Running'
  BY <1>1 DEF Running
<1>9. InSequence'
  <2>1. ASSUME NEW i \in DOMAIN reads', NEW k \in DOMAIN reads',
               i < k, reads'[i].new, reads'[k].new
        PROVE  \/ reads'[i].sync < reads'[k].sync
               \/ reads'[i].sync = reads'[k].sync /\ reads'[k].sync \in unrecorded
    <3>1. i + 1 \in DOMAIN reads /\ k + 1 \in DOMAIN reads /\ i + 1 < k + 1
      BY <1>2, <1>4, <2>1
    <3> QED BY <1>1, <1>2, <2>1, <3>1 DEF InSequence
  <2>2. ASSUME NEW i \in DOMAIN reads', reads'[i].new
        PROVE  \/ reads'[i].sync >= consume'
               \/ reads'[i].sync + 1 = consume' /\ reads'[i].sync \in unrecorded
    <3>1. i + 1 \in 1..n /\ reads'[i] = reads[i + 1] /\ 1 < i + 1
      BY <1>2, <1>4, <2>2
    <3>2. CASE reads[1].new
      <4>1. \/ reads[1].sync < reads[i + 1].sync
            \/ reads[1].sync = reads[i + 1].sync /\ reads[i + 1].sync \in unrecorded
        BY <1>2, <1>4, <2>2, <3>1, <3>2 DEF InSequence
      <4> QED BY <1>1, <1>3, <1>4, <3>1, <3>2, <4>1
    <3>3. CASE ~reads[1].new
      BY <1>1, <1>2, <2>2, <3>1, <3>3 DEF InSequence
    <3> QED BY <3>2, <3>3
  <2> QED BY <1>1, <2>1, <2>2 DEF InSequence
<1>10. OnRecord'
  <2>1. ASSUME consume' = sync + 1 \/ \E i \in DOMAIN reads' :
                                         reads'[i].new /\ reads'[i].sync = sync
        PROVE  consume = sync + 1 \/ \E i \in DOMAIN reads :
                                        reads[i].new /\ reads[i].sync = sync
    <3>1. CASE consume' = sync + 1
      <4>1. sync \in Nat /\ reads[1].sync \in Nat /\ 1 \in DOMAIN reads
        BY <1>2, <1>3, <1>4 DEF Types
      <4> HIDE DEF IInv, HostInv
      <4>2. reads[1].new => reads[1].sync = sync
        BY <1>1, <3>1, <4>1
      <4> QED BY <1>1, <3>1, <4>1, <4>2
    <3>2. ASSUME NEW i \in DOMAIN reads', reads'[i].new, reads'[i].sync = sync
          PROVE  \E k \in DOMAIN reads : reads[k].new /\ reads[k].sync = sync
      BY <1>2, <1>4, <3>2
    <3> QED BY <2>1, <3>1, <3>2
  <2> QED BY <1>1, <2>1 DEF OnRecord
<1>11. Waited'
  <2>1. consume \in Nat /\ SlotCount \in Nat
    BY SlotsAssumption DEF Types
  <2>2. ASSUME HonoursConsume, NEW h \in Nat,
               h > SlotCount /\ h <= f /\ h \notin forced
        PROVE  consume' >= 2 * (h - SlotCount) + 1
    <3>1. consume >= 2 * (h - SlotCount) + 1
      BY <2>2 DEF Waited
    <3> HIDE DEF IInv, HostInv
    <3> QED BY <1>5, <2>1, <3>1
  <2>3. f' = f /\ forced' = forced
    BY <1>1
  <2> QED BY <2>2, <2>3 DEF Waited
<1> QED BY <1>1, <1>6, <1>7, <1>8, <1>9, <1>10, <1>11, OtherStep

LEMMA StepInv ==
  ASSUME IInv, [Next]_vars
  PROVE  IInv'
<1> USE DEF IInv
<1> DEFINE Kept == UNCHANGED <<f, jobs, writing, contents, produce>>
<1>1. CASE Render
  BY <1>1, RenderStep
<1>2. CASE GiveUp
  BY <1>2, GiveUpStep
<1>3. CASE StoreIndex
  <2>1. SlotOf(f) \in Slots
    BY SlotType DEF Types
  <2>2. Types' /\ Kept
    BY <1>3, <2>1 DEF StoreIndex, gpu_vars, host_vars, queue_vars, Types
  <2>3. HostInv'
    BY <1>3 DEF StoreIndex, gpu_vars, host_vars, queue_vars, failure_vars,
      HostInv, Values, Running, InSequence, OnRecord, Waited
  <2> QED BY <2>2, <2>3, OtherStep
<1>4. CASE StoreSync
  <2>1. SignalValue(f) = 2 * f /\ 2 * f \in Nat /\ (2 * f) % 2 = 0
    BY DEF SignalValue, Types
  <2>2. Types' /\ Kept
    BY <1>4, <2>1 DEF StoreSync, gpu_vars, host_vars, queue_vars, Types
  <2>3. Values'
    <3>1. sync <= 2 * f
      BY <2>1 DEF HostInv, Values, Types
    <3>2. /\ ready_sync' = 2 * f
          /\ UNCHANGED <<f, sync, consume, host_pc, new_frame,
                         last_present_sync, reads>>
      BY <1>4, <2>1 DEF StoreSync, host_vars, queue_vars
    <3> QED BY <2>1, <3>1, <3>2 DEF HostInv, Values, Types
  <2>4. Running' /\ InSequence' /\ OnRecord' /\ Waited'
    BY <1>4 DEF StoreSync, gpu_vars, host_vars, queue_vars, failure_vars,
      HostInv, Running, InSequence, OnRecord, Waited
  <2> QED BY <2>2, <2>3, <2>4, OtherStep DEF HostInv
<1>5. CASE StoreFlag
  <2>1. Types' /\ Kept
    BY <1>5 DEF StoreFlag, gpu_vars, host_vars, queue_vars, Types
  <2>2. HostInv'
    BY <1>5 DEF StoreFlag, gpu_vars, host_vars, queue_vars, failure_vars,
      HostInv, Values, Running, InSequence, OnRecord, Waited
  <2> QED BY <2>1, <2>2, OtherStep
<1>6. CASE BeginWrite
  BY <1>6, BeginWriteStep
<1>7. CASE EndWrite
  BY <1>7, EndWriteStep
<1>8. CASE LoadFlag \/ LoadIndex \/ Repeat \/ TogglePause
  <2>0. new_frame' \in BOOLEAN
    <3>1. CASE Repeat
      BY <3>1 DEF Repeat, IsNew, Types
    <3>2. CASE LoadFlag \/ LoadIndex \/ TogglePause
      BY <3>2 DEF LoadFlag, LoadIndex, TogglePause, Types
    <3> QED BY <1>8, <3>1, <3>2
  <2>1. Types' /\ Kept
    BY <1>8, <2>0
    DEF LoadFlag, LoadIndex, Repeat, TogglePause, core_vars, gpu_vars,
        ring_vars, queue_vars, Types
  <2>2. Values'
    BY <1>8
    DEF LoadFlag, LoadIndex, Repeat, TogglePause, IsNew, core_vars, ring_vars,
        queue_vars, HostInv, Values
  <2>3. Running' /\ InSequence' /\ Waited'
    BY <1>8
    DEF LoadFlag, LoadIndex, Repeat, TogglePause, core_vars, gpu_vars,
        queue_vars, failure_vars, HostInv, Running, InSequence, Waited
  <2>4. OnRecord'
    BY <1>8
    DEF LoadFlag, LoadIndex, Repeat, TogglePause, queue_vars, failure_vars,
        HostInv, OnRecord
  <2> QED BY <2>1, <2>2, <2>3, <2>4, OtherStep DEF HostInv
<1>9. CASE LoadSync
  BY <1>9, LoadSyncStep
<1>10. CASE Submit
  BY <1>10, SubmitStep
<1>11. CASE Presented \/ CompositeFails
  <2>1. Types' /\ Kept
    BY <1>11
    DEF Presented, CompositeFails, core_vars, gpu_vars, ring_vars, queue_vars,
        Types
  <2>2. Values' /\ Running' /\ Waited'
    BY <1>11
    DEF Presented, CompositeFails, core_vars, gpu_vars, ring_vars, queue_vars,
        HostInv, Values, Running, Waited
  <2>3. InSequence'
    BY <1>11
    DEF Presented, CompositeFails, queue_vars, failure_vars, HostInv,
        InSequence
  <2>4. OnRecord'
    BY <1>11
    DEF Presented, CompositeFails, queue_vars, failure_vars, HostInv,
        OnRecord, Types
  <2> QED BY <2>1, <2>2, <2>3, <2>4, OtherStep DEF HostInv
<1>12. CASE BeginRead
  <2>1. Types' /\ Kept
    BY <1>12 DEF BeginRead, core_vars, gpu_vars, ring_vars, host_vars, Types
  <2>2. HostInv'
    BY <1>12
    DEF BeginRead, core_vars, gpu_vars, ring_vars, host_vars, failure_vars,
        HostInv, Values, Running, InSequence, OnRecord, Waited
  <2> QED BY <2>1, <2>2, OtherStep
<1>13. CASE EndRead
  BY <1>13, EndReadStep
<1>14. CASE UNCHANGED vars
  <2>1. Types' /\ Kept
    BY <1>14
    DEF vars, core_vars, gpu_vars, ring_vars, host_vars, queue_vars, Types
  <2>2. HostInv'
    BY <1>14
    DEF vars, core_vars, gpu_vars, ring_vars, host_vars, queue_vars,
        failure_vars, HostInv, Values, Running, InSequence, OnRecord, Waited
  <2> QED BY <2>1, <2>2, OtherStep
<1> QED
  BY <1>1, <1>2, <1>3, <1>4, <1>5, <1>6, <1>7, <1>8, <1>9, <1>10, <1>11,
     <1>12, <1>13, <1>14 DEF Next, CoreThread, CoreQueue, Host, HostQueue

-----------------------------------------------------------------------------
\* The hand-off keeps its order, its slots and its two timelines: the
\* inductive invariant.
THEOREM HandoffInvariant == Spec => []IInv
  BY InitInv, StepInv, PTL DEF Spec

\* The core's queue never signals a value the produce timeline has reached; the
\* host's composites never lower the consume timeline and signal a value again
\* only for a frame whose composite failed after it was submitted, whichever
\* way the core waits.
THEOREM TimelinesIncrease == Spec => []SignalsIncrease
<1>1. IInv => SignalsIncrease
  <2> SUFFICES ASSUME IInv PROVE SignalsIncrease
    OBVIOUS
  <2>1. writing # 0 => 2 * writing > produce
    BY DEF IInv, InOrder
  <2>2. ASSUME reading
        PROVE  1 \in DOMAIN reads /\ reads[1].sync \in Nat /\ consume \in Nat
    <3>1. reads # <<>>
      BY <2>2 DEF IInv, HostInv, Running
    <3>2. 1 \in DOMAIN reads
      BY <3>1 DEF IInv, Types
    <3> QED BY <3>2, ReadsType DEF IInv, Types
  <2> QED
    BY <2>1, <2>2 DEF IInv, HostInv, InSequence, SignalsIncrease
<1> QED BY <1>1, HandoffInvariant, PTL

\* With a core that waits on the consume timeline before it reuses a slot, a new
\* frame the host composites is torn or replaced only by a frame for which the
\* core gave up waiting, for any number of slots, frames and failed composites.
THEOREM NewFramesIntact ==
  ASSUME HonoursConsume
  PROVE  Spec => []NewFrameIntact
<1>1. IInv => NewFrameIntact
  <2> SUFFICES ASSUME IInv, reading, reads[1].new, consume <= reads[1].sync,
                      reads[1].index = SlotOf(FrameOf(reads[1].sync))
               PROVE  /\ writing # 0 /\ SlotOf(writing) = reads[1].index
                           => writing \in forced
                      /\ contents[reads[1].index] \in
                           {FrameOf(reads[1].sync)} \union forced
    BY DEF NewFrameIntact, ReadsWhole
  <2> DEFINE v == reads[1].sync
             g == FrameOf(v)
  <2>1. 1 \in DOMAIN reads /\ v \in Nat /\ v % 2 = 0 /\ v > 0
    <3>1. reads # <<>>
      BY DEF IInv, HostInv, Running
    <3>2. 1 \in DOMAIN reads
      BY <3>1 DEF IInv, Types
    <3> QED BY <3>2, ReadsType DEF IInv, HostInv, Values
  <2> HIDE DEF v
  <2>2. g \in Nat /\ v = 2 * g /\ g > 0
    BY <2>1 DEF FrameOf
  <2> HIDE DEF g
  <2>3. produce >= v /\ consume <= v
    BY DEF IInv, HostInv, Running, v
  <2>4. g <= Rendered /\ Rendered \in Nat
    BY <2>2, <2>3 DEF IInv, InOrder
  <2>5. Rendered <= f /\ (writing # 0 => writing <= f /\ writing = Rendered + 1)
    BY DEF IInv, Types, InOrder, Rendered
  <2>6. ASSUME NEW h \in Nat, h > g, h <= f, SlotOf(h) = SlotOf(g)
        PROVE  h \in forced
    <3>1. h >= g + SlotCount /\ SlotCount \in Nat
      BY <2>2, <2>6, SlotsApart, SlotsAssumption
    <3>2. h > SlotCount
      BY <2>2, <3>1
    <3>3. h \notin forced => consume >= 2 * (h - SlotCount) + 1
      BY <2>6, <3>2 DEF IInv, HostInv, Waited
    <3>4. consume \in Nat
      BY DEF IInv, Types
    <3> QED BY <2>2, <2>3, <3>1, <3>3, <3>4
  <2>7. writing # 0 /\ SlotOf(writing) = SlotOf(g) => writing \in forced
    BY <2>2, <2>4, <2>5, <2>6 DEF IInv, Types
  <2>8. contents[SlotOf(g)] \in {g} \union forced
    <3>1. SlotOf(g) \in Slots /\ contents[SlotOf(g)] \in Nat
      BY <2>2, SlotType DEF IInv, Types
    <3>2. contents[SlotOf(g)] >= g
      BY <2>2, <2>4 DEF IInv, LastOnes
    <3>3. /\ contents[SlotOf(g)] <= Rendered
          /\ SlotOf(contents[SlotOf(g)]) = SlotOf(g)
      BY <2>2, <3>1, <3>2 DEF IInv, LastOnes
    <3>4. f \in Nat
      BY DEF IInv, Types
    <3> QED BY <2>2, <2>4, <2>5, <2>6, <3>1, <3>2, <3>3, <3>4
  <2> QED BY <2>7, <2>8 DEF g, v
<1> QED BY <1>1, HandoffInvariant, PTL
=============================================================================
