-------------------------- MODULE SimulatorProofs --------------------------
(***************************************************************************)
(* Proofs about Simulator, for any host metrics, number of probes and      *)
(* capacity.                                                               *)
(*                                                                         *)
(* What a stored snapshot owes to its refresh (SnapshotReflectsItsRefresh) *)
(* a refresh owes to what it has seen so far, probe by probe: Explained.   *)
(* That old spikes fade out is counted ahead: what has lingered, with the  *)
(* spiked snapshots that can still be on their way, is at most what the    *)
(* channel and the relay held when calm set in: Fading.                    *)
(***************************************************************************)
EXTENDS Simulator, TLAPS

\* Of n probes the slow and the failed ones, and the others, have a reason in S.
Explained(slow, failed, n, S) ==
  /\ slow > 0 => \E b \in S : ~b[2] \/ "latency" \in b[1]
  /\ slow < n => \E b \in S : b[2] /\ "latency" \notin b[1]
  /\ failed > 0 => \E b \in S : ~b[2] \/ "error_rate" \in b[1]
  /\ failed < n => \E b \in S : b[2]

\* The refresh that is under way.
Refreshing ==
  /\ run.stage \in {"probe", "store"} => <<trigger, up>> \in seen
  /\ run.stage = "probe" =>
       /\ run.slow <= run.n /\ run.failed <= run.n
       /\ Explained(run.slow, run.failed, run.n, seen)
  /\ run.stage = "store" =>
       /\ Explained(run.slow, run.failed, Probes, seen)
       /\ \E b \in seen : run.host = b[1] \cap Host

\* What is on its way to the dashboards, the oldest first.
OnTheWay == hand \o ch

\* Of what is on its way only the first k can be spiked, and they may linger.
LingersOn(k) ==
  /\ lingering + k <= Capacity + 1
  /\ \A i \in 1..Len(OnTheWay) : i > k => ~Spiky(OnTheWay[i])

Fading ==
  /\ ~Calm(basis) => lingering = 0
  /\ Calm(basis) => \E k \in Nat : LingersOn(k)

Inv == TypeOK /\ Refreshing /\ Fading /\ SnapshotReflectsItsRefresh

Idle == [stage : {"first", "emit", "loop"}]

Probing == [stage : {"probe"}, n : 0..Probes, slow : 0..Probes,
            failed : 0..Probes, first : BOOLEAN]

Storing == [stage : {"store"}, host : SUBSET Host, slow : 0..Probes,
            failed : 0..Probes, first : BOOLEAN]

-----------------------------------------------------------------------------
\* Nothing has been stored, emitted or relayed at the start.
LEMMA InitInv == Init => Inv
<1> SUFFICES ASSUME Init PROVE Inv
  OBVIOUS
<1>1. current \in Snapshot
  BY SimulatorAssumption DEF Init, NoSnapshot, Snapshot
<1>2. /\ ch \in Seq(Snapshot) /\ Len(ch) = 0
      /\ hand \in Seq(Snapshot) /\ Len(hand) = 0
  BY DEF Init
<1>3. TypeOK
  <2>1. run \in [stage : {"first", "emit", "loop"}]
    BY DEF Init
  <2>2. /\ trigger \subseteq Flags /\ up \in BOOLEAN
        /\ seen \in SUBSET ((SUBSET Flags) \X BOOLEAN)
        /\ basis \in SUBSET ((SUBSET Flags) \X BOOLEAN)
    BY DEF Init
  <2>3. /\ made \in 0..MaxRefreshes /\ lingering \in Nat
        /\ changes \in 0..MaxChanges /\ Len(ch) <= Capacity /\ Len(hand) <= 1
    BY <1>2, SimulatorAssumption DEF Init
  <2> QED
    BY <1>1, <1>2, <2>1, <2>2, <2>3 DEF TypeOK
<1>4. Fading
  BY DEF Init, Fading, Calm
<1> QED
  BY <1>3, <1>4 DEF Init, Inv, Refreshing, SnapshotReflectsItsRefresh

\* The handlers, and the server that comes and goes.
LEMMA ChangesInv ==
  ASSUME Inv, NEW t \in SUBSET Flags, NEW u \in BOOLEAN, Changes(t, u)
  PROVE  Inv'
<1>1. TypeOK'
  BY SimulatorAssumption DEF Inv, TypeOK, Changes
<1>2. Refreshing'
  <2> USE DEF Inv, Changes
  <2>1. <<trigger, up>>' \in seen' /\ seen \subseteq seen'
    OBVIOUS
  <2>2. ASSUME run.stage = "probe"
        PROVE  Explained(run.slow, run.failed, run.n, seen')
    BY <2>1, <2>2 DEF Refreshing, Explained
  <2>3. ASSUME run.stage = "store"
        PROVE  /\ Explained(run.slow, run.failed, Probes, seen')
               /\ \E b \in seen' : run.host = b[1] \cap Host
    BY <2>1, <2>3 DEF Refreshing, Explained
  <2> QED
    BY <2>1, <2>2, <2>3 DEF Refreshing, Explained
<1>3. Fading' /\ SnapshotReflectsItsRefresh'
  BY DEF Inv, Changes, Fading, LingersOn, OnTheWay, SnapshotReflectsItsRefresh
<1> QED
  BY <1>1, <1>2, <1>3 DEF Inv

\* A refresh starts with nothing counted and with what is so now.
LEMMA StartRefreshInv == Inv /\ StartRefresh => Inv'
<1> SUFFICES ASSUME Inv, StartRefresh PROVE Inv'
  OBVIOUS
<1> USE DEF Inv, StartRefresh, Goes
<1>1. TypeOK'
  <2>1. run' \in Probing
    BY SimulatorAssumption DEF Probing
  <2>2. made' \in 0..MaxRefreshes
    BY SimulatorAssumption DEF TypeOK
  <2>3. seen' \in SUBSET ((SUBSET Flags) \X BOOLEAN)
    BY DEF TypeOK
  <2> QED
    BY <2>1, <2>2, <2>3 DEF TypeOK, Probing
<1>2. Refreshing'
  BY SimulatorAssumption DEF Refreshing, Explained
<1>3. Fading'
  BY DEF Fading, LingersOn, OnTheWay
<1>4. SnapshotReflectsItsRefresh'
  BY DEF SnapshotReflectsItsRefresh
<1> QED
  BY <1>1, <1>2, <1>3, <1>4

\* A probe adds at most one to each count, and has its reason in what is so now.
LEMMA ProbeInv == Inv /\ Probe => Inv'
<1> SUFFICES ASSUME Inv, Probe PROVE Inv'
  OBVIOUS
<1> USE DEF Inv, Goes, MoreProbes
<1>1. PICK slow \in BOOLEAN, failed \in BOOLEAN :
        /\ Ping(slow, failed)
        /\ run' = [run EXCEPT !.n = @ + 1,
                     !.slow = @ + (IF slow THEN 1 ELSE 0),
                     !.failed = @ + (IF failed THEN 1 ELSE 0)]
  BY DEF Probe
<1>2. run \in Probing /\ run.n < Probes
  BY DEF Probe, TypeOK, Probing
<1>3. /\ run.slow <= run.n /\ run.failed <= run.n
      /\ Explained(run.slow, run.failed, run.n, seen)
      /\ <<trigger, up>> \in seen
  BY DEF Probe, Refreshing
<1>4. /\ run'.stage = "probe" /\ run'.n = run.n + 1 /\ run'.first = run.first
      /\ run'.slow = IF slow THEN run.slow + 1 ELSE run.slow
      /\ run'.failed = IF failed THEN run.failed + 1 ELSE run.failed
  BY <1>1, <1>2, SimulatorAssumption DEF Probing
<1>5. run' \in Probing /\ run'.slow <= run'.n /\ run'.failed <= run'.n
  <2>1. /\ run'.n \in 0..Probes /\ run'.slow \in 0..Probes
        /\ run'.failed \in 0..Probes /\ run'.slow <= run'.n
        /\ run'.failed <= run'.n
    BY <1>2, <1>3, <1>4, SimulatorAssumption DEF Probing
  <2>2. run' = [stage |-> "probe", n |-> run'.n, slow |-> run'.slow,
                failed |-> run'.failed, first |-> run.first]
    BY <1>1, <1>2, <1>4 DEF Probing
  <2> QED
    BY <1>2, <2>1, <2>2 DEF Probing
<1>6. Explained(run'.slow, run'.failed, run'.n, seen)
  <2>1. up \in BOOLEAN
    BY DEF TypeOK
  <2>2. slow => ~up \/ "latency" \in trigger
    BY <1>1, <2>1 DEF Ping
  <2>3. ~slow => up /\ "latency" \notin trigger
    BY <1>1, <2>1 DEF Ping
  <2>4. failed => ~up \/ "error_rate" \in trigger
    BY <1>1, <2>1 DEF Ping
  <2>5. ~failed => up
    BY <1>1, <2>1 DEF Ping
  <2>6. run.slow \in Nat /\ run.failed \in Nat /\ run.n \in Nat
    BY <1>2, SimulatorAssumption DEF Probing
  <2>7. /\ slow => \E b \in seen : ~b[2] \/ "latency" \in b[1]
        /\ ~slow => \E b \in seen : b[2] /\ "latency" \notin b[1]
        /\ failed => \E b \in seen : ~b[2] \/ "error_rate" \in b[1]
        /\ ~failed => \E b \in seen : b[2]
    BY <1>3, <2>2, <2>3, <2>4, <2>5
  <2> QED
    BY <1>3, <1>4, <2>6, <2>7 DEF Explained
<1>7. TypeOK'
  BY <1>5 DEF Probe, TypeOK, Probing
<1>8. Refreshing'
  BY <1>3, <1>4, <1>5, <1>6 DEF Probe, Refreshing
<1>9. Fading' /\ SnapshotReflectsItsRefresh'
  BY DEF Probe, Fading, LingersOn, OnTheWay, SnapshotReflectsItsRefresh
<1> QED
  BY <1>7, <1>8, <1>9

\* The host metrics are read off the flags of this moment.
LEMMA OverrideInv == Inv /\ Override => Inv'
<1> SUFFICES ASSUME Inv, Override PROVE Inv'
  OBVIOUS
<1> USE DEF Inv, Override, Goes, MoreProbes
<1>1. run \in Probing
  BY DEF TypeOK, Probing
<1>2. run.n = Probes
  BY <1>1, SimulatorAssumption DEF Probing
<1>3. run' = [stage |-> "store", host |-> trigger \cap Host, slow |-> run.slow,
              failed |-> run.failed, first |-> run.first]
  BY DEF Spiked
<1>4. run' \in Storing
  BY <1>1, <1>3 DEF Probing, Storing
<1>5. TypeOK'
  BY <1>4 DEF TypeOK, Storing
<1>6. Refreshing'
  <2>1. /\ <<trigger, up>> \in seen
        /\ Explained(run.slow, run.failed, Probes, seen)
    BY <1>2 DEF Refreshing
  <2>2. \E b \in seen : run'.host = b[1] \cap Host
    BY <1>3, <2>1
  <2> QED
    BY <1>3, <2>1, <2>2 DEF Refreshing
<1>7. Fading' /\ SnapshotReflectsItsRefresh'
  BY DEF Fading, LingersOn, OnTheWay, SnapshotReflectsItsRefresh
<1> QED
  BY <1>5, <1>6, <1>7

\* A snapshot explained by a calm refresh is not spiked.
LEMMA CalmIsClean ==
  ASSUME SnapshotReflectsItsRefresh, current \in Snapshot, Calm(basis)
  PROVE  ~Spiky(current)
<1>1. /\ current.slow \in Nat /\ current.failed \in Nat
  BY SimulatorAssumption DEF Snapshot
<1>2. basis # {} /\ \A b \in basis : b[1] = {} /\ b[2]
  BY DEF Calm
<1>3. current.host = {} /\ ~(current.slow > 0) /\ ~(current.failed > 0)
  BY <1>2 DEF SnapshotReflectsItsRefresh
<1> QED
  BY <1>3 DEF Spiky

\* A sequence that is not empty, of length at most one, before another.
LEMMA OneBefore ==
  ASSUME NEW S, NEW s \in Seq(S), NEW t \in Seq(S), s # <<>>, Len(s) <= 1
  PROVE  /\ Len(s) = 1 /\ Len(t) \in Nat /\ Len(s \o t) = Len(t) + 1
         /\ Head(s) \in S /\ (s \o t)[1] = Head(s)
         /\ \A i \in 1..Len(t) : (s \o t)[i + 1] = t[i]
<1>1. Len(s) \in Nat /\ Len(t) \in Nat
  OBVIOUS
<1>2. Len(s) = 1
  <2>1. Len(s) # 0
    OBVIOUS
  <2>2. \A n \in Nat : n # 0 /\ n <= 1 => n = 1
    OBVIOUS
  <2> QED
    BY Zenon, <1>1, <2>1, <2>2
<1>3. Len(s \o t) = Len(s) + Len(t)
  OBVIOUS
<1>4. \A i \in 1..(Len(s) + Len(t)) :
        (s \o t)[i] = IF i <= Len(s) THEN s[i] ELSE t[i - Len(s)]
  OBVIOUS
<1>5. Head(s) = s[1] /\ s[1] \in S
  BY <1>2
<1>6. 1 \in 1..(Len(s) + Len(t)) /\ (s \o t)[1] = s[1]
  BY <1>1, <1>2, <1>4
<1>7. ASSUME NEW i \in 1..Len(t) PROVE (s \o t)[i + 1] = t[i]
  <2>1. i + 1 \in 1..(Len(s) + Len(t)) /\ ~(i + 1 <= Len(s)) /\ (i + 1) - Len(s) = i
    BY <1>1, <1>2
  <2> QED
    BY <1>4, <2>1
<1> QED
  BY <1>1, <1>2, <1>3, <1>5, <1>6, <1>7

\* What is on its way, by its place, and at most what the relay and the channel
\* hold.
LEMMA OnItsWay ==
  ASSUME TypeOK
  PROVE  /\ OnTheWay \in Seq(Snapshot) /\ Len(OnTheWay) = Len(hand) + Len(ch)
         /\ Len(OnTheWay) \in Nat /\ Len(OnTheWay) <= Capacity + 1
         /\ Capacity \in Nat /\ lingering \in Nat
<1>1. /\ hand \in Seq(Snapshot) /\ ch \in Seq(Snapshot) /\ lingering \in Nat
      /\ Len(hand) <= 1 /\ Len(ch) <= Capacity /\ Capacity \in Nat
  BY SimulatorAssumption DEF TypeOK
<1>2. Len(hand) \in Nat /\ Len(ch) \in Nat
  BY <1>1
<1>3. OnTheWay \in Seq(Snapshot) /\ Len(OnTheWay) = Len(hand) + Len(ch)
  BY <1>1 DEF OnTheWay
<1> QED
  BY <1>1, <1>2, <1>3

\* What was explained while it was collected is explained when it is stored, and
\* when calm sets in, all that is on its way may still be spiked.
LEMMA StoreCurrentInv == Inv /\ StoreCurrent => Inv'
<1> SUFFICES ASSUME Inv, StoreCurrent PROVE Inv'
  OBVIOUS
<1> USE DEF Inv, StoreCurrent, Goes, Stored
<1>1. run \in Storing
  BY DEF TypeOK, Storing
<1>2. current' \in Snapshot
  BY <1>1, SimulatorAssumption DEF TypeOK, Storing, Snapshot
<1>3. TypeOK'
  BY <1>2 DEF TypeOK
<1>4. Refreshing'
  BY DEF Refreshing
<1>5. Fading'
  <2>1. CASE ~Calm(seen)
    BY <2>1 DEF Fading, Calm
  <2>2. CASE Calm(seen) /\ Calm(basis)
    BY <2>2 DEF Fading, LingersOn, OnTheWay, Calm
  <2>3. CASE Calm(seen) /\ ~Calm(basis)
    <3>1. PICK k \in Nat : k = Len(OnTheWay)
      BY OnItsWay
    <3>2. k <= Capacity + 1 /\ Len(OnTheWay') = k
      BY <3>1, OnItsWay DEF OnTheWay
    <3>3. lingering' = 0
      BY <2>3 DEF Fading
    <3>4. \A i \in 1..Len(OnTheWay') : ~(i > k)
      BY <3>2
    <3>5. LingersOn(k)'
      BY <3>2, <3>3, <3>4, SimulatorAssumption DEF LingersOn
    <3> QED
      BY <2>3, <3>5 DEF Fading, Calm
  <2> QED
    BY <2>1, <2>2, <2>3
<1>6. SnapshotReflectsItsRefresh'
  BY <1>1 DEF Refreshing, Explained, SnapshotReflectsItsRefresh
<1> QED
  BY <1>3, <1>4, <1>5, <1>6

\* What is emitted in a calm is not spiked, and comes last.
LEMMA EmitInv == Inv /\ Emit => Inv'
<1> SUFFICES ASSUME Inv, Emit PROVE Inv'
  OBVIOUS
<1> USE DEF Inv, Emit, Goes
<1>1. ch \in Seq(Snapshot) /\ hand \in Seq(Snapshot) /\ current \in Snapshot
  BY DEF TypeOK
<1>2. ch' \in Seq(Snapshot) /\ Len(ch') = Len(ch) + 1
  BY <1>1
<1>3. TypeOK'
  BY <1>2, SimulatorAssumption DEF TypeOK
<1>4. Refreshing' /\ SnapshotReflectsItsRefresh'
  BY DEF Refreshing, SnapshotReflectsItsRefresh
<1>5. Fading'
  <2>1. CASE ~Calm(basis)
    BY <2>1 DEF Fading, Calm
  <2>2. CASE Calm(basis)
    <3>1. ~Spiky(current)
      BY <1>1, <2>2, CalmIsClean
    <3>2. PICK k \in Nat : LingersOn(k)
      BY <2>2 DEF Fading
    <3>3. /\ OnTheWay' = Append(OnTheWay, current) /\ OnTheWay \in Seq(Snapshot)
      BY <1>1, OnItsWay DEF OnTheWay
    <3>4. \A i \in 1..Len(OnTheWay') :
            \/ i \in 1..Len(OnTheWay) /\ OnTheWay'[i] = OnTheWay[i]
            \/ OnTheWay'[i] = current
      BY <1>1, <3>3
    <3>5. \A i \in 1..Len(OnTheWay') : i > k => ~Spiky(OnTheWay'[i])
      BY <3>1, <3>2, <3>4 DEF LingersOn
    <3>6. LingersOn(k)'
      BY <3>2, <3>5 DEF LingersOn
    <3> QED
      BY <2>2, <3>6 DEF Fading, Calm
  <2> QED
    BY <2>1, <2>2
<1> QED
  BY <1>3, <1>4, <1>5

\* What the relay receives keeps its place.
LEMMA ReceiveInv == Inv /\ Receive => Inv'
<1> SUFFICES ASSUME Inv, Receive PROVE Inv'
  OBVIOUS
<1> USE DEF Inv, Receive
<1>1. /\ ch \in Seq(Snapshot) /\ ch # <<>> /\ hand = <<>>
      /\ hand' = <<Head(ch)>> /\ ch' = Tail(ch)
  BY DEF TypeOK
<1>2. /\ ch' \in Seq(Snapshot) /\ Len(ch') = Len(ch) - 1
      /\ hand' \in Seq(Snapshot) /\ Len(hand') = 1
  BY <1>1
<1>3. TypeOK'
  BY <1>2, SimulatorAssumption DEF TypeOK
<1>4. Refreshing' /\ SnapshotReflectsItsRefresh'
  BY DEF Refreshing, SnapshotReflectsItsRefresh
<1>5. <<Head(ch)>> \o Tail(ch) = <<>> \o ch
  BY <1>1
<1>6. OnTheWay' = OnTheWay
  BY <1>1, <1>5 DEF OnTheWay
<1>7. Fading'
  BY <1>6 DEF Fading, LingersOn
<1> QED
  BY <1>3, <1>4, <1>7

\* What is broadcast was the first on its way: when it is spiked and lingers,
\* one fewer can do so after it.
LEMMA BroadcastInv == Inv /\ Broadcast => Inv'
<1> SUFFICES ASSUME Inv, Broadcast PROVE Inv'
  OBVIOUS
<1> USE DEF Inv, Broadcast
<1>1. /\ ch \in Seq(Snapshot) /\ hand \in Seq(Snapshot) /\ Len(hand) = 1
      /\ hand' = <<>> /\ ch' = ch /\ lingering \in Nat
  <2>1. /\ hand \in Seq(Snapshot) /\ Len(hand) <= 1 /\ hand # <<>>
    BY DEF TypeOK
  <2>2. Len(hand) = 1
    BY <2>1, OneBefore
  <2> QED
    BY <2>2 DEF TypeOK
<1>2. TypeOK'
  BY <1>1 DEF TypeOK
<1>3. Refreshing' /\ SnapshotReflectsItsRefresh'
  BY DEF Refreshing, SnapshotReflectsItsRefresh
<1>4. /\ OnTheWay' = ch /\ Len(OnTheWay) = Len(ch) + 1 /\ Len(ch) \in Nat
      /\ OnTheWay[1] = Head(hand)
      /\ \A i \in 1..Len(ch) : OnTheWay[i + 1] = ch[i]
  <2>1. OnTheWay' = ch
    BY <1>1 DEF OnTheWay
  <2>2. /\ Len(hand \o ch) = Len(ch) + 1 /\ Len(ch) \in Nat
        /\ (hand \o ch)[1] = Head(hand)
        /\ \A i \in 1..Len(ch) : (hand \o ch)[i + 1] = ch[i]
    <3>1. hand # <<>> /\ Len(hand) <= 1
      BY DEF TypeOK
    <3>2. hand \in Seq(Snapshot) /\ ch \in Seq(Snapshot)
      BY <1>1
    <3> QED
      BY ONLY <3>1, <3>2, OneBefore
  <2>3. OnTheWay = hand \o ch
    BY DEF OnTheWay
  <2> QED
    BY ONLY <2>1, <2>2, <2>3
<1>5. Fading'
  <2>1. CASE ~Calm(basis)
    BY <2>1 DEF Fading, Calm
  <2>2. CASE Calm(basis)
    <3>1. PICK k \in Nat : LingersOn(k)
      BY <2>2 DEF Fading
    <3>2. \A i \in 1..Len(ch) : i + 1 > k => ~Spiky(ch[i])
      BY <1>4, <3>1 DEF LingersOn
    <3>3. CASE k = 0
      <4>1. ~Spiky(Head(hand))
        BY <1>4, <3>1, <3>3 DEF LingersOn
      <4>2. LingersOn(0)'
        BY <1>4, <3>1, <3>2, <3>3, <4>1 DEF LingersOn
      <4> QED
        BY <2>2, <4>2 DEF Fading, Calm
    <3>4. CASE k > 0
      <4>1. k - 1 \in Nat /\ lingering' <= lingering + 1 /\ lingering' \in Nat
        BY <1>1, <3>4
      <4>2. lingering' + (k - 1) <= Capacity + 1
        BY <1>1, <3>1, <4>1, SimulatorAssumption DEF LingersOn
      <4>3. LingersOn(k - 1)'
        BY <1>4, <3>2, <4>1, <4>2 DEF LingersOn
      <4> QED
        BY <2>2, <4>1, <4>3 DEF Fading, Calm
    <3> QED
      BY <3>3, <3>4
  <2> QED
    BY <2>1, <2>2
<1> QED
  BY <1>2, <1>3, <1>5

\* Every step keeps Inv.
LEMMA StepInv == Inv /\ [Next]_vars => Inv'
<1> SUFFICES ASSUME Inv, [Next]_vars PROVE Inv'
  OBVIOUS
<1>0. trigger \in SUBSET Flags /\ up \in BOOLEAN
  BY DEF Inv, TypeOK
<1>1. CASE \E t \in SUBSET Flags : SetTrigger(t)
  BY <1>0, <1>1, ChangesInv DEF SetTrigger
<1>2. CASE Reset \/ Listen \/ Shutdown
  <2>1. {} \in SUBSET Flags /\ TRUE \in BOOLEAN /\ FALSE \in BOOLEAN
    OBVIOUS
  <2> QED
    BY <1>0, <1>2, <2>1, ChangesInv DEF Reset, Listen, Shutdown
<1>3. CASE Run
  BY <1>3, StartRefreshInv, ProbeInv, OverrideInv, StoreCurrentInv, EmitInv
  DEF Run
<1>4. CASE Receive \/ Broadcast
  BY <1>4, ReceiveInv, BroadcastInv
<1>5. CASE UNCHANGED vars
  <2>1. TypeOK' /\ Refreshing'
    BY <1>5 DEF vars, Inv, TypeOK, Refreshing, Explained
  <2>2. Fading' /\ SnapshotReflectsItsRefresh'
    BY <1>5 DEF vars, Inv, Fading, LingersOn, OnTheWay, SnapshotReflectsItsRefresh
  <2> QED
    BY <2>1, <2>2 DEF Inv
<1> QED
  BY <1>1, <1>2, <1>3, <1>4, <1>5 DEF Next

\* The inductive invariant holds throughout.
THEOREM Invariance == Spec => []Inv
<1>1. Inv /\ [Next]_vars => Inv'
  BY StepInv
<1> QED
  BY InitInv, <1>1, PTL DEF Spec

\* Type correctness: no count exceeds the probes that were made, and the channel
\* never holds more than its capacity.
THEOREM TypeCorrect == Spec => []TypeOK
<1>1. Inv => TypeOK
  BY DEF Inv
<1> QED
  BY Invariance, <1>1, PTL

\* A snapshot shows only, and all of, what was so during its refresh, whenever
\* the flags are set and reset and the server comes and goes.
THEOREM SnapshotsExplained == Spec => []SnapshotReflectsItsRefresh
<1>1. Inv => SnapshotReflectsItsRefresh
  BY DEF Inv
<1> QED
  BY Invariance, <1>1, PTL

\* However the flags, the refreshes, the emitting and the relay interleave, the
\* spiked snapshots that dashboards still get in a calm are at most what the
\* channel and the relay held.
THEOREM SpikesFade == Spec => []SpikesFadeOut
<1>1. Inv => SpikesFadeOut
  <2> SUFFICES ASSUME Inv PROVE lingering <= Capacity + 1
    BY DEF SpikesFadeOut
  <2>1. lingering \in Nat /\ Capacity \in Nat
    BY SimulatorAssumption DEF Inv, TypeOK
  <2>2. lingering = 0 \/ \E k \in Nat : lingering + k <= Capacity + 1
    BY DEF Inv, Fading, LingersOn
  <2> QED
    BY <2>1, <2>2
<1> QED
  BY Invariance, <1>1, PTL
=============================================================================
