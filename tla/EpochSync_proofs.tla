-------------------------- MODULE EpochSync_proofs --------------------------
(* As long as no push outlives its runner, passes do not overlap, appends do *)
(* not break off and the hub's store is not wiped during a pass, the hub     *)
(* mirrors what is recorded, for every chunk size and number of connects,    *)
(* sessions, failed pushes, crashes and wiped stores.                        *)
EXTENDS EpochSync, SequenceTheorems, TLAPS

USE SyncAssumption

----------------------------------------------------------------------------
(* Types *)

LEMMA SamplesFacts ==
    ASSUME NEW i \in Nat, NEW j \in Nat, i <= j
    PROVE  /\ Samples(i, j) \in Seq(Nat)
           /\ Len(Samples(i, j)) = j - i
           /\ \A k \in 1..(j - i) : Samples(i, j)[k] = i + k
  BY DEF Samples

LEMMA WrittenAtType ==
    ASSUME NEW q \in Seq(Nat), NEW n \in Nat, NEW new \in Seq(Nat)
    PROVE  WrittenAt(q, n, new) \in Seq(Nat)
<1>1. CASE n <= Len(q)
  <2>1. [k \in 1..(n - Len(q)) |-> 0] = <<>>
    BY <1>1
  <2> QED
    BY <2>1 DEF WrittenAt
<1>2. CASE n > Len(q)
  <2>1. [k \in 1..(n - Len(q)) |-> 0] \in Seq(Nat)
    BY <1>2
  <2> QED
    BY <2>1 DEF WrittenAt
<1> QED
  BY <1>1, <1>2

LEMMA CallFacts ==
    /\ \A c \in Call : /\ c.by \in Runners \cup {None} /\ c.epoch \in Epochs
                       /\ c.from \in Nat /\ c.to \in Nat
    /\ \A r \in Runners \cup {None}, e \in Epochs, i, j \in Nat :
           [by |-> r, epoch |-> e, from |-> i, to |-> j] \in Call
  BY DEF Call

LEMMA InitType == Init => TypeOK
<1> SUFFICES ASSUME Init PROVE TypeOK
  OBVIOUS
<1>1. AppTypes
  BY DEF Init, AppTypes, Epochs
<1>2. SyncTypes
  <2>1. [r \in Runners |-> [e \in Epochs |-> 0]] \in [Runners -> [Epochs -> Nat]]
    OBVIOUS
  <2> QED
    BY <2>1 DEF Init, SyncTypes
<1>3. HubTypes
  BY DEF Init, HubTypes
<1> QED
  BY <1>1, <1>2, <1>3 DEF Init, TypeOK

(* What is left of the pushes of runners that gave up is nobody's. *)
LEMMA AbandonedFacts ==
    ASSUME TypeOK, NEW rs \in SUBSET Runners, NEW left \in Abandoned(rs)
    PROVE  /\ left \in SUBSET Call
           /\ \A c \in left : /\ c.from < c.to
                              /\ c.by # None => c \in calls /\ c.by \notin rs
           /\ "late" \notin Faults => left = {c \in calls : c.by \notin rs}
<1> DEFINE theirs == {c \in calls : c.by \in rs}
<1>1. CASE "late" \notin Faults
  BY <1>1 DEF Abandoned, TypeOK
<1>2. CASE "late" \in Faults
  <2>1. PICK kept \in SUBSET theirs :
            left = (calls \ theirs) \cup {[c EXCEPT !.by = None] : c \in kept}
    BY <1>2 DEF Abandoned
  <2>2. ASSUME NEW c \in kept
        PROVE  /\ [c EXCEPT !.by = None] \in Call
               /\ [c EXCEPT !.by = None].from < [c EXCEPT !.by = None].to
               /\ [c EXCEPT !.by = None].by = None
    BY <2>1 DEF TypeOK, Call
  <2>3. ASSUME NEW c \in left
        PROVE  /\ c \in Call /\ c.from < c.to
               /\ c.by # None => c \in calls /\ c.by \notin rs
    <3>1. CASE c \in calls \ theirs
      BY <3>1 DEF TypeOK
    <3>2. CASE \E d \in kept : c = [d EXCEPT !.by = None]
      BY <3>2, <2>2
    <3> QED
      BY <3>1, <3>2, <2>1
  <2> QED
    BY <1>2, <2>3
<1> QED
  BY <1>1, <1>2

LEMMA FeedType == ASSUME TypeOK, Feed \/ Flush PROVE TypeOK'
<1>1. AppTypes'
  BY DEF TypeOK, AppTypes, Feed, Flush
<1>2. SyncTypes' /\ HubTypes'
  BY DEF TypeOK, SyncTypes, HubTypes, Feed, Flush, syncVars, hubVars
<1> QED
  BY <1>1, <1>2 DEF TypeOK, Feed, Flush, syncVars

LEMMA RestartType ==
    ASSUME TypeOK, Restart, faults' \in Nat, local' \in [Epochs -> Nat]
    PROVE  TypeOK'
<1>1. AppTypes'
  BY DEF TypeOK, AppTypes, Restart, Epochs
<1>2. SyncTypes' /\ HubTypes'
  BY DEF TypeOK, SyncTypes, HubTypes, Restart, hubVars
<1>3. /\ calls' \in SUBSET Call
      /\ \A c \in calls' : c.from < c.to /\ c.by = None
  <2>1. calls' \in Abandoned(Runners)
    BY DEF Restart
  <2> QED
    BY <2>1, AbandonedFacts, CallFacts DEF TypeOK
<1> QED
  BY <1>1, <1>2, <1>3 DEF TypeOK

LEMMA RunnerType ==
    ASSUME TypeOK, NEW r \in Runners, Start(r) \/ Stop(r) \/ Reply(r) \/ EndPass(r)
    PROVE  TypeOK'
<1>1. AppTypes' /\ HubTypes'
  BY DEF TypeOK, AppTypes, HubTypes, Start, Stop, Reply, EndPass, appVars, hubVars
<1>2. SyncTypes'
  BY DEF TypeOK, SyncTypes, Start, Stop, Reply, EndPass, AfterPass
<1>3. \A c \in calls : c.by # None => state'[c.by] = "call"
  BY CallFacts DEF TypeOK, SyncTypes, Start, Stop, Reply, EndPass
<1> QED
  BY <1>1, <1>2, <1>3 DEF TypeOK, Start, Stop, Reply, EndPass

LEMMA BeginType ==
    ASSUME TypeOK, NEW r \in Runners, Begin(r)
    PROVE  TypeOK'
<1>1. AppTypes' /\ HubTypes'
  BY DEF TypeOK, AppTypes, HubTypes, Begin, BeginAt, appVars, hubVars
<1>2. SyncTypes'
  BY DEF TypeOK, AppTypes, SyncTypes, HubTypes, Begin, BeginAt
<1>3. \A c \in calls : c.by # None => state'[c.by] = "call"
  BY CallFacts DEF TypeOK, SyncTypes, Begin, BeginAt
<1> QED
  BY <1>1, <1>2, <1>3 DEF TypeOK, Begin, BeginAt

(* A push: what it takes along, from where the pass is to at most its goal. *)
LEMMA PushFacts ==
    ASSUME TypeOK, NEW r \in Runners, NEW e \in Epochs, Push(r, e)
    PROVE  \E j \in Nat :
               /\ at[r][e] < j /\ j <= goal[r][e]
               /\ calls' = calls \cup {[by |-> r, epoch |-> e, from |-> at[r][e], to |-> j]}
               /\ at' = [at EXCEPT ![r] = [at[r] EXCEPT ![e] = j]]
<1> DEFINE j == IF at[r][e] + ChunkSize < goal[r][e] THEN at[r][e] + ChunkSize ELSE goal[r][e]
<1>1. at[r][e] \in Nat /\ goal[r][e] \in Nat
  BY DEF TypeOK, SyncTypes
<1>2. j \in Nat /\ at[r][e] < j /\ j <= goal[r][e]
  BY <1>1 DEF Push
<1>3. calls' = calls \cup {[by |-> r, epoch |-> e, from |-> at[r][e], to |-> j]}
  BY DEF Push
<1>4. at' = [at EXCEPT ![r] = [at[r] EXCEPT ![e] = j]]
  BY DEF Push, TypeOK, SyncTypes
<1> HIDE DEF j
<1> QED
  BY <1>2, <1>3, <1>4

LEMMA PushType ==
    ASSUME TypeOK, NEW r \in Runners, NEW e \in Epochs, Push(r, e)
    PROVE  TypeOK'
<1>1. PICK j \in Nat :
          /\ at[r][e] < j /\ j <= goal[r][e]
          /\ calls' = calls \cup {[by |-> r, epoch |-> e, from |-> at[r][e], to |-> j]}
          /\ at' = [at EXCEPT ![r] = [at[r] EXCEPT ![e] = j]]
  BY PushFacts
<1>2. AppTypes' /\ HubTypes'
  BY DEF TypeOK, AppTypes, HubTypes, Push, appVars, hubVars
<1>3. SyncTypes'
  BY <1>1 DEF TypeOK, SyncTypes, Push
<1> DEFINE new == [by |-> r, epoch |-> e, from |-> at[r][e], to |-> j]
<1>4. /\ new \in Call /\ new.from < new.to /\ new.by = r
      /\ \A c \in calls : c.by # r
  <2>1. at[r][e] \in Nat
    BY DEF TypeOK, SyncTypes
  <2>2. new \in Call
    BY <2>1, CallFacts
  <2>3. \A c \in calls : c.by # r
    BY CallFacts DEF TypeOK, Push
  <2> QED
    BY <1>1, <2>2, <2>3
<1>5. \A c \in calls' : c.by # None => state'[c.by] = "call"
  BY <1>1, <1>4, CallFacts DEF TypeOK, SyncTypes, Push
<1> HIDE DEF new
<1>6. calls' = calls \cup {new}
  BY <1>1 DEF new
<1>7. calls' \in SUBSET Call /\ \A c \in calls' : c.from < c.to
  BY <1>4, <1>6 DEF TypeOK
<1>8. \A c, d \in calls' : c.by = d.by /\ c.by # None => c = d
  BY <1>4, <1>6 DEF TypeOK
<1> QED
  BY <1>2, <1>3, <1>5, <1>7, <1>8 DEF TypeOK

LEMMA FailType ==
    ASSUME TypeOK, NEW r \in Runners, Fail(r)
    PROVE  TypeOK'
<1>1. AppTypes' /\ HubTypes'
  BY DEF TypeOK, AppTypes, HubTypes, Fail, FailInto, Fault, appVars, hubVars
<1>2. SyncTypes'
  BY DEF TypeOK, SyncTypes, Fail, FailInto, AfterPass
<1>3. /\ calls' \in SUBSET Call
      /\ \A c \in calls' : c.from < c.to /\ (c.by # None => c \in calls /\ c.by # r)
  <2>1. calls' \in Abandoned({r})
    BY DEF Fail, FailInto
  <2> QED
    BY <2>1, AbandonedFacts
<1>4. \A c \in calls' : c.by # None => state'[c.by] = "call"
  BY <1>3, CallFacts DEF TypeOK, SyncTypes, Fail, FailInto
<1> QED
  BY <1>1, <1>2, <1>3, <1>4 DEF TypeOK

(* The arrays after an append. *)
LEMMA WriteType ==
    ASSUME TypeOK, NEW c \in calls
    PROVE  /\ WriteTimes(c) => hubT' \in [Epochs -> Seq(Nat)]
           /\ WriteValues(c) => hubV' \in [Epochs -> Seq(Nat)]
           /\ WriteLength(c) => hubN' \in [Epochs -> Nat]
<1>1. /\ c.epoch \in Epochs /\ c.from \in Nat /\ c.to \in Nat /\ c.from < c.to
      /\ hubT[c.epoch] \in Seq(Nat) /\ hubV[c.epoch] \in Seq(Nat)
  BY CallFacts DEF TypeOK, HubTypes
<1>2. Samples(c.from, c.to) \in Seq(Nat)
  <2>1. c.from <= c.to
    BY <1>1
  <2> QED
    BY <1>1, <2>1, SamplesFacts
<1>3. hubT[c.epoch] \o Samples(c.from, c.to) \in Seq(Nat)
  BY <1>1, <1>2
<1>4. WrittenAt(hubV[c.epoch], Len(hubT[c.epoch]), Samples(c.from, c.to)) \in Seq(Nat)
  BY <1>1, <1>2, WrittenAtType
<1>5. Len(hubT[c.epoch]) + (c.to - c.from) \in Nat
  BY <1>1
<1>6. WriteTimes(c) => hubT' \in [Epochs -> Seq(Nat)]
  BY <1>3 DEF WriteTimes, TypeOK, HubTypes
<1>7. WriteValues(c) => hubV' \in [Epochs -> Seq(Nat)]
  BY <1>4 DEF WriteValues, TypeOK, HubTypes
<1>8. WriteLength(c) => hubN' \in [Epochs -> Nat]
  BY <1>5 DEF WriteLength, TypeOK, HubTypes
<1> QED
  BY <1>6, <1>7, <1>8

LEMMA ApplyType ==
    ASSUME TypeOK, NEW c \in calls, Apply(c) \/ \E both \in BOOLEAN : TornApply(c, both)
    PROVE  TypeOK'
<1>1. AppTypes'
  BY DEF TypeOK, AppTypes, Apply, TornApply, Fault, appVars
<1>2. SyncTypes'
  BY DEF TypeOK, SyncTypes, Apply, TornApply, AfterPass, syncVars
<1>3. HubTypes'
  <2>1. CASE Apply(c)
    BY <2>1, WriteType DEF Apply, HubTypes
  <2>2. CASE \E both \in BOOLEAN : TornApply(c, both)
    <3>1. hubT' \in [Epochs -> Seq(Nat)] /\ hubN' = hubN
      BY <2>2, WriteType DEF TornApply
    <3>2. WriteValues(c) \/ hubV' = hubV
      BY <2>2 DEF TornApply
    <3> QED
      BY <3>1, <3>2, WriteType DEF TypeOK, HubTypes
  <2> QED
    BY <2>1, <2>2
<1>4. calls' \in SUBSET calls /\ calls' \in SUBSET Call
  BY DEF TypeOK, Apply, TornApply
<1>5. \A d \in calls' : d.by # None => state'[d.by] = "call"
  BY CallFacts DEF TypeOK, SyncTypes, Apply, TornApply, syncVars
<1> QED
  BY <1>1, <1>2, <1>3, <1>4, <1>5 DEF TypeOK

LEMMA WipeType == ASSUME TypeOK, Wipe PROVE TypeOK'
<1>1. AppTypes' /\ HubTypes'
  BY DEF TypeOK, AppTypes, HubTypes, Wipe, Fault, appVars
<1>2. SyncTypes'
  BY DEF TypeOK, SyncTypes, Wipe, AfterPass
<1> QED
  BY <1>1, <1>2 DEF TypeOK, Wipe

LEMMA NextType == TypeOK /\ [Next]_vars => TypeOK'
<1> SUFFICES ASSUME TypeOK, [Next]_vars PROVE TypeOK'
  OBVIOUS
<1>1. CASE Feed \/ Flush
  BY <1>1, FeedType
<1>2. CASE CleanRestart \/ Crash
  <2>1. Restart /\ faults' \in Nat /\ local' \in [Epochs -> Nat]
    BY <1>2 DEF CleanRestart, Crash, Fault, TypeOK, AppTypes
  <2> QED
    BY <2>1, RestartType
<1>3. CASE Wipe
  BY <1>3, WipeType
<1>4. CASE \E r \in Runners : Start(r) \/ Stop(r) \/ Pass(r) \/ Fail(r)
  BY <1>4, RunnerType, BeginType, PushType, FailType DEF Pass
<1>5. CASE \E c \in calls : Apply(c) \/ \E both \in BOOLEAN : TornApply(c, both)
  BY <1>5, ApplyType
<1>6. CASE UNCHANGED vars
  BY <1>6 DEF vars, appVars, syncVars, hubVars, TypeOK, AppTypes, SyncTypes, HubTypes
<1> QED
  BY <1>1, <1>2, <1>3, <1>4, <1>5, <1>6 DEF Next

\* Every variable keeps its type, and a push belongs to the runner that waits
\* for it (SyncRunner, PushChunk), whatever the faults.
THEOREM SyncTypeCorrect == Spec => []TypeOK
  BY InitType, NextType, PTL DEF Spec

----------------------------------------------------------------------------
(* The hub mirrors what is recorded *)

NoHarm == Faults \cap Harmful = {}

(* One pass at a time, and every push is a pass's own. *)
Lone ==
    /\ \A r, q \in Runners : Busy(r) /\ Busy(q) => r = q
    /\ active # None => \A q \in Runners : Busy(q) => q = active
    /\ \A c \in calls : c.by # None

(* A pass is where the hub is, or where it will be when its push is carried out. *)
Placed ==
    /\ \A r \in Runners, e \in Epochs : Busy(r) =>
           /\ goal[r][e] <= local[e]
           /\ at[r][e] < goal[r][e] =>
                  at[r][e] = hubN[e] \/ \E c \in calls : c.epoch = e
    /\ \A c \in calls :
           /\ c.from = hubN[c.epoch]
           /\ c.to = at[c.by][c.epoch]
           /\ c.to <= goal[c.by][c.epoch]

MirrorInv == TypeOK /\ Lone /\ Placed /\ Mirrored

LEMMA EmptySamples == \A i \in Nat : Samples(i, i) = <<>>
  BY DEF Samples

LEMMA JoinedSamples ==
    ASSUME NEW i \in Nat, NEW j \in Nat, i <= j
    PROVE  Samples(0, i) \o Samples(i, j) = Samples(0, j)
<1>1. /\ 0 <= i /\ 0 <= j /\ 0 \in Nat
      /\ i - 0 = i /\ j - 0 = j
  OBVIOUS
<1>2. /\ Samples(0, i) \in Seq(Nat) /\ Len(Samples(0, i)) = i
      /\ \A k \in 1..i : Samples(0, i)[k] = 0 + k
  BY <1>1, SamplesFacts
<1>3. /\ Samples(i, j) \in Seq(Nat) /\ Len(Samples(i, j)) = j - i
      /\ \A k \in 1..(j - i) : Samples(i, j)[k] = i + k
  BY SamplesFacts
<1>4. /\ Samples(0, j) \in Seq(Nat) /\ Len(Samples(0, j)) = j
      /\ \A k \in 1..j : Samples(0, j)[k] = 0 + k
  BY <1>1, SamplesFacts
<1> DEFINE s == Samples(0, i)
           t == Samples(i, j)
           u == Samples(0, j)
<1> HIDE DEF s, t, u
<1>5. s \in Seq(Nat) /\ t \in Seq(Nat) /\ u \in Seq(Nat)
  BY <1>2, <1>3, <1>4 DEF s, t, u
<1>6. Len(s) = i /\ Len(t) = j - i /\ Len(u) = j
  BY <1>2, <1>3, <1>4 DEF s, t, u
<1>7. /\ s \o t \in Seq(Nat)
      /\ Len(s \o t) = Len(s) + Len(t)
      /\ \A k \in 1..(Len(s) + Len(t)) :
             (s \o t)[k] = IF k <= Len(s) THEN s[k] ELSE t[k - Len(s)]
  BY <1>5, ConcatProperties
<1>8. ASSUME NEW k \in 1..j PROVE (s \o t)[k] = u[k]
  <2>1. u[k] = k
    BY <1>4 DEF u
  <2>2. (s \o t)[k] = IF k <= i THEN s[k] ELSE t[k - i]
    BY <1>6, <1>7
  <2>3. CASE k <= i
    BY <2>1, <2>2, <2>3, <1>2 DEF s
  <2>4. CASE k > i
    <3>1. k - i \in 1..(j - i) /\ i + (k - i) = k
      BY <2>4
    <3>2. t[k - i] = i + (k - i)
      BY <3>1, <1>3 DEF t
    <3> QED
      BY <2>1, <2>2, <2>4, <3>1, <3>2
  <2>5. k \in Nat /\ i \in Nat
    OBVIOUS
  <2>6. k <= i \/ k > i
    BY <2>5
  <2> QED
    BY <2>3, <2>4, <2>6
<1>9. s \o t = u
  <2>1. Len(s \o t) = Len(u) /\ Len(s \o t) = j
    BY <1>6, <1>7
  <2>2. \A k \in 1..Len(s \o t) : (s \o t)[k] = u[k]
    BY <1>8, <2>1
  <2> QED
    BY <1>5, <1>7, <2>1, <2>2, SeqEqual
<1> QED
  BY <1>9 DEF s, t, u

LEMMA LoneFacts ==
    ASSUME TypeOK, Lone
    PROVE  /\ \A c \in calls : c \in Call /\ c.by \in Runners /\ state[c.by] = "call" /\ Busy(c.by)
           /\ \A c, d \in calls : c = d
           /\ \A c \in calls, r \in Runners : Busy(r) => r = c.by
<1>1. \A c \in calls : c \in Call /\ c.by \in Runners /\ state[c.by] = "call"
  BY CallFacts DEF TypeOK, Lone
<1>2. \A c \in calls : Busy(c.by)
  BY <1>1 DEF Busy
<1>3. \A c \in calls, r \in Runners : Busy(r) => r = c.by
  BY <1>1, <1>2 DEF Lone
<1>4. \A c, d \in calls : c = d
  BY <1>1, <1>2 DEF Lone, TypeOK
<1> QED
  BY <1>1, <1>2, <1>3, <1>4

LEMMA InitMirror == Init => MirrorInv
  BY InitType, EmptySamples DEF Init, MirrorInv, Lone, Placed, Mirrored, Busy

(* Samples recorded here only move the aim away. *)
LEMMA RecordMirror ==
    ASSUME MirrorInv, Feed \/ Flush
    PROVE  MirrorInv'
<1>1. TypeOK'
  BY FeedType DEF MirrorInv
<1>2. \A e \in Epochs : local'[e] \in Nat /\ local[e] \in Nat /\ local[e] <= local'[e]
  BY DEF Feed, Flush, MirrorInv, TypeOK, AppTypes
<1>3. \A e \in Epochs : hubN[e] \in Nat
  BY DEF MirrorInv, TypeOK, HubTypes
<1>4. \A r \in Runners, e \in Epochs : goal[r][e] \in Nat
  BY DEF MirrorInv, TypeOK, SyncTypes
<1>5. UNCHANGED <<syncVars, calls, hubVars>>
  BY DEF Feed, Flush
<1>6. Lone'
  BY <1>5 DEF MirrorInv, Lone, Busy, syncVars
<1>7. Placed'
  BY <1>2, <1>4, <1>5 DEF MirrorInv, Placed, Busy, syncVars, hubVars
<1>8. Mirrored'
  BY <1>2, <1>3, <1>5 DEF MirrorInv, Mirrored, hubVars
<1> QED
  BY <1>1, <1>6, <1>7, <1>8 DEF MirrorInv

(* The app ends: no pass and no push is left. *)
LEMMA RestartMirror ==
    ASSUME NoHarm, MirrorInv, CleanRestart \/ Crash
    PROVE  MirrorInv'
<1>1. Restart /\ faults' \in Nat /\ local' \in [Epochs -> Nat]
  BY DEF CleanRestart, Crash, Fault, MirrorInv, TypeOK, AppTypes
<1>2. TypeOK'
  BY <1>1, RestartType DEF MirrorInv
<1>3. calls' = {}
  <2>1. calls' \in Abandoned(Runners) /\ "late" \notin Faults
    BY <1>1 DEF Restart, NoHarm, Harmful
  <2>2. calls' = {c \in calls : c.by \notin Runners}
    BY <2>1, AbandonedFacts DEF MirrorInv
  <2> QED
    BY <2>2, LoneFacts DEF MirrorInv
<1>4. \A r \in Runners : ~Busy(r)'
  BY <1>1 DEF Restart, Busy, MirrorInv, TypeOK, SyncTypes
<1>5. \A e \in Epochs : local'[e] \in Nat /\ local[e] \in Nat /\ local[e] <= local'[e]
  BY DEF CleanRestart, Crash, MirrorInv, TypeOK, AppTypes
<1>6. Mirrored'
  <2>1. hubN' = hubN /\ hubT' = hubT /\ hubV' = hubV
    BY <1>1 DEF Restart, hubVars
  <2>2. \A e \in Epochs : hubN[e] \in Nat /\ hubN[e] <= local[e]
    BY DEF MirrorInv, Mirrored, TypeOK, HubTypes
  <2>3. \A e \in Epochs : hubN[e] <= local'[e]
    BY <2>2, <1>5
  <2> QED
    BY <2>1, <2>3 DEF MirrorInv, Mirrored
<1> QED
  BY <1>2, <1>3, <1>4, <1>6 DEF MirrorInv, Lone, Placed

LEMMA RunnerMirror ==
    ASSUME NoHarm, MirrorInv, NEW r \in Runners,
           Start(r) \/ Stop(r) \/ Reply(r) \/ EndPass(r)
    PROVE  MirrorInv'
<1>1. TypeOK'
  BY RunnerType DEF MirrorInv
<1>2. \A q \in Runners : Busy(q)' => Busy(q)
  BY DEF Start, Stop, Reply, EndPass, AfterPass, Busy, MirrorInv, TypeOK, SyncTypes
<1>3. UNCHANGED <<appVars, at, goal, calls, hubVars>>
  BY DEF Start, Stop, Reply, EndPass
<1>4. Lone'
  <2>1. CASE Start(r)
    <3>1. \A q \in Runners : ~Busy(q)
      BY <2>1 DEF Start, NoHarm, Harmful
    <3> QED
      BY <3>1, <1>2, <1>3 DEF MirrorInv, Lone
  <2>2. CASE Stop(r) \/ Reply(r) \/ EndPass(r)
    <3>1. active' = active \/ active' = None
      BY <2>2 DEF Stop, Reply, EndPass
    <3> QED
      BY <3>1, <1>2, <1>3 DEF MirrorInv, Lone
  <2> QED
    BY <2>1, <2>2
<1>5. Placed' /\ Mirrored'
  BY <1>2, <1>3 DEF MirrorInv, Placed, Mirrored, appVars, hubVars
<1> QED
  BY <1>1, <1>4, <1>5 DEF MirrorInv

LEMMA BeginMirror ==
    ASSUME MirrorInv, NEW r \in Runners, Begin(r)
    PROVE  MirrorInv'
<1>1. TypeOK'
  BY BeginType DEF MirrorInv
<1>2. \A q \in Runners : ~Busy(q)
  <2>1. active = r /\ r # None /\ ~Busy(r)
    BY SyncAssumption DEF Begin, BeginAt, Busy
  <2> QED
    BY <2>1 DEF MirrorInv, Lone
<1>3. /\ calls' = {} /\ active' = r
      /\ \A q \in Runners : Busy(q)' => q = r
  <2>1. calls' = calls /\ active' = active /\ active = r
    BY DEF Begin, BeginAt
  <2>2. calls = {}
    BY <1>2, LoneFacts DEF MirrorInv
  <2>3. \A q \in Runners \ {r} : state'[q] = state[q]
    BY DEF Begin, BeginAt, MirrorInv, TypeOK, SyncTypes
  <2> QED
    BY <2>1, <2>2, <2>3, <1>2 DEF Busy
<1>4. goal'[r] = local /\ at'[r] = hubN /\ local' = local /\ UNCHANGED hubVars
  BY DEF Begin, BeginAt, MirrorInv, TypeOK, SyncTypes, appVars
<1>5. Placed'
  BY <1>3, <1>4 DEF Placed, hubVars, MirrorInv, TypeOK, AppTypes
<1>6. Lone'
  BY <1>3 DEF Lone
<1>7. Mirrored'
  BY <1>4 DEF MirrorInv, Mirrored, hubVars
<1> QED
  BY <1>1, <1>5, <1>6, <1>7 DEF MirrorInv

LEMMA PushMirror ==
    ASSUME MirrorInv, NEW r \in Runners, NEW e \in Epochs, Push(r, e)
    PROVE  MirrorInv'
<1>1. PICK j \in Nat :
          /\ at[r][e] < j /\ j <= goal[r][e]
          /\ calls' = calls \cup {[by |-> r, epoch |-> e, from |-> at[r][e], to |-> j]}
          /\ at' = [at EXCEPT ![r] = [at[r] EXCEPT ![e] = j]]
  BY PushFacts DEF MirrorInv
<1>2. TypeOK'
  BY PushType DEF MirrorInv
<1>3. calls = {} /\ Busy(r)
  BY LoneFacts DEF MirrorInv, Push, Busy
<1>4. at[r][e] = hubN[e]
  <2>1. at[r][e] < goal[r][e]
    BY DEF Push
  <2> QED
    BY <1>3, <2>1 DEF MirrorInv, Placed
<1> DEFINE new == [by |-> r, epoch |-> e, from |-> at[r][e], to |-> j]
<1>5. calls' = {new} /\ new.by = r /\ new.epoch = e /\ new.from = hubN[e] /\ new.to = j
  BY <1>1, <1>3, <1>4
<1>6. at'[r][e] = j /\ \A f \in Epochs \ {e} : at'[r][f] = at[r][f]
  BY <1>1 DEF MirrorInv, TypeOK, SyncTypes
<1>7. \A q \in Runners : Busy(q)' => q = r
  BY <1>3 DEF Push, Busy, MirrorInv, Lone, TypeOK, SyncTypes
<1>8. UNCHANGED <<appVars, goal, hubVars>>
  BY DEF Push
<1> HIDE DEF new
<1>9. Lone'
  <2>1. active # None => active = r
    BY <1>3 DEF MirrorInv, Lone
  <2>2. active' = active
    BY DEF Push
  <2> QED
    BY <1>5, <1>7, <2>1, <2>2, SyncAssumption DEF Lone
<1>10. Placed'
  <2>1. ASSUME NEW q \in Runners, NEW f \in Epochs, Busy(q)'
        PROVE  /\ goal'[q][f] <= local'[f]
               /\ at'[q][f] < goal'[q][f] =>
                      at'[q][f] = hubN'[f] \/ \E c \in calls' : c.epoch = f
    <3>1. q = r
      BY <2>1, <1>7
    <3>2. goal'[q][f] <= local'[f]
      BY <3>1, <1>3, <1>8 DEF MirrorInv, Placed, appVars
    <3>3. CASE f = e
      BY <3>2, <3>3, <1>5
    <3>4. CASE f # e
      BY <3>1, <3>2, <3>4, <1>3, <1>6, <1>8 DEF MirrorInv, Placed, hubVars
    <3> QED
      BY <3>3, <3>4
  <2>2. \A c \in calls' : /\ c.from = hubN'[c.epoch]
                          /\ c.to = at'[c.by][c.epoch]
                          /\ c.to <= goal'[c.by][c.epoch]
    BY <1>1, <1>5, <1>6, <1>8 DEF hubVars
  <2> QED
    BY <2>1, <2>2 DEF Placed
<1>11. Mirrored'
  BY <1>8 DEF MirrorInv, Mirrored, appVars, hubVars
<1> QED
  BY <1>2, <1>9, <1>10, <1>11 DEF MirrorInv

LEMMA FailMirror ==
    ASSUME NoHarm, MirrorInv, NEW r \in Runners, Fail(r)
    PROVE  MirrorInv'
<1>1. TypeOK'
  BY FailType DEF MirrorInv
<1>2. Busy(r)
  BY DEF Fail, FailInto, Busy
<1>3. calls' = {}
  <2>1. calls' \in Abandoned({r}) /\ "late" \notin Faults
    BY DEF Fail, FailInto, NoHarm, Harmful
  <2>2. calls' = {c \in calls : c.by \notin {r}}
    BY <2>1, AbandonedFacts DEF MirrorInv
  <2> QED
    BY <1>2, <2>2, LoneFacts DEF MirrorInv
<1>4. \A q \in Runners : ~Busy(q)'
  BY <1>2 DEF Fail, FailInto, AfterPass, Busy, MirrorInv, Lone, TypeOK, SyncTypes
<1>5. Mirrored'
  BY DEF Fail, FailInto, MirrorInv, Mirrored, appVars, hubVars
<1> QED
  BY <1>1, <1>3, <1>4, <1>5 DEF MirrorInv, Lone, Placed

(* The hub carries out the push: its copy grows from where it was. *)
LEMMA Written ==
    ASSUME MirrorInv, NEW c \in calls, Apply(c)
    PROVE  /\ c.epoch \in Epochs /\ c.to \in Nat /\ hubN[c.epoch] < c.to /\ c.to <= local[c.epoch]
           /\ hubT' = [hubT EXCEPT ![c.epoch] = Samples(0, c.to)]
           /\ hubV' = [hubV EXCEPT ![c.epoch] = Samples(0, c.to)]
           /\ hubN' = [hubN EXCEPT ![c.epoch] = c.to]
<1> DEFINE e == c.epoch
<1>1. /\ c \in Call /\ e \in Epochs /\ c.by \in Runners /\ Busy(c.by)
      /\ c.from \in Nat /\ c.to \in Nat /\ c.from < c.to /\ c.from = hubN[e]
  BY CallFacts, LoneFacts DEF MirrorInv, TypeOK, Placed
<1>2. c.to <= local[e]
  <2>1. c.to <= goal[c.by][e] /\ goal[c.by][e] <= local[e]
    BY <1>1 DEF MirrorInv, Placed
  <2>2. goal[c.by][e] \in Nat /\ local[e] \in Nat
    BY <1>1 DEF MirrorInv, TypeOK, SyncTypes, AppTypes
  <2> QED
    BY <1>1, <2>1, <2>2
<1>3. hubT[e] = Samples(0, c.from) /\ hubV[e] = Samples(0, c.from)
  BY <1>1 DEF MirrorInv, Mirrored
<1>4. Len(hubT[e]) = c.from /\ Len(hubV[e]) = c.from
  <2>1. 0 <= c.from
    BY <1>1
  <2>2. Len(Samples(0, c.from)) = c.from - 0
    BY <1>1, <2>1, SamplesFacts
  <2> QED
    BY <1>1, <1>3, <2>2
<1>5. Samples(0, c.from) \o Samples(c.from, c.to) = Samples(0, c.to)
  <2>1. c.from <= c.to
    BY <1>1
  <2> QED
    BY <1>1, <2>1, JoinedSamples
<1>6. WrittenAt(hubV[e], Len(hubT[e]), Samples(c.from, c.to)) = Samples(0, c.to)
  <2>1. [k \in 1..(Len(hubT[e]) - Len(hubV[e])) |-> 0] = <<>>
    BY <1>1, <1>4
  <2>2. hubV[e] \in Seq(Nat)
    BY <1>1 DEF MirrorInv, TypeOK, HubTypes
  <2>3. hubV[e] \o <<>> = hubV[e]
    BY <2>2
  <2> QED
    BY <1>3, <1>5, <2>1, <2>3 DEF WrittenAt
<1>7. Len(hubT[e]) + (c.to - c.from) = c.to
  BY <1>1, <1>4
<1>8. hubT' = [hubT EXCEPT ![e] = Samples(0, c.to)]
  BY <1>3, <1>5 DEF Apply, WriteTimes
<1>9. hubV' = [hubV EXCEPT ![e] = Samples(0, c.to)]
  BY <1>6 DEF Apply, WriteValues
<1>10. hubN' = [hubN EXCEPT ![e] = c.to]
  BY <1>7 DEF Apply, WriteLength
<1> QED
  BY <1>1, <1>2, <1>8, <1>9, <1>10

LEMMA ApplyMirror ==
    ASSUME MirrorInv, NEW c \in calls, Apply(c)
    PROVE  MirrorInv'
<1>1. TypeOK'
  BY ApplyType DEF MirrorInv
<1>2. calls' = {}
  BY LoneFacts DEF Apply, MirrorInv
<1>3. UNCHANGED <<local, active, state, at, goal>>
  BY DEF Apply, appVars, syncVars
<1>4. Lone'
  BY <1>2, <1>3 DEF MirrorInv, Lone, Busy
<1>5. Placed'
  <2> SUFFICES ASSUME NEW r \in Runners, NEW e \in Epochs, Busy(r)
               PROVE  /\ goal[r][e] <= local[e]
                      /\ at[r][e] < goal[r][e] => at[r][e] = hubN'[e]
    BY <1>2, <1>3 DEF Placed, Busy
  <2>1. goal[r][e] <= local[e]
    BY DEF MirrorInv, Placed
  <2>2. r = c.by
    BY LoneFacts DEF MirrorInv
  <2>3. CASE e = c.epoch
    <3>1. at[r][e] = c.to
      BY <2>2, <2>3 DEF MirrorInv, Placed
    <3> QED
      BY <2>1, <2>3, <3>1, Written DEF MirrorInv, TypeOK, HubTypes
  <2>4. CASE e # c.epoch
    <3>1. hubN'[e] = hubN[e]
      BY <2>4, Written DEF MirrorInv, TypeOK, HubTypes
    <3>2. \A d \in calls : d.epoch # e
      BY <2>4, LoneFacts DEF MirrorInv
    <3> QED
      BY <2>1, <3>1, <3>2 DEF MirrorInv, Placed
  <2> QED
    BY <2>3, <2>4
<1>6. Mirrored'
  <2> SUFFICES ASSUME NEW e \in Epochs
               PROVE  /\ hubN'[e] <= local[e]
                      /\ hubT'[e] = Samples(0, hubN'[e])
                      /\ hubV'[e] = Samples(0, hubN'[e])
    BY <1>3 DEF Mirrored
  <2>1. CASE e = c.epoch
    BY <2>1, Written DEF MirrorInv, TypeOK, HubTypes
  <2>2. CASE e # c.epoch
    BY <2>2, Written DEF MirrorInv, Mirrored, TypeOK, HubTypes
  <2> QED
    BY <2>1, <2>2
<1> QED
  BY <1>1, <1>4, <1>5, <1>6 DEF MirrorInv

LEMMA WipeMirror ==
    ASSUME NoHarm, MirrorInv, Wipe
    PROVE  MirrorInv'
<1>1. TypeOK'
  BY WipeType DEF MirrorInv
<1>2. \A r \in Runners : ~Busy(r)
  BY DEF Wipe, NoHarm, Harmful
<1>3. \A r \in Runners : ~Busy(r)'
  BY <1>2 DEF Wipe, Busy, AfterPass, MirrorInv, TypeOK, SyncTypes
<1>4. calls' = {} /\ UNCHANGED local
  BY DEF Wipe, appVars
<1>5. Mirrored'
  BY <1>4, EmptySamples DEF Wipe, Mirrored, MirrorInv, TypeOK, AppTypes
<1> QED
  BY <1>1, <1>3, <1>4, <1>5 DEF MirrorInv, Lone, Placed

LEMMA NextMirror == ASSUME NoHarm PROVE MirrorInv /\ [Next]_vars => MirrorInv'
<1> SUFFICES ASSUME MirrorInv, [Next]_vars PROVE MirrorInv'
  OBVIOUS
<1>1. CASE Feed \/ Flush
  BY <1>1, RecordMirror
<1>2. CASE CleanRestart \/ Crash
  BY <1>2, RestartMirror
<1>3. CASE Wipe
  BY <1>3, WipeMirror
<1>4. CASE \E r \in Runners : Start(r) \/ Stop(r) \/ Pass(r) \/ Fail(r)
  BY <1>4, RunnerMirror, BeginMirror, PushMirror, FailMirror DEF Pass
<1>5. CASE \E c \in calls : Apply(c) \/ \E both \in BOOLEAN : TornApply(c, both)
  <2>1. ASSUME NEW c \in calls, NEW both \in BOOLEAN, TornApply(c, both) PROVE FALSE
    BY <2>1 DEF TornApply, Fault, NoHarm, Harmful
  <2> QED
    BY <1>5, <2>1, ApplyMirror
<1>6. CASE UNCHANGED vars
  <2>1. TypeOK'
    BY <1>6, NextType DEF MirrorInv
  <2> QED
    BY <1>6, <2>1 DEF vars, appVars, syncVars, hubVars, MirrorInv, Lone, Placed, Mirrored, Busy
<1> QED
  BY <1>1, <1>2, <1>3, <1>4, <1>5, <1>6 DEF Next

\* The hub's copy of each epoch is a prefix of it (SyncEngine.sync_once,
\* ZarrStore.append), whatever pushes fail, apps crash and stores are wiped
\* between passes.
THEOREM SyncMirrored == ASSUME NoHarm PROVE Spec => []Mirrored
<1>1. MirrorInv => Mirrored
  BY DEF MirrorInv
<1> QED
  BY <1>1, InitMirror, NextMirror, PTL DEF Spec

----------------------------------------------------------------------------
(* The system implements EpochMirror *)

LEMMA Longer ==
    ASSUME NEW i \in Nat, NEW j \in Nat, i <= j
    PROVE  /\ Promise!IsPrefix(Samples(0, i), Samples(0, j))
           /\ i < j => Promise!IsStrictPrefix(Samples(0, i), Samples(0, j))
<1>1. /\ 0 <= i /\ 0 <= j /\ 0 \in Nat
      /\ i - 0 = i /\ j - 0 = j
  OBVIOUS
<1>2. /\ Samples(0, i) \in Seq(Nat) /\ Len(Samples(0, i)) = i
      /\ \A k \in 1..i : Samples(0, i)[k] = 0 + k
  BY <1>1, SamplesFacts
<1>3. /\ Samples(0, j) \in Seq(Nat) /\ Len(Samples(0, j)) = j
      /\ \A k \in 1..j : Samples(0, j)[k] = 0 + k
  BY <1>1, SamplesFacts
<1> DEFINE s == Samples(0, i)
           t == Samples(0, j)
<1> HIDE DEF s, t
<1>4. /\ s \in Seq(Nat) /\ t \in Seq(Nat) /\ Len(s) = i /\ Len(t) = j
      /\ \A k \in 1..i : s[k] = k /\ t[k] = k
  BY <1>2, <1>3 DEF s, t
<1>5. SubSeq(s, 1, i) = SubSeq(t, 1, i)
  <2>1. SubSeq(s, 1, i) \in Seq(Nat) /\ SubSeq(t, 1, i) \in Seq(Nat)
    BY <1>4
  <2>2. Len(SubSeq(s, 1, i)) = i /\ Len(SubSeq(t, 1, i)) = i
    BY <1>4
  <2>3. \A k \in 1..i : SubSeq(s, 1, i)[k] = SubSeq(t, 1, i)[k]
    BY <1>4
  <2> QED
    BY <2>1, <2>2, <2>3
<1>6. i < j => s # t
  BY <1>4
<1>7. Promise!IsPrefix(s, t) /\ (i < j => Promise!IsStrictPrefix(s, t))
  BY <1>4, <1>5, <1>6 DEF Promise!IsPrefix, Promise!IsStrictPrefix
<1> QED
  BY <1>7 DEF s, t

ledger == [e \in Epochs |-> Samples(0, local[e])]

LEMMA InitImplements == Init => Promise!Init
  BY EmptySamples DEF Init, Promise!Init

(* Samples that reach the local store are one step of the ledger. *)
LEMMA RecordStep ==
    ASSUME TypeOK, local' = [local EXCEPT ![epoch] = @ + buf], UNCHANGED hubT
    PROVE  Promise!Record \/ UNCHANGED <<ledger, hubT>>
<1>1. local[epoch] \in Nat /\ buf \in Nat /\ epoch \in Epochs /\ local[epoch] + buf \in Nat
  BY DEF TypeOK, AppTypes
<1>2. CASE buf = 0
  <2>1. local' = local
    BY <1>1, <1>2 DEF TypeOK, AppTypes
  <2> QED
    BY <2>1 DEF ledger
<1>3. CASE buf > 0
  <2>1. local'[epoch] = local[epoch] + buf
    BY <1>1 DEF TypeOK, AppTypes
  <2>2. \A f \in Epochs \ {epoch} : local'[f] = local[f]
    BY DEF TypeOK, AppTypes
  <2>3. local[epoch] < local[epoch] + buf /\ local[epoch] <= local[epoch] + buf
    BY <1>1, <1>3
  <2>4. Promise!IsStrictPrefix(Samples(0, local[epoch]), Samples(0, local'[epoch]))
    BY <1>1, <2>1, <2>3, Longer
  <2>5. Promise!Grows(ledger, ledger', epoch)
    BY <1>1, <2>2, <2>4 DEF Promise!Grows, ledger
  <2> QED
    BY <1>1, <2>5 DEF Promise!Record, Promise!Grows, ledger
<1> QED
  BY <1>1, <1>2, <1>3

LEMMA ApplyStep ==
    ASSUME MirrorInv, NEW c \in calls, Apply(c)
    PROVE  Promise!Copy
<1> DEFINE e == c.epoch
<1>1. /\ e \in Epochs /\ c.to \in Nat /\ hubN[e] < c.to /\ c.to <= local[e]
      /\ hubT' = [hubT EXCEPT ![e] = Samples(0, c.to)] /\ local' = local
  BY Written DEF Apply, appVars
<1>2. hubN[e] \in Nat /\ local[e] \in Nat /\ hubN[e] <= c.to
  BY <1>1 DEF MirrorInv, TypeOK, HubTypes, AppTypes
<1>3. hubT[e] = Samples(0, hubN[e])
  BY <1>1 DEF MirrorInv, Mirrored
<1>4. hubT'[e] = Samples(0, c.to) /\ \A f \in Epochs \ {e} : hubT'[f] = hubT[f]
  BY <1>1 DEF MirrorInv, TypeOK, HubTypes
<1>5. Promise!IsStrictPrefix(hubT[e], hubT'[e])
  BY <1>1, <1>2, <1>3, <1>4, Longer
<1>6. Promise!IsPrefix(hubT'[e], Samples(0, local[e]))
  BY <1>1, <1>2, <1>4, Longer
<1> QED
  BY <1>1, <1>4, <1>5, <1>6 DEF Promise!Copy, Promise!Grows

LEMMA NextImplements ==
    ASSUME NoHarm, MirrorInv, [Next]_vars
    PROVE  \/ Promise!Record \/ Promise!Copy \/ Promise!Wipe
           \/ UNCHANGED <<ledger, hubT>>
<1>1. CASE Flush \/ CleanRestart
  <2>1. local' = [local EXCEPT ![epoch] = @ + buf] /\ hubT' = hubT
    BY <1>1 DEF Flush, CleanRestart, Restart, hubVars
  <2> QED
    BY <2>1, RecordStep DEF MirrorInv
<1>2. CASE \E c \in calls : Apply(c)
  BY <1>2, ApplyStep
<1>3. CASE Wipe
  BY <1>3 DEF Wipe, Promise!Wipe, appVars
<1>4. CASE \/ Feed \/ Crash \/ UNCHANGED vars
           \/ \E r \in Runners : Start(r) \/ Stop(r) \/ Pass(r) \/ Fail(r)
  <2>1. local' = local /\ hubT' = hubT
    BY <1>4 DEF Feed, Crash, Restart, Start, Stop, Pass, Begin, BeginAt, Push, Reply,
                EndPass, Fail, FailInto, vars, appVars, hubVars
  <2> QED
    BY <2>1 DEF ledger
<1>5. ASSUME NEW c \in calls, NEW both \in BOOLEAN, TornApply(c, both) PROVE FALSE
  BY <1>5 DEF TornApply, Fault, NoHarm, Harmful
<1> QED
  BY <1>1, <1>2, <1>3, <1>4, <1>5 DEF Next

\* The writer, the sync and the hub's store implement EpochMirror: epochs only
\* grow, and the hub's copies grow after them or are wiped.
THEOREM SyncImplements == ASSUME NoHarm PROVE Spec => Implements
<1>1. MirrorInv /\ [Next]_vars =>
          [Promise!Record \/ Promise!Copy \/ Promise!Wipe]_<<ledger, hubT>>
  BY NextImplements
<1> QED
  BY <1>1, InitMirror, NextMirror, InitImplements, PTL DEF Spec, Implements, Promise!Spec, ledger

----------------------------------------------------------------------------
(* Values and timestamps, under every fault.                                *)

AlignedArrays(t, v, n) ==
    /\ Len(v) <= Len(t) /\ n <= Len(v)
    /\ \A k \in DOMAIN v : v[k] \in {0, t[k]}

LEMMA ConcatAt ==
    ASSUME NEW q \in Seq(Nat), NEW r \in Seq(Nat)
    PROVE  /\ q \o r \in Seq(Nat) /\ Len(q \o r) = Len(q) + Len(r)
           /\ \A k \in 1..Len(q) : (q \o r)[k] = q[k]
           /\ \A k \in 1..(Len(q) + Len(r)) : k > Len(q) => (q \o r)[k] = r[k - Len(q)]
  OBVIOUS

(* A piece that is written behind the timestamps stands in both arrays at    *)
(* the same place, if values were missing before it, too.                    *)
LEMMA WrittenAligned ==
    ASSUME NEW t \in Seq(Nat), NEW v \in Seq(Nat), NEW n \in Nat, NEW new \in Seq(Nat),
           AlignedArrays(t, v, n)
    PROVE  /\ AlignedArrays(t \o new, v, n)
           /\ AlignedArrays(t \o new, WrittenAt(v, Len(t), new), n)
           /\ AlignedArrays(t \o new, WrittenAt(v, Len(t), new), Len(t) + Len(new))
<1> DEFINE z == [k \in 1..(Len(t) - Len(v)) |-> 0]
           w == v \o z \o new
           u == t \o new
<1>1. /\ Len(t) \in Nat /\ Len(v) \in Nat /\ Len(new) \in Nat
      /\ Len(v) <= Len(t) /\ n <= Len(v) /\ \A k \in 1..Len(v) : v[k] \in {0, t[k]}
  BY DEF AlignedArrays
<1>2. z \in Seq(Nat) /\ Len(z) = Len(t) - Len(v) /\ \A k \in 1..Len(z) : z[k] = 0
  BY <1>1
<1>3. u \in Seq(Nat) /\ Len(u) = Len(t) + Len(new)
      /\ (\A k \in 1..Len(t) : u[k] = t[k])
      /\ (\A k \in 1..Len(u) : k > Len(t) => u[k] = new[k - Len(t)])
  OBVIOUS
<1> HIDE DEF z
<1> DEFINE x == v \o z
<1>4. x \in Seq(Nat) /\ Len(x) = Len(t)
      /\ (\A k \in 1..Len(v) : x[k] = v[k])
      /\ (\A k \in 1..Len(x) : k > Len(v) => x[k] = z[k - Len(v)])
  BY <1>1, <1>2
<1> HIDE DEF x, u
<1>5. \A k \in 1..Len(t) : x[k] \in {0, t[k]}
  <2> SUFFICES ASSUME NEW k \in 1..Len(t) PROVE x[k] \in {0, t[k]}
    OBVIOUS
  <2>1. CASE k <= Len(v)
    <3>1. k \in 1..Len(v)
      BY <1>1, <2>1
    <3>2. x[k] = v[k] /\ v[k] \in {0, t[k]}
      BY <1>1, <1>4, <3>1
    <3> QED
      BY <3>2
  <2>2. CASE k > Len(v)
    <3>1. k - Len(v) \in 1..Len(z) /\ k \in 1..Len(x)
      BY <1>1, <1>2, <1>4, <2>2
    <3> QED
      BY <1>2, <1>4, <2>2, <3>1
  <2> QED
    BY <1>1, <2>1, <2>2
<1>6. x \o new \in Seq(Nat) /\ Len(x \o new) = Len(t) + Len(new)
      /\ (\A k \in 1..Len(t) : (x \o new)[k] = x[k])
      /\ (\A k \in 1..(Len(t) + Len(new)) :
             k > Len(t) => (x \o new)[k] = new[k - Len(t)])
  <2>1. x \in Seq(Nat) /\ Len(x) = Len(t)
    BY <1>4
  <2>2. /\ x \o new \in Seq(Nat) /\ Len(x \o new) = Len(x) + Len(new)
        /\ \A k \in 1..Len(x) : (x \o new)[k] = x[k]
        /\ \A k \in 1..(Len(x) + Len(new)) :
              k > Len(x) => (x \o new)[k] = new[k - Len(x)]
    BY <2>1, ConcatAt
  <2> QED
    BY <2>1, <2>2
<1> DEFINE y == x \o new
<1>7. WrittenAt(v, Len(t), new) = y
  BY DEF WrittenAt, x, z
<1>8. DOMAIN y = 1..Len(u) /\ Len(y) = Len(u)
  BY <1>1, <1>3, <1>6
<1>9. \A k \in 1..Len(u) : y[k] \in {0, u[k]}
  <2> SUFFICES ASSUME NEW k \in 1..Len(u) PROVE y[k] \in {0, u[k]}
    OBVIOUS
  <2> HIDE DEF y
  <2>1. CASE k <= Len(t)
    BY <1>1, <1>3, <1>5, <1>6, <2>1, SMTT(30) DEF y
  <2>2. CASE k > Len(t)
    BY <1>1, <1>3, <1>6, <2>2 DEF y
  <2> QED
    BY <1>1, <1>3, <2>1, <2>2
<1> HIDE DEF y
<1>10. AlignedArrays(u, y, n) /\ AlignedArrays(u, y, Len(t) + Len(new))
  BY <1>1, <1>3, <1>8, <1>9 DEF AlignedArrays
<1>11. AlignedArrays(u, v, n)
  BY <1>1, <1>3, SMTT(30) DEF AlignedArrays
<1> QED
  BY <1>7, <1>10, <1>11 DEF u

LEMMA ApplyAligned ==
    ASSUME TypeOK, Aligned, NEW c \in calls,
           Apply(c) \/ \E both \in BOOLEAN : TornApply(c, both)
    PROVE  Aligned'
<1> DEFINE f == c.epoch
           new == Samples(c.from, c.to)
           written == WrittenAt(hubV[f], Len(hubT[f]), new)
<1>1. /\ c \in Call /\ f \in Epochs /\ c.from \in Nat /\ c.to \in Nat /\ c.from < c.to
      /\ hubT[f] \in Seq(Nat) /\ hubV[f] \in Seq(Nat) /\ hubN[f] \in Nat
  BY CallFacts DEF TypeOK, HubTypes
<1>2. new \in Seq(Nat) /\ Len(new) = c.to - c.from
  <2>1. c.from <= c.to
    BY <1>1
  <2> QED
    BY <1>1, <2>1, SamplesFacts
<1>3. AlignedArrays(hubT[f], hubV[f], hubN[f])
  BY <1>1 DEF Aligned, AlignedArrays
<1>4. /\ hubT' = [hubT EXCEPT ![f] = hubT[f] \o new]
      /\ hubV' \in {hubV, [hubV EXCEPT ![f] = written]}
      /\ hubN' \in {hubN, [hubN EXCEPT ![f] = Len(hubT[f]) + (c.to - c.from)]}
      /\ hubN' = hubN \/ hubV' = [hubV EXCEPT ![f] = written]
  BY DEF Apply, TornApply, WriteTimes, WriteValues, WriteLength
<1> HIDE DEF new, written
<1>5. /\ hubT'[f] = hubT[f] \o new
      /\ \/ hubV'[f] = hubV[f] /\ hubN'[f] = hubN[f]
         \/ hubV'[f] = written /\ hubN'[f] = hubN[f]
         \/ hubV'[f] = written /\ hubN'[f] = Len(hubT[f]) + Len(new)
  BY <1>1, <1>2, <1>4 DEF TypeOK, HubTypes
<1>6. AlignedArrays(hubT'[f], hubV'[f], hubN'[f])
  <2>1. /\ AlignedArrays(hubT[f] \o new, hubV[f], hubN[f])
        /\ AlignedArrays(hubT[f] \o new, written, hubN[f])
        /\ AlignedArrays(hubT[f] \o new, written, Len(hubT[f]) + Len(new))
    BY <1>1, <1>2, <1>3, WrittenAligned DEF written
  <2> QED
    BY <1>5, <2>1
<1>7. \A e \in Epochs : e # f => /\ hubT'[e] = hubT[e] /\ hubV'[e] = hubV[e]
                                 /\ hubN'[e] = hubN[e]
  BY <1>1, <1>4 DEF TypeOK, HubTypes
<1>8. \A e \in Epochs : AlignedArrays(hubT'[e], hubV'[e], hubN'[e])
  <2> SUFFICES ASSUME NEW e \in Epochs PROVE AlignedArrays(hubT'[e], hubV'[e], hubN'[e])
    OBVIOUS
  <2>1. CASE e = f
    BY <1>6, <2>1
  <2>2. CASE e # f
    BY <1>7, <2>2 DEF Aligned, AlignedArrays
  <2> QED
    BY <2>1, <2>2
<1> QED
  BY <1>8 DEF Aligned, AlignedArrays

\* A value never stands under another's timestamp at the hub, with pushes that
\* are carried out late, passes that overlap, appends that break off and stores
\* that are wiped in the middle of a pass.
THEOREM SyncAligned == Spec => []Aligned
<1>1. Init => Aligned
  BY DEF Init, Aligned
<1>2. TypeOK /\ Aligned /\ [Next]_vars => Aligned'
  <2> SUFFICES ASSUME TypeOK, Aligned, [Next]_vars PROVE Aligned'
    OBVIOUS
  <2>1. CASE Wipe
    BY <2>1 DEF Wipe, Aligned
  <2>2. CASE \E c \in calls : Apply(c) \/ \E both \in BOOLEAN : TornApply(c, both)
    BY <2>2, ApplyAligned
  <2>3. CASE UNCHANGED hubVars
    BY <2>3 DEF hubVars, Aligned
  <2> QED
    BY <2>1, <2>2, <2>3 DEF Next, Feed, Flush, CleanRestart, Crash, Restart, Start, Stop,
       Pass, Begin, BeginAt, Reply, EndPass, Push, Fail, FailInto, vars
<1> QED
  BY <1>1, <1>2, InitType, NextType, PTL DEF Spec

============================================================================
