----------------------------- MODULE EpochSync -----------------------------
(***************************************************************************)
(* Store-and-forward of one source's samples: the StoreWriter, which       *)
(* buffers readings and appends them to the epoch of the app session, the  *)
(* local store, the background SyncRunner, whose passes push what the      *)
(* hub's store lacks, and the hub's store, which appends what it is pushed.*)
(*                                                                         *)
(* The k-th sample of an epoch is the number k.  A push carries no         *)
(* position: the hub appends it to whatever it has.  It has two arrays and *)
(* a length, written one after the other and read back separately.         *)
(***************************************************************************)
EXTENDS Naturals, Sequences, FiniteSets, SequencesExt

CONSTANTS LastEpoch,    \* bound: number of app sessions
          Runners,      \* sync runner identities: one for each connect
          ChunkSize,    \* samples pushed at once
          MaxSamples,   \* bound on the readings taken
          MaxFaults,    \* bound on faults
          Faults,       \* those that happen: subset of Kinds
          None

\* A push that fails, an app that dies with its buffer, a hub that comes back
\* with an empty store between two passes.
Harmless == {"fail", "crash", "wipe"}

\* A push the hub still carries out after the client gave it up; a runner that
\* starts while the pass of its predecessor still runs; an append that breaks
\* off half-way; a store that is wiped during a pass.
Harmful == {"late", "overlap", "torn", "rewind"}

ASSUME SyncAssumption ==
    /\ LastEpoch \in Nat \ {0} /\ ChunkSize \in Nat \ {0}
    /\ MaxSamples \in Nat /\ MaxFaults \in Nat
    /\ Faults \subseteq Harmless \cup Harmful
    /\ None \notin Runners

Epochs == 1..LastEpoch

VARIABLES
    \* the app
    buf,      \* samples in the writer's buffer
    local,    \* epoch -> samples in the local store
    epoch,    \* epoch of this app session
    \* its sync runners
    active,   \* the runner that was started and not stopped
    state,    \* runner -> what it does
    at,       \* runner -> epoch -> first sample it has not pushed in this pass
    goal,     \* runner -> epoch -> samples there were when the pass began
    calls,    \* pushes under way to the hub
    \* the hub's store
    hubT, hubV,  \* epoch -> array of timestamps, of values
    hubN,        \* epoch -> recorded length
    faults       \* faults so far (model bound)

appVars  == <<buf, local, epoch>>
syncVars == <<active, state, at, goal>>
hubVars  == <<hubT, hubV, hubN>>
vars == <<appVars, syncVars, calls, hubVars, faults>>

Call == [by : Runners \cup {None}, epoch : Epochs, from : Nat, to : Nat]

Busy(r) == state[r] \in {"pass", "call"}

\* Samples number i+1 to j.
Samples(i, j) == [k \in 1..(j - i) |-> i + k]

Init ==
    /\ buf = 0 /\ epoch = 1
    /\ local = [e \in Epochs |-> 0]
    /\ active = None
    /\ state = [r \in Runners |-> "new"]
    /\ at = [r \in Runners |-> [e \in Epochs |-> 0]]
    /\ goal = [r \in Runners |-> [e \in Epochs |-> 0]]
    /\ calls = {}
    /\ hubT = [e \in Epochs |-> <<>>]
    /\ hubV = [e \in Epochs |-> <<>>]
    /\ hubN = [e \in Epochs |-> 0]
    /\ faults = 0

Fault(kind) ==
    /\ kind \in Faults
    /\ faults < MaxFaults
    /\ faults' = faults + 1

----------------------------------------------------------------------------
(* StoreWriter and the local store *)

Feed ==
    /\ buf + local[epoch] < MaxSamples
    /\ buf' = buf + 1
    /\ UNCHANGED <<local, epoch, syncVars, calls, hubVars, faults>>

\* The buffer is full, two seconds have passed, or a recording stops.
Flush ==
    /\ buf > 0
    /\ local' = [local EXCEPT ![epoch] = @ + buf]
    /\ buf' = 0
    /\ UNCHANGED <<epoch, syncVars, calls, hubVars, faults>>

\* What may be left of the pushes of runners that gave up.
Abandoned(rs) ==
    LET theirs == {c \in calls : c.by \in rs} IN
    IF "late" \in Faults
    THEN {(calls \ theirs) \cup {[c EXCEPT !.by = None] : c \in kept} :
          kept \in SUBSET theirs}
    ELSE {calls \ theirs}

\* The app ends and starts again, in an epoch of its own.  A clean stop
\* flushes the buffer.
Restart ==
    /\ epoch < LastEpoch
    /\ epoch' = epoch + 1
    /\ active' = None
    /\ state' = [r \in Runners |-> IF state[r] = "new" THEN "new" ELSE "gone"]
    /\ calls' \in Abandoned(Runners)
    /\ buf' = 0
    /\ UNCHANGED <<at, goal, hubVars>>

CleanRestart ==
    /\ Restart
    /\ local' = [local EXCEPT ![epoch] = @ + buf]
    /\ UNCHANGED faults

Crash ==
    /\ Restart
    /\ Fault("crash")
    /\ UNCHANGED local

----------------------------------------------------------------------------
(* SyncRunner: a worker thread for each connect *)

Start(r) ==
    /\ active = None /\ state[r] = "new"
    /\ "overlap" \in Faults \/ \A q \in Runners : ~Busy(q)
    /\ active' = r
    /\ state' = [state EXCEPT ![r] = "asleep"]
    /\ UNCHANGED <<appVars, at, goal, calls, hubVars, faults>>

\* The worker is told to stop and waited for, but not for longer than two
\* seconds; a pass that runs goes on to its end.
Stop(r) ==
    /\ active = r
    /\ active' = None
    /\ state' = [state EXCEPT ![r] = IF @ = "asleep" THEN "gone" ELSE @]
    /\ UNCHANGED <<appVars, at, goal, calls, hubVars, faults>>

\* A pass: the hub's lengths are the truth, the local ones the aim.
BeginAt(r, remote) ==
    /\ active = r /\ state[r] = "asleep"
    /\ at' = [at EXCEPT ![r] = remote]
    /\ goal' = [goal EXCEPT ![r] = local]
    /\ state' = [state EXCEPT ![r] = "pass"]
    /\ UNCHANGED <<appVars, active, calls, hubVars, faults>>

\* mutation: where the last pass of the runner got to, not what the hub says
BeginWhereLeft(r) == BeginAt(r, at[r])
\* mutation: epochs the hub does not list are left out
BeginKnown(r) == BeginAt(r, [e \in Epochs |-> IF hubN[e] = 0 THEN local[e] ELSE hubN[e]])
Begin(r) == BeginAt(r, hubN)

Push(r, e) ==
    /\ state[r] = "pass"
    /\ at[r][e] < goal[r][e]
    /\ LET j == IF at[r][e] + ChunkSize < goal[r][e]
                THEN at[r][e] + ChunkSize ELSE goal[r][e] IN
       /\ calls' = calls \cup {[by |-> r, epoch |-> e, from |-> at[r][e], to |-> j]}
       /\ at' = [at EXCEPT ![r][e] = j]
    /\ state' = [state EXCEPT ![r] = "call"]
    /\ UNCHANGED <<appVars, active, goal, hubVars, faults>>

Reply(r) ==
    /\ state[r] = "call"
    /\ \A c \in calls : c.by # r
    /\ state' = [state EXCEPT ![r] = "pass"]
    /\ UNCHANGED <<appVars, active, at, goal, calls, hubVars, faults>>

\* After a pass the worker sleeps, or ends if it was told to stop.
AfterPass(r) == IF active = r THEN "asleep" ELSE "gone"

EndPass(r) ==
    /\ state[r] = "pass"
    /\ \A e \in Epochs : at[r][e] >= goal[r][e]
    /\ state' = [state EXCEPT ![r] = AfterPass(r)]
    /\ UNCHANGED <<appVars, active, at, goal, calls, hubVars, faults>>

\* The push raises: it did not arrive, or only its answer was lost.
FailInto(r, next) ==
    /\ state[r] = "call"
    /\ Fault("fail")
    /\ calls' \in Abandoned({r})
    /\ state' = [state EXCEPT ![r] = next]
    /\ UNCHANGED <<appVars, active, at, goal, hubVars>>

\* mutation: the error of one push does not end the pass
FailOn(r) == FailInto(r, "pass")
\* mutation: the runner sleeps while its push is left to itself
FailKeeps(r) ==
    /\ state[r] = "call"
    /\ Fault("fail")
    /\ state' = [state EXCEPT ![r] = AfterPass(r)]
    /\ UNCHANGED <<appVars, active, at, goal, calls, hubVars>>
\* The pass ends; the next one asks the hub again.
Fail(r) == FailInto(r, AfterPass(r))

----------------------------------------------------------------------------
(* The hub's store *)

\* Array q, written from position n0 on: grown with zeros if it is shorter.
WrittenAt(q, n0, new) == q \o [k \in 1..(n0 - Len(q)) |-> 0] \o new

\* mutation: the values are written at the end of their own array
WriteValuesAtEnd(c) == hubV' = [hubV EXCEPT ![c.epoch] = @ \o Samples(c.from, c.to)]
\* Both arrays are written from the length of the timestamps on.
WriteValues(c) ==
    hubV' = [hubV EXCEPT ![c.epoch] =
                WrittenAt(@, Len(hubT[c.epoch]), Samples(c.from, c.to))]

WriteTimes(c) == hubT' = [hubT EXCEPT ![c.epoch] = @ \o Samples(c.from, c.to)]

WriteLength(c) ==
    hubN' = [hubN EXCEPT ![c.epoch] = Len(hubT[c.epoch]) + (c.to - c.from)]

\* PushChunk: the store's append, under the store's lock.
Apply(c) ==
    /\ c \in calls
    /\ calls' = calls \ {c}
    /\ WriteTimes(c) /\ WriteValues(c) /\ WriteLength(c)
    /\ UNCHANGED <<appVars, syncVars, faults>>

\* The disk is full or the hub dies after the timestamps, or after both arrays,
\* but before the length is written.
TornApply(c, both) ==
    /\ c \in calls
    /\ Fault("torn")
    /\ calls' = calls \ {c}
    /\ WriteTimes(c)
    /\ IF both THEN WriteValues(c) ELSE UNCHANGED hubV
    /\ state' = [r \in Runners |-> IF r = c.by THEN AfterPass(r) ELSE state[r]]
    /\ UNCHANGED <<appVars, active, at, goal, hubN>>

\* The hub comes back with an empty store.  A pass with no push under way does
\* not notice: its channel connects again by itself.
Wipe ==
    /\ Fault("wipe")
    /\ "rewind" \in Faults \/ \A r \in Runners : ~Busy(r)
    /\ hubT' = [e \in Epochs |-> <<>>]
    /\ hubV' = [e \in Epochs |-> <<>>]
    /\ hubN' = [e \in Epochs |-> 0]
    /\ calls' = {}
    /\ state' = [r \in Runners |-> IF state[r] = "call" THEN AfterPass(r) ELSE state[r]]
    /\ UNCHANGED <<appVars, active, at, goal>>

----------------------------------------------------------------------------
(* Specification *)

Pass(r) ==
    \/ Begin(r) \/ Reply(r) \/ EndPass(r)
    \/ \E e \in Epochs : Push(r, e)

Next ==
    \/ Feed \/ Flush \/ CleanRestart \/ Crash \/ Wipe
    \/ \E r \in Runners : Start(r) \/ Stop(r) \/ Pass(r) \/ Fail(r)
    \/ \E c \in calls : Apply(c) \/ \E both \in BOOLEAN : TornApply(c, both)

Spec == Init /\ [][Next]_vars

\* Threads run and the hub serves what it is asked.
FairSpec ==
    /\ Spec
    /\ \A r \in Runners : WF_vars(Pass(r))
    /\ WF_vars(\E c \in calls : Apply(c))

----------------------------------------------------------------------------
(* Properties *)

AppTypes ==
    /\ buf \in Nat /\ epoch \in Epochs /\ local \in [Epochs -> Nat] /\ faults \in Nat

SyncTypes ==
    /\ active \in Runners \cup {None}
    /\ state \in [Runners -> {"new", "asleep", "pass", "call", "gone"}]
    /\ at \in [Runners -> [Epochs -> Nat]]
    /\ goal \in [Runners -> [Epochs -> Nat]]

HubTypes ==
    /\ hubT \in [Epochs -> Seq(Nat)] /\ hubV \in [Epochs -> Seq(Nat)]
    /\ hubN \in [Epochs -> Nat]

\* Every variable has its type; a push under way has its runner waiting for it,
\* and for no other, and takes something to the hub.
TypeOK ==
    /\ AppTypes /\ SyncTypes /\ HubTypes
    /\ calls \in SUBSET Call
    /\ \A c \in calls : c.from < c.to /\ (c.by # None => state[c.by] = "call")
    /\ \A c, d \in calls : c.by = d.by /\ c.by # None => c = d

\* The hub's copy of an epoch is a prefix of it, whatever was lost on the way:
\* no sample twice, none missing, none out of place, and the length that drives
\* the next pass is the length of both arrays.
Mirrored ==
    \A e \in Epochs :
        /\ hubN[e] <= local[e]
        /\ hubT[e] = Samples(0, hubN[e])
        /\ hubV[e] = Samples(0, hubN[e])

\* Whatever goes wrong, a value never stands under another's timestamp: it has
\* its own, or the array holds the fill value there.
Aligned ==
    \A e \in Epochs :
        /\ Len(hubV[e]) <= Len(hubT[e]) /\ hubN[e] <= Len(hubV[e])
        /\ \A k \in DOMAIN hubV[e] : hubV[e][k] \in {0, hubT[e][k]}

\* The detailed system implements the promise.
Promise == INSTANCE EpochMirror WITH
    ledger <- [e \in Epochs |-> Samples(0, local[e])], mirror <- hubT

Implements == Promise!Spec

\* While the app stays connected, the hub gets everything there is in the local
\* store, epochs of earlier sessions included.
CatchesUp ==
    <>[](active # None => \A e \in Epochs : hubN[e] = local[e])

\* As Mirrored, said of the code without its exceptions: "so nothing is lost
\* or duplicated".
NothingLostOrDuplicated == Mirrored

============================================================================
