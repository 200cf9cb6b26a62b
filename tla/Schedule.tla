------------------------------ MODULE Schedule ------------------------------
(***************************************************************************)
(* How one experiment of a Qobj becomes a Quantify schedule                *)
(* (src/app/libs/quantum_executor/quantify): every pulse instruction is    *)
(* registered, in the order of the Qobj, on the channel of its clock       *)
(* (channel.py, instruction.py); the channels are then merged slot by slot *)
(* on the 4 ns grid of the instruments (experiment.py).  Each operation    *)
(* costs its channel one tick of dispatch time, so the channels drift      *)
(* apart and a barrier at every slot brings them together again.           *)
(*                                                                         *)
(* Raw times are nanoseconds, slots and starts are ticks of the grid.      *)
(* Waveforms, amplitudes and ports are left out: an instruction is its     *)
(* kind, its slot and the phase or frequency that it sets or shifts.       *)
(* include_dynamic_frequency_ops is FALSE, as in every call.               *)
(***************************************************************************)
EXTENDS Integers, Sequences, FiniteSets, FiniteSetsExt

CONSTANTS
  Clocks,           \* the clocks, one channel each
  Names,            \* [Clocks -> sets of names of Qobj instructions]
  Readout,          \* the clocks of the readout channels m0, m1, ...
  LowerSideband,    \* the clocks whose LO lies below the drive frequency
  RawTimes,         \* the t0 of instructions, in ns
  Values,           \* phases and frequencies
  MaxInstructions   \* bound on the instructions of the experiment

ASSUME ScheduleAssumption ==
  /\ Readout \subseteq Clocks /\ LowerSideband \subseteq Clocks
  /\ RawTimes \subseteq Nat /\ Values \subseteq Int /\ MaxInstructions \in Nat
  /\ IsFiniteSet(Clocks)

VARIABLES
  pc,         \* "register", "schedule", "done" or "failed"
  insts,      \* the instructions of each channel, in the order of the Qobj
  phase,      \* _phase_playback of each channel
  freq,       \* _frequency_playback
  acquired,   \* _acquisition_playback
  clockFreq,  \* the frequency that each ClockResource starts with
  left,       \* the slots that are still to be scheduled
  sync,       \* sync_tick of each clock: the waits added by barriers
  dispatch,   \* dispatch_tick of each clock: the operations issued
  start,      \* start tick of each instruction, 0 while it has none
  tail        \* the instruction after which the channel idles; {}: after the root

scheduleVars == <<pc, insts, phase, freq, acquired, clockFreq, left, sync, dispatch, start, tail>>
registry == <<insts, phase, freq, acquired>>
timing == <<clockFreq, left, sync, dispatch, start, tail>>

Kinds == {"play", "acquire", "setf", "shiftf", "setp", "fc"}

(***************************************************************************)
(* Instructions                                                            *)
(***************************************************************************)

\* The nearest line of the 4 ns grid; round() takes the even one of two.
Grid(t) == LET q == t \div 4 IN
           IF t % 4 < 2 \/ (t % 4 = 2 /\ q % 2 = 0) THEN q ELSE q + 1

Item(kind, t, value) == [kind |-> kind, slot |-> Grid(t), value |-> value]

\* list_from_qobj_inst of each class: what a Qobj instruction becomes on the
\* channel of clock c.
AcquireInstruction(c, t, v) == {Item("acquire", t, 0)}
DelayInstruction(c, t, v) == {Item("play", t, 0)}
SetFreqInstruction(c, t, v) == {Item("setf", t, v)}
ShiftFreqInstruction(c, t, v) == {Item("shiftf", t, v)}
SetPhaseInstruction(c, t, v) == {Item("setp", t, v)}
ShiftPhaseInstruction(c, t, v) ==
  {Item("fc", t, IF c \in LowerSideband THEN -v ELSE v)}
GaussPulseInstruction(c, t, v) == {Item("play", t, 0)}
\* The ResetClockPhase of a square pulse is an operation, not an instruction.
SquarePulseInstruction(c, t, v) == {Item("ResetClockPhase", t, 0), Item("play", t, 0)}
PulseLibInstruction(c, t, v) == {Item("play", t, 0)}
WacqtCZPulseInstruction(c, t, v) == {Item("play", t, 0)}

\* The class for the name (and shape) of a Qobj instruction; {}: no mapping,
\* neither in the table nor in the pulse library.
Translated(name, c, t, v) ==
  CASE name = "acquire"  -> AcquireInstruction(c, t, v)
    [] name = "delay"    -> DelayInstruction(c, t, v)
    [] name = "setf"     -> SetFreqInstruction(c, t, v)
    [] name = "shiftf"   -> ShiftFreqInstruction(c, t, v)
    [] name = "setp"     -> SetPhaseInstruction(c, t, v)
    [] name = "fc"       -> ShiftPhaseInstruction(c, t, v)
    [] name = "gaussian" -> GaussPulseInstruction(c, t, v)
    [] name = "constant" -> SquarePulseInstruction(c, t, v)
    [] name = "wacqt_cz" -> WacqtCZPulseInstruction(c, t, v)
    [] name = "library"  -> PulseLibInstruction(c, t, v)
    [] OTHER             -> {}

\* What is registered of them: everything but the phase resets.
Registered(name, c, t, v) ==
  {i \in Translated(name, c, t, v) : i.kind # "ResetClockPhase"}

\* The last value of a playback, 0 before the first instruction.
Final(playback) == IF playback = <<>> THEN 0 ELSE playback[Len(playback)]

\* What an instruction adds to the playbacks of its channel: the "set"
\* instructions replace the value, the "shift" ones add to it.
PhaseDelta(c, i) == CASE i.kind = "setp" -> i.value - Final(phase[c])
                      [] i.kind = "fc"   -> i.value
                      [] OTHER           -> 0
FrequencyDelta(c, i) == CASE i.kind = "setf"   -> i.value - Final(freq[c])
                          [] i.kind = "shiftf" -> i.value
                          [] OTHER             -> 0
FaultAcquisitionsDelta(i) == 1
AcquisitionsDelta(i) == IF i.kind = "acquire" THEN 1 ELSE 0

\* to_operation: the phase that is emitted for the instruction at p, and the
\* index of its acquisition.
FaultPhaseShift(c, p) == phase[c][p]
PhaseShift(c, p) == IF insts[c][p].kind = "setp"
                    THEN phase[c][p] - (IF p = 1 THEN 0 ELSE phase[c][p - 1])
                    ELSE insts[c][p].value
AcquisitionIndex(c, p) == acquired[c][p] - 1

(***************************************************************************)
(* Registration                                                            *)
(***************************************************************************)

ScheduleInit ==
  /\ pc = "register"
  /\ insts = [c \in Clocks |-> <<>>]
  /\ phase = [c \in Clocks |-> <<>>]
  /\ freq = [c \in Clocks |-> <<>>]
  /\ acquired = [c \in Clocks |-> <<>>]
  /\ clockFreq = [c \in Clocks |-> 0]
  /\ left = {}
  /\ sync = [c \in Clocks |-> 0]
  /\ dispatch = [c \in Clocks |-> 0]
  /\ start = [c \in Clocks |-> <<>>]
  /\ tail = [c \in Clocks |-> {}]

Registrations == MapThenSumSet(LAMBDA c : Len(insts[c]), Clocks)

\* A Qobj lists the instructions of a channel by time, the acquisitions apart.
InOrder(c, i) ==
  \A p \in DOMAIN insts[c] :
    (insts[c][p].kind = "acquire") = (i.kind = "acquire") => insts[c][p].slot <= i.slot

\* register_instruction of item[c] on the channel of every c in its domain.
RegisterInstruction(item) ==
  LET on == DOMAIN item IN
  /\ \A c \in on : InOrder(c, item[c])
  /\ insts' = [c \in Clocks |-> IF c \in on THEN Append(insts[c], item[c]) ELSE insts[c]]
  /\ phase' = [c \in Clocks |->
       IF c \in on THEN Append(phase[c], Final(phase[c]) + PhaseDelta(c, item[c])) ELSE phase[c]]
  /\ freq' = [c \in Clocks |->
       IF c \in on THEN Append(freq[c], Final(freq[c]) + FrequencyDelta(c, item[c])) ELSE freq[c]]
  /\ acquired' = [c \in Clocks |->
       IF c \in on THEN Append(acquired[c], Final(acquired[c]) + AcquisitionsDelta(item[c]))
                   ELSE acquired[c]]
  /\ UNCHANGED <<pc, timing>>

\* An instruction for one channel.
AddInstruction(c, name, t, v) ==
  /\ pc = "register" /\ Registrations < MaxInstructions
  /\ name \in Names[c] \ {"acquire"}
  /\ \E i \in Registered(name, c, t, v) : RegisterInstruction([d \in {c} |-> i])

\* An acquisition: one instruction for each of the qubits that it measures.
AddAcquire(cs, t) ==
  /\ pc = "register" /\ Registrations + Cardinality(cs) <= MaxInstructions
  /\ cs # {}
  /\ \E item \in [cs -> UNION {Registered("acquire", c, t, 0) : c \in cs}] : RegisterInstruction(item)

\* A name without a mapping fails the job.
AddUnmapped ==
  /\ pc = "register" /\ \E c \in Clocks : Translated("unmapped", c, 0, 0) = {}
  /\ pc' = "failed"
  /\ UNCHANGED <<registry, timing>>

(***************************************************************************)
(* The schedule                                                            *)
(***************************************************************************)

\* Frequency instructions stay in the playback and out of the schedule.
Schedulable(c) == {p \in DOMAIN insts[c] : insts[c][p].kind \notin {"setf", "shiftf"}}

SlotsOf(c) == {insts[c][p].slot : p \in Schedulable(c)}

At(c, slot) == {p \in Schedulable(c) : insts[c][p].slot = slot}

\* last_slot_by_clock[c] >= slot
Active(slot) == {c \in Clocks : \E s \in SlotsOf(c) : s >= slot}

\* The frequency of the earliest setf, the first of them if there are several.
ClockFrequency(c) ==
  LET setf == {p \in DOMAIN insts[c] : insts[c][p].kind = "setf"}
      earliest == {p \in setf : \A o \in setf : insts[c][p].slot <= insts[c][o].slot}
  IN IF setf = {} THEN 0 ELSE insts[c][Min(earliest)].value

PlanChannels ==
  /\ pc = "register"
  /\ pc' = "schedule"
  /\ clockFreq' = [c \in Clocks |-> ClockFrequency(c)]
  /\ left' = UNION {SlotsOf(c) : c \in Clocks}
  /\ start' = [c \in Clocks |-> [p \in DOMAIN insts[c] |-> 0]]
  /\ UNCHANGED <<registry, sync, dispatch, tail>>

\* When a channel could issue its next operation of the slot.
FaultReady(c, slot) == slot + dispatch[c]
Ready(c, slot) == slot + sync[c] + dispatch[c]

\* The barrier: every active channel waits for the last one.
IsBarrier(b, slot) == /\ \E c \in Active(slot) : b = Ready(c, slot)
                      /\ \A c \in Active(slot) : Ready(c, slot) <= b

\* sync_tick of a channel after the barrier: an active one that is ready before it
\* waits for the difference.
FaultWaited(c, slot, b) ==
  IF c \in Active(slot) /\ Ready(c, slot) < b THEN b - Ready(c, slot) ELSE sync[c]
Waited(c, slot, b) ==
  IF c \in Active(slot) /\ Ready(c, slot) < b THEN sync[c] + (b - Ready(c, slot)) ELSE sync[c]

\* dispatch_tick of a channel when the turn of its operation p of the slot comes:
\* the operations before it, in the order of the list, have cost a tick each.
Issued(c, slot, p) == dispatch[c] + Cardinality({o \in At(c, slot) : o < p})

\* The barrier, and the operations of the slot: each starts when its channel is
\* ready after the ones before it, and one tick later for its own dispatch.
ScheduleSlot(slot, b) ==
  /\ pc = "schedule"
  /\ slot \in left /\ \A s \in left : slot <= s
  /\ IsBarrier(b, slot)
  /\ left' = left \ {slot}
  /\ sync' = [c \in Clocks |-> Waited(c, slot, b)]
  /\ dispatch' = [c \in Clocks |-> dispatch[c] + Cardinality(At(c, slot))]
  /\ start' = [c \in Clocks |-> [p \in DOMAIN insts[c] |->
                IF p \in At(c, slot) THEN slot + sync'[c] + Issued(c, slot, p) + 1
                                     ELSE start[c][p]]]
  /\ UNCHANGED <<pc, registry, clockFreq, tail>>

\* Every channel that had an instruction idles after the last one emitted.
TailIdle ==
  /\ pc = "schedule" /\ left = {}
  /\ pc' = "done"
  /\ tail' = [c \in Clocks |->
       {p \in Schedulable(c) : \A o \in Schedulable(c) : start[c][o] <= start[c][p]}]
  /\ UNCHANGED <<registry, clockFreq, left, sync, dispatch, start>>

Done == pc \in {"done", "failed"} /\ UNCHANGED scheduleVars

Barriers(slot) == {Ready(c, slot) : c \in Active(slot)}

ScheduleNext ==
  \/ \E c \in Clocks, t \in RawTimes, v \in Values :
       \E name \in Names[c] : AddInstruction(c, name, t, v)
  \/ \E cs \in SUBSET Readout, t \in RawTimes : AddAcquire(cs, t)
  \/ AddUnmapped
  \/ PlanChannels
  \/ \E slot \in left : \E b \in Barriers(slot) : ScheduleSlot(slot, b)
  \/ TailIdle
  \/ Done

ScheduleSpec == ScheduleInit /\ [][ScheduleNext]_scheduleVars

-----------------------------------------------------------------------------
(***************************************************************************)
(* Properties                                                              *)
(***************************************************************************)

Scheduled(c) == {p \in Schedulable(c) : pc \in {"schedule", "done"} /\ start[c][p] > 0}

\* The barriers keep distances: two operations whose slots differ by some ticks
\* start at least one tick further apart, on the same channel and also on
\* different ones as long as the earlier channel still has work in the later
\* slot. No operation overtakes or newly overlaps another.
DistanceKept ==
  \A c, d \in Clocks : \A p \in Scheduled(c), q \in Scheduled(d) :
    LET s == insts[c][p].slot
        t == insts[d][q].slot
    IN s < t /\ c \in Active(t) => start[d][q] - start[c][p] >= t - s + 1

\* How many operations of a list share the slot of its entry p and precede it.
Earlier(list, p) ==
  Cardinality({o \in DOMAIN list : /\ list[o].kind \notin {"setf", "shiftf"}
                                   /\ list[o].slot = list[p].slot /\ o < p})

\* Within a slot a channel issues its operations one per tick, in the order of
\* the Qobj, and the first operations of all channels start together, however
\* many operations each has issued and whatever it waited before: the ticks of
\* dispatch and the waits of the barriers make up for each other.
SlotAligned ==
  \A c, d \in Clocks : \A p \in Scheduled(c), q \in Scheduled(d) :
    LET s == insts[c][p].slot IN
    s = insts[d][q].slot =>
      start[c][p] - Earlier(insts[c], p) = start[d][q] - Earlier(insts[d], q)

\* The phase shifts that a channel has emitted up to an operation add up to
\* the phase that the playback gives for that operation, although setp is
\* emitted as a difference to the position before it in the list.
PhaseAsPlayedBack ==
  pc = "done" =>
    \A c \in Clocks : \A p \in Schedulable(c) :
      insts[c][p].kind \in {"setp", "fc"} =>
        phase[c][p] = MapThenSumSet(LAMBDA o : PhaseShift(c, o),
                        {o \in Schedulable(c) : /\ insts[c][o].kind \in {"setp", "fc"}
                                                /\ start[c][o] <= start[c][p]})

\* The acquisitions of a channel are numbered 0, 1, ... without gaps in the
\* order in which they start: the readout finds each in its own column.
AcquisitionsNumbered ==
  pc = "done" =>
    \A c \in Clocks : \A p \in Schedulable(c) :
      insts[c][p].kind = "acquire" =>
        AcquisitionIndex(c, p)
          = Cardinality({o \in Schedulable(c) : /\ insts[c][o].kind = "acquire"
                                                /\ start[c][o] < start[c][p]})

=============================================================================
