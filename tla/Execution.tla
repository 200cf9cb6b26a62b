----------------------------- MODULE Execution -----------------------------
(***************************************************************************)
(* Jobs on the Quantify executor, from their Qobj to the memory of their   *)
(* result: preprocess and run of QuantumExecutor (base/executor.py),       *)
(* _run_native of QuantifyExecutor (quantify/executor.py), the currents of *)
(* the couplers (quantify/spi_dac.py), and the postprocessing of module    *)
(* Readout.  Each task runs in a process of its own, with an executor of   *)
(* its own; the instruments, with their currents, are shared, and used     *)
(* under the executor lock.  The driver of the SPI rack, which is closed   *)
(* after every experiment, is not part of the source: a use of it may fail *)
(* like any other step.                                                    *)
(*                                                                         *)
(* The job record and its cancellation are in module JobLifecycle.         *)
(***************************************************************************)
EXTENDS Readout

CONSTANTS
  Jobs,
  Qobjs,             \* what jobs may ask for: [expts, level, ret]
  Couplers,
  Parking,           \* [Couplers -> Int]: the currents before the first job
  SpanCurrent,       \* the current that the first span command after a restart sets
  MaxRestarts,       \* bound on the restarts of SPI racks
  ShouldRestore      \* should_restore_currents

\* The acquire instructions name qubits that the device has.
IsExperiment(e) ==
  /\ DOMAIN e.acquire \subseteq 0 .. Cardinality(Device) - 1
  /\ e.acquire \in [DOMAIN e.acquire -> Nat]
  /\ e.q_to_c \in [DOMAIN e.q_to_c -> Nat] /\ IsFiniteSet(DOMAIN e.q_to_c)
  /\ e.cols \in Nat \ {0}

ASSUME ExecutionAssumption ==
  /\ ShouldRestore \in BOOLEAN
  /\ Parking \in [Couplers -> Int] /\ SpanCurrent \in Int /\ MaxRestarts \in Nat
  /\ \A p \in Qobjs :
       /\ p.level \in Levels /\ p.ret \in Returns
       /\ p.expts \in Seq(Range(p.expts)) /\ \A e \in Range(p.expts) : IsExperiment(e)

VARIABLES
  qobj,      \* of each job: its experiments, meas_level and meas_return
  stage,     \* "new", "preprocessed", "running", "stored", "done" or "failed"
  holder,    \* the jobs that hold the executor lock
  step,      \* "bias", "measure" or "reset"
  current,   \* the current of each coupler
  initial,   \* initial_bias_currents_map of each job
  raw,       \* experiment_results: the datasets in the order of the experiments
  file,      \* the HDF5 file of each job
  memory,    \* the memory of the result of each job
  under,     \* the currents under which each experiment was measured, if settled
  restarts,  \* the number of restarts of SPI racks
  unsettled, \* the couplers that ramp or were spanned since the bias was set
  displaced  \* history: the couplers that a span or a failed job left off Parking

vars == <<qobj, stage, holder, step, current, initial, raw, file, memory, under,
          restarts, unsettled, displaced>>
instruments == <<holder, step, current, initial, restarts, unsettled, displaced>>
results == <<raw, file, memory, under>>

Abs(a) == IF a < 0 THEN -a ELSE a

Init ==
  /\ qobj \in [Jobs -> Qobjs]
  /\ stage = [j \in Jobs |-> "new"]
  /\ holder = {}
  /\ step = [j \in Jobs |-> "bias"]
  /\ current = Parking
  /\ initial = [j \in Jobs |-> Parking]
  /\ raw = [j \in Jobs |-> <<>>]
  /\ file = [j \in Jobs |-> {}]
  /\ memory = [j \in Jobs |-> <<>>]
  /\ under = [j \in Jobs |-> <<>>]
  /\ restarts = 0
  /\ unsettled = {}
  /\ displaced = {}

Expts(j) == qobj[j].expts
Expt(j) == Expts(j)[Len(raw[j]) + IF step[j] = "reset" THEN 0 ELSE 1]

\* An executor is built, and drivers of the SPI racks with it, which span every
\* coupler, whoever uses the currents meanwhile.  That changes nothing, except on
\* the couplers of a rack that was restarted: they get the current SpanCurrent.
Span ==
  \/ UNCHANGED <<current, restarts, unsettled, displaced>>
  \/ /\ restarts < MaxRestarts
     /\ restarts' = restarts + 1
     /\ \E spanned \in SUBSET Couplers \ {{}} :
          /\ current' = [u \in Couplers |-> IF u \in spanned THEN SpanCurrent ELSE current[u]]
          /\ unsettled' = unsettled \cup spanned
          /\ displaced' = displaced \cup spanned

\* Preprocessing builds an executor without the lock, compiles the job and stores
\* its metadata, or fails.
Preprocess(j) ==
  /\ stage[j] = "new"
  /\ Span
  /\ \/ Supported(qobj[j].level, qobj[j].ret) /\ stage' = [stage EXCEPT ![j] = "preprocessed"]
     \/ stage' = [stage EXCEPT ![j] = "failed"]
  /\ UNCHANGED <<qobj, holder, step, initial, results>>

\* execute takes the lock and builds an executor.
Begin(j) ==
  /\ stage[j] = "preprocessed" /\ holder = {}
  /\ stage' = [stage EXCEPT ![j] = "running"]
  /\ holder' = {j}
  /\ Span
  /\ UNCHANGED <<qobj, step, initial, results>>

Running(j, s) == stage[j] = "running" /\ step[j] = s /\ Len(raw[j]) <= Len(Expts(j))

\* The run of the job raises; only the lock is released.
Raise(j) ==
  /\ stage' = [stage EXCEPT ![j] = "failed"]
  /\ holder' = {}
  /\ displaced' = displaced \cup {u \in Couplers : current[u] # Parking[u]}
  /\ UNCHANGED <<qobj, step, current, initial, restarts, unsettled, results>>

\* _extract_bias: of several pulses on a coupler the largest |current| counts.
Strongest(amounts) == CHOOSE a \in amounts : \A b \in amounts : Abs(b) <= Abs(a)
Bias(e) ==
  [u \in {b.coupler : b \in e.bias} |->
     Strongest({b.amount : b \in {p \in e.bias : p.coupler = u}})]

\* ramp_to_target_currents: couplers that are not in the map keep theirs.
Ramped(target) == [u \in Couplers |-> IF u \in DOMAIN target THEN target[u] ELSE current[u]]

\* The currents are read and the new ones set, coupler by coupler.  A reading
\* error ends the wait for a coupler, which may then still ramp when the
\* measurement starts.  (In Reset that does no harm: close() waits again.)
Ramps(j) ==
  /\ Running(j, "bias") /\ Len(raw[j]) < Len(Expts(j))
  /\ current' = Ramped(Bias(Expt(j)))
  /\ unsettled' \in SUBSET {u \in Couplers : current'[u] # current[u]}
  /\ step' = [step EXCEPT ![j] = "measure"]
  /\ UNCHANGED <<qobj, stage, holder, restarts, displaced, results>>
FaultSetBias(j) ==
  /\ Ramps(j)
  /\ initial' = IF ShouldRestore THEN [initial EXCEPT ![j] = current'] ELSE initial
SetBias(j) ==
  /\ Ramps(j)
  /\ initial' = IF ShouldRestore THEN [initial EXCEPT ![j] = current] ELSE initial

\* One value for each acquisition of each qubit.
Measure(j) ==
  /\ Running(j, "measure")
  /\ LET e == Expt(j)
         channels == {Physical(q) : q \in DOMAIN e.acquire}
     IN \E states \in [channels -> {0, 1}] :
          raw' = [raw EXCEPT ![j] = Append(@, [ch \in channels |->
            [col \in 1 .. e.cols |->
               [expt |-> Len(raw[j]) + 1, qubit |-> ch, col |-> col, state |-> states[ch]]]])]
  /\ under' = [under EXCEPT ![j] = Append(@, [u \in Couplers \ unsettled |-> current[u]])]
  /\ step' = [step EXCEPT ![j] = "reset"]
  /\ UNCHANGED <<qobj, stage, holder, current, initial, restarts, unsettled, displaced, file, memory>>

\* After each experiment the currents go back.
Reset(j) ==
  /\ Running(j, "reset")
  /\ current' = IF ShouldRestore THEN Ramped(initial[j]) ELSE current
  /\ step' = [step EXCEPT ![j] = "bias"]
  /\ UNCHANGED <<qobj, stage, holder, initial, restarts, unsettled, displaced, results>>

\* Instruments and compiler may fail at any step.
Fail(j) == stage[j] = "running" /\ Raise(j)

\* run saves the results and execute releases the lock.
Store(j) ==
  /\ Running(j, "bias") /\ Len(raw[j]) = Len(Expts(j))
  /\ file' = [file EXCEPT ![j] = Stored(raw[j])]
  /\ stage' = [stage EXCEPT ![j] = "stored"]
  /\ holder' = {}
  /\ UNCHANGED <<qobj, step, current, initial, restarts, unsettled, displaced,
                 raw, memory, under>>

\* Postprocessing by the measurement level; traces are not implemented.
Postprocess(j) ==
  /\ stage[j] = "stored"
  /\ \E visit \in Visits(file[j]) :
       LET datasets == RawResults(visit) IN
       CASE qobj[j].level = 2 ->
              /\ memory' = [memory EXCEPT ![j] = Discriminated(Expts(j), datasets, qobj[j].ret)]
              /\ stage' = [stage EXCEPT ![j] =
                   IF \E i \in DOMAIN datasets : Raises(Expts(j)[i], datasets[i], qobj[j].ret)
                   THEN "failed" ELSE "done"]
         [] qobj[j].level = 1 ->
              /\ memory' = [memory EXCEPT ![j] = Integrated(Expts(j), datasets)]
              /\ stage' = [stage EXCEPT ![j] = "done"]
         [] OTHER -> stage' = [stage EXCEPT ![j] = "failed"] /\ UNCHANGED memory
  /\ UNCHANGED <<qobj, instruments, raw, file, under>>

Terminated == (\A j \in Jobs : stage[j] \in {"done", "failed"}) /\ UNCHANGED vars

Next ==
  \/ \E j \in Jobs : \/ Preprocess(j) \/ Begin(j) \/ SetBias(j) \/ Measure(j)
                     \/ Reset(j) \/ Fail(j) \/ Store(j) \/ Postprocess(j)
  \/ Terminated

Spec == Init /\ [][Next]_vars

-----------------------------------------------------------------------------
(***************************************************************************)
(* Properties                                                              *)
(***************************************************************************)

\* Every experiment is measured with the couplers that it biases at the currents
\* that it asks for and, with should_restore_currents, with the others at those
\* that were there before the first job: no experiment and no job leaves its bias
\* to the next.  Nothing is said, because the code does not ensure it, of
\*   - a coupler that is unsettled when it is measured: a reading error ended the
\*     wait for its ramp (spi_dac.py:198), or the executor of a preprocessing task
\*     was built meanwhile and spanned it (spi_dac.py:250);
\*   - a displaced coupler that the experiment does not bias: a job failed before
\*     it put the current back, or a span command has changed it (spi_dac.py:246).
MeasuredUnderOwnBias ==
  \A j \in Jobs : \A i \in DOMAIN under[j] : \A u \in DOMAIN under[j][i] :
    LET asked == {b.amount : b \in {p \in Expts(j)[i].bias : p.coupler = u}}
    IN /\ asked # {} => under[j][i][u] = Strongest(asked)
       /\ asked = {} /\ ShouldRestore /\ u \notin displaced => under[j][i][u] = Parking[u]

\* The values that the memory of a job has for its experiment i were measured
\* by that experiment, each once, in whatever order the file was visited, if
\* every experiment has an acquire instruction.
IntegratedOfOwnExperiment ==
  \A j \in Jobs :
    stage[j] = "done" /\ qobj[j].level = 1 /\ (\A i \in DOMAIN Expts(j) : Acquires(Expts(j)[i])) =>
      /\ Len(memory[j]) = Len(Expts(j))
      /\ \A i \in DOMAIN memory[j] :
           LET ch == DOMAIN raw[j][i] IN
           /\ Range(memory[j][i]) = UNION {Range(raw[j][i][q]) : q \in ch}
           /\ Len(memory[j][i]) = Cardinality(ch) * Expts(j)[i].cols

\* The binary digit b of n.
Bit(n, b) ==
  LET half[i \in 0 .. b] == IF i = 0 THEN n ELSE half[i - 1] \div 2
  IN half[b] % 2

\* In a discriminated result each qubit of each experiment has its state in its
\* own classical bit, if it shares it with no other; experiments without an
\* acquire instruction make the result shorter, or the job fail, but never shift
\* it to other experiments.
BitsOfOwnQubits ==
  \A j \in Jobs :
    stage[j] = "done" /\ qobj[j].level = 2 =>
      \A i \in DOMAIN memory[j] :
        LET e == Expts(j)[i] IN
        \A q \in DOMAIN e.acquire :
          (\A p \in DOMAIN e.acquire \ {q} : QToC(e)[p] # QToC(e)[q]) =>
            Bit(memory[j][i], QToC(e)[q]) = raw[j][i][Physical(q)][1].state

=============================================================================
