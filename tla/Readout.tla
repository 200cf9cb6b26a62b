------------------------------ MODULE Readout ------------------------------
(***************************************************************************)
(* From the raw results of a Quantum job to the memory of its result       *)
(* (src/app/libs/quantum_executor/base/quantum_job/__init__.py).           *)
(*                                                                         *)
(* Qubits have two numbers.  The backend calls them by their physical ids, *)
(* for example 6 and 7, and so do the channels of a dataset; the SDK calls *)
(* them 0 and 1, and so do the acquire instructions of a Qobj.             *)
(*                                                                         *)
(* An experiment is [acquire |-> SDK qubit -> memory slot, q_to_c |-> SDK  *)
(* qubit -> classical bit (<<>>: not in the metadata), cols |-> how often  *)
(* it acquires each qubit, bias |-> the currents that its wacqt_cz pulses  *)
(* ask for, as pairs of coupler and current].  A dataset maps each channel *)
(* to the IQ value of each acquisition, from which the state of the qubit  *)
(* can be told: [expt |->, qubit |->, col |->, state |->].  Repetitions    *)
(* are alike, so there is one.                                             *)
(***************************************************************************)
EXTENDS Integers, Sequences, FiniteSets, Functions, SequencesExt, FiniteSetsExt

CONSTANT Device   \* the physical ids of the qubits of the backend

ASSUME DeviceAssumption == Device \subseteq Nat /\ IsFiniteSet(Device)

\* sorted(S, key): the elements of S, each once, by the function key; those
\* with the same key in either order, which no property tells apart.
SortedBy(S, key) ==
  CHOOSE s \in SetToSeqs(S) : \A m, n \in DOMAIN s : m < n => key[s[m]] <= key[s[n]]

Ascending(S) == SortedBy(S, [n \in S |-> n])

\* generate_hardware_map: SDK qubit n is the n-th qubit, in the order of ids.
Physical(n) == Ascending(Device)[n + 1]

\* quantify_to_sdk_map
SdkQubit(channel) == CHOOSE n \in 0 .. Cardinality(Device) - 1 : Physical(n) = channel

(***************************************************************************)
(* The configuration of a Qobj                                             *)
(***************************************************************************)

Levels == {0, 1, 2}
Returns == {"single", "avg"}

BinMode(ret) == IF ret = "avg" THEN "average" ELSE "append"
Protocol(level) == IF level = 0 THEN "trace" ELSE "SSBIntegrationComplex"

\* Whether there is a native configuration: not for traces of single shots.
Supported(level, ret) ==
  <<BinMode(ret), Protocol(level)>> \in
    {<<"average", "SSBIntegrationComplex">>, <<"average", "trace">>,
     <<"append", "SSBIntegrationComplex">>}

(***************************************************************************)
(* The HDF5 file: raw results by the name of their experiment              *)
(***************************************************************************)

\* _save_results_to_hdf5 writes one HDF5 dataset per channel: an experiment
\* without channels leaves no trace. raw: the datasets in experiment order.
Stored(raw) == {[index |-> i, data |-> raw[i]] : i \in {n \in DOMAIN raw : raw[n] # <<>>}}

\* The order in which the file is visited is that of the names.
Visits(file) == SetToSeqs(file)

\* _extract_results_from_hdf5 sorts by the index that ends the name.
FaultOrdered(visit) == visit
Ordered(visit) == SortedBy(Range(visit), [d \in Range(visit) |-> d.index])

\* What read_job_from_hdf5 passes on: the values of a dict, without names.
RawResults(visit) == [i \in DOMAIN visit |-> Ordered(visit)[i].data]

(***************************************************************************)
(* Measurement level 2: discriminate_results                               *)
(***************************************************************************)

Acquires(e) == e.acquire # <<>>

QToC(e) == IF e.q_to_c # <<>> THEN e.q_to_c ELSE e.acquire

\* c_reg_len comes with q_to_c in the metadata; higher bits would stay 0.
CRegLen(e) == Max({QToC(e)[q] : q \in DOMAIN QToC(e)}) + 1

\* The experiment at the position of a dataset has no acquire instruction,
\* lacks a channel, or measures a channel more than once and single-shot.
Raises(e, data, ret) ==
  \/ ~Acquires(e)
  \/ \E ch \in DOMAIN data : Len(data[ch]) # 1 /\ ret # "avg"
  \/ \E ch \in DOMAIN data : SdkQubit(ch) \notin DOMAIN QToC(e)

\* The bits of the register, 0 where nothing was measured.
FaultRegister(e, data) ==
  [c \in 0 .. CRegLen(e) - 1 |->
     IF \E ch \in DOMAIN data : SdkQubit(ch) = c
     THEN data[CHOOSE ch \in DOMAIN data : SdkQubit(ch) = c][1].state ELSE 0]
Register(e, data) ==
  LET measures(c) == {ch \in DOMAIN data : QToC(e)[SdkQubit(ch)] = c}
  IN [c \in 0 .. CRegLen(e) - 1 |->
        IF measures(c) = {} THEN 0 ELSE data[Max(measures(c))][1].state]

\* _bitarrays_to_decimal, little-endian: bit 0 is the least significant one. The
\* product with the powers of 2 is written in Horner's form.
Decimal(register) ==
  LET n == Cardinality(DOMAIN register)
      from[c \in 0 .. n] == IF c = n THEN 0 ELSE register[c] + 2 * from[c + 1]
  IN from[0]

\* <<>> stands for the exception.
Discriminated(expts, datasets, ret) ==
  IF \E i \in DOMAIN datasets : Raises(expts[i], datasets[i], ret) THEN <<>>
  ELSE [i \in DOMAIN datasets |-> Decimal(Register(expts[i], datasets[i]))]

(***************************************************************************)
(* Measurement level 1: xarray_to_list                                     *)
(***************************************************************************)

\* By memory slot if every channel is a key of the acquire instructions, else
\* by channel; channels are physical ids, those keys are SDK qubits.
Channels(e, data) ==
  IF Acquires(e) /\ DOMAIN data \subseteq DOMAIN e.acquire
  THEN SortedBy(DOMAIN data, e.acquire)
  ELSE Ascending(DOMAIN data)

\* All acquisitions of a channel follow each other.
ListOf(e, data) == FlattenSeq([n \in DOMAIN Channels(e, data) |-> data[Channels(e, data)[n]]])

Integrated(expts, datasets) == [i \in DOMAIN datasets |-> ListOf(expts[i], datasets[i])]

=============================================================================
