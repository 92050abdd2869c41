---------------------------- MODULE HomaMetrics -----------------------------
(***************************************************************************)
(* The performance counters and the file in /proc that prints them         *)
(* (homa_metrics.c, homa_metrics.h).  Every core has its own counters.     *)
(* The first open of the file formats all of them, one line after the      *)
(* other, into a buffer that grows by doubling; later opens and all reads  *)
(* use that text until the last file is closed.                            *)
(*                                                                         *)
(* One counter per core stands for all of them.  A line takes one unit of  *)
(* the buffer, "Reserve" units (the 200 bytes of the code) are made sure   *)
(* of before a line is written.                                            *)
(***************************************************************************)
EXTENDS Naturals, Sequences, FiniteSets, SequencesExt

CONSTANTS
    MetricCores,     \* the cores, 1..n
    Files,           \* the struct files a user may open
    FirstCapacity,   \* the size of the first buffer
    Reserve,         \* the room a line may take
    MaxCount,        \* the bound of a counter
    MaxPrints,       \* the bound of the number of snapshots
    MetricConfigs    \* which allocations may fail: a subset of {"first","grow"}

VARIABLES
    may_fail,      \* the allocations that may fail
    metrics,       \* the counter of each core (struct homa_metrics)
    homa_mout,     \* struct homa_metrics_output
    mout_mutex,    \* the file whose open holds homa_mout.mutex, or "none"
    file           \* what each struct file is doing

metricVars == <<may_fail, metrics, homa_mout, mout_mutex, file>>

None == "none"
Lines == Cardinality(MetricCores)

(* "size" is what the buffer at output really has room for (0: NULL),      *)
(* "print" numbers the snapshots, and "failed" records that the buffer     *)
(* could not be enlarged.                                                  *)
Init ==
    /\ may_fail \in MetricConfigs
    /\ metrics = [c \in MetricCores |-> 0]
    /\ homa_mout = [size |-> 0, output |-> <<>>, capacity |-> 0,
                    active_opens |-> 0, print |-> 0, dir_entry |-> TRUE,
                    failed |-> FALSE]
    /\ mout_mutex = None
    /\ file = [f \in Files |->
          [pc |-> "closed", line |-> 0, offset |-> 0, seen |-> <<>>,
           print |-> 0]]

(* Unsynchronized: an increment that races with another one may be lost,   *)
(* which is a step that changes nothing.                                   *)
INC_METRIC(c) ==
    /\ metrics[c] < MaxCount
    /\ metrics' = [metrics EXCEPT ![c] = @ + 1]
    /\ UNCHANGED <<may_fail, homa_mout, mout_mutex, file>>

(* Mutant: every open prints the metrics again.                            *)
FirstOpenAlways == TRUE

FirstOpen == homa_mout.active_opens = 0

Opened(m) == [m EXCEPT !.active_opens = @ + 1]

homa_metrics_open(f) ==
    /\ homa_mout.dir_entry
    /\ file[f].pc = "closed"
    /\ mout_mutex = None
    /\ IF FirstOpen
       THEN /\ homa_mout.print < MaxPrints
            /\ mout_mutex' = f
            /\ homa_mout' = [homa_mout EXCEPT !.print = @ + 1,
                                              !.output = <<>>]
            /\ file' = [file EXCEPT ![f].pc = "print", ![f].line = 1]
       ELSE /\ homa_mout' = Opened(homa_mout)
            /\ file' = [file EXCEPT ![f].pc = "open", ![f].offset = 0,
                          ![f].seen = <<>>, ![f].print = homa_mout.print]
            /\ UNCHANGED mout_mutex
    /\ UNCHANGED <<may_fail, metrics>>

Length == Len(homa_mout.output)

(***************************************************************************)
(* homa_metrics_print calls homa_metric_append for each line: the buffer   *)
(* is allocated if there is none, doubled as long as the line may not fit, *)
(* and the line is written.  A line whose buffer cannot be had is skipped; *)
(* by then the capacity is that of the buffer which is not there.  All     *)
(* this is done with the mutex held.                                       *)
(***************************************************************************)
Printing(f) == file[f].pc = "print" /\ file[f].line \in MetricCores

SkipLine(f) == file' = [file EXCEPT ![f].line = @ + 1]

FirstBuffer(f) ==
    /\ Printing(f) /\ homa_mout.size = 0
    /\ \/ /\ homa_mout' = [homa_mout EXCEPT !.size = FirstCapacity,
                                            !.capacity = FirstCapacity]
          /\ UNCHANGED file
       \/ /\ "first" \in may_fail
          /\ homa_mout' = [homa_mout EXCEPT !.capacity = FirstCapacity]
          /\ SkipLine(f)
    /\ UNCHANGED <<may_fail, metrics, mout_mutex>>

MustGrow == homa_mout.capacity < Length + Reserve

Grow(f) ==
    /\ Printing(f) /\ homa_mout.size # 0 /\ MustGrow
    /\ \/ /\ homa_mout' = [homa_mout EXCEPT !.size = 2 * homa_mout.capacity,
                                            !.capacity = 2 * @]
          /\ UNCHANGED file
       \/ /\ "grow" \in may_fail
          /\ homa_mout' = [homa_mout EXCEPT !.capacity = 2 * @, !.failed = TRUE]
          /\ SkipLine(f)
    /\ UNCHANGED <<may_fail, metrics, mout_mutex>>

\* The counter is sampled when its line is formatted.
homa_metric_append(f) ==
    /\ Printing(f) /\ homa_mout.size # 0 /\ ~MustGrow
    /\ homa_mout' = [homa_mout EXCEPT !.output = Append(@, metrics[file[f].line])]
    /\ SkipLine(f)
    /\ UNCHANGED <<may_fail, metrics, mout_mutex>>

homa_metrics_print(f) == FirstBuffer(f) \/ Grow(f) \/ homa_metric_append(f)

EndOpen(f) ==
    /\ file[f].pc = "print"
    /\ file[f].line \notin MetricCores
    /\ homa_mout' = Opened(homa_mout)
    /\ file' = [file EXCEPT ![f].pc = "open", ![f].offset = 0,
                  ![f].seen = <<>>, ![f].print = homa_mout.print]
    /\ mout_mutex' = None
    /\ UNCHANGED <<may_fail, metrics>>

(* A read of one to all of the bytes left, without the mutex.              *)
homa_metrics_read(f) ==
    /\ file[f].pc = "open"
    /\ \E n \in 1..Lines :
         /\ file[f].offset + n <= Length
         /\ file' = [file EXCEPT ![f].offset = @ + n,
               ![f].seen = @ \o SubSeq(homa_mout.output, file[f].offset + 1,
                                       file[f].offset + n)]
    /\ UNCHANGED <<may_fail, metrics, homa_mout, mout_mutex>>

Closed(m) == [m EXCEPT !.active_opens = @ - 1]

homa_metrics_release(f) ==
    /\ file[f].pc = "open"
    /\ mout_mutex = None
    /\ homa_mout' = Closed(homa_mout)
    /\ file' = [file EXCEPT ![f].pc = "closed", ![f].line = 0]
    /\ UNCHANGED <<may_fail, metrics, mout_mutex>>

(* proc_remove waits for calls in progress and releases the open files.    *)
homa_metrics_end ==
    /\ homa_mout.dir_entry
    /\ \A f \in Files : file[f].pc = "closed"
    /\ homa_mout' = [homa_mout EXCEPT !.dir_entry = FALSE, !.size = 0,
                                      !.output = <<>>]
    /\ UNCHANGED <<may_fail, metrics, mout_mutex, file>>

Next ==
    \/ \E c \in MetricCores : INC_METRIC(c)
    \/ homa_metrics_end
    \/ \E f \in Files :
         \/ homa_metrics_open(f) \/ homa_metrics_print(f) \/ EndOpen(f)
         \/ homa_metrics_read(f) \/ homa_metrics_release(f)

Spec == Init /\ [][Next]_metricVars

(***************************************************************************)
(* Properties.                                                             *)
(***************************************************************************)

(* What a file has read so far is a prefix of one snapshot, the one that   *)
(* was current when it was opened: other opens and closes do not change    *)
(* the text between its reads.                                             *)
ReadsOneSnapshot ==
    \A f \in Files : file[f].pc = "open" =>
        /\ file[f].print = homa_mout.print
        /\ IsPrefix(file[f].seen, homa_mout.output)

(* Every line written lies inside the buffer, which has the capacity it is *)
(* said to have ("number of bytes available at @output", homa_metrics.h),  *)
(* until an allocation fails when the buffer must grow.                    *)
OutputFits ==
    /\ Length <= homa_mout.capacity
    /\ ~homa_mout.failed => Length <= homa_mout.size

(* A file reads one snapshot, and the snapshot lies inside its buffer.     *)
MetricsConsistent == ReadsOneSnapshot /\ OutputFits
=============================================================================
