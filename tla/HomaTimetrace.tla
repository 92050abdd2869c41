--------------------------- MODULE HomaTimetrace ----------------------------
(***************************************************************************)
(* The time trace (timetrace.c): a circular buffer of events per core that *)
(* is written without a lock, freezing, and the readers: files opened on   *)
(* /proc/timetrace, and the dumps tt_print_file and tt_printk.             *)
(*                                                                         *)
(* An event is its time stamp; the clock advances with every event.  The   *)
(* text of an event, and the splitting of the text into read calls, are    *)
(* left out: what a reader has returned is a sequence of pairs of a core   *)
(* and a time, and a formatted event waits in msg_storage until it can be  *)
(* copied to the user.  The freeing of the buffers happens when the module *)
(* is unloaded, which it cannot be while files are open.                   *)
(***************************************************************************)
EXTENDS Integers, Sequences, FiniteSetsExt, SequencesExt

CONSTANTS TraceCores,   \* cores, as numbers
          Size,         \* tt_buffer_size, a power of 2
          Storage,      \* tt_pf_storage, in events
          Readers,      \* processes that open the file
          MaxEvents,    \* bound on the events recorded
          TraceConfigs  \* records: readers, dumps (a subset of {"file", "printk"}), freezes,
                        \* reloads (numbers of calls), late (whether an interrupt may delay
                        \* the recording of an event), openfails (whether tt_print_file may
                        \* fail to open its file)

VARIABLES tconf,        \* the setting
          clock, events, next_index,   \* struct tt_buffer; 0 is an event without format
          recorder,     \* a thread on each core inside tt_record_buf
          tt_freeze_count, tt_frozen, init,
          freezer,      \* a thread inside tt_freeze
          pf,           \* struct tt_proc_file of each reader
          dump,         \* tt_print_file and tt_printk
          calls,        \* calls of tt_freeze and tt_destroy so far
          recorded,     \* events recorded since the buffers were last emptied
          disturbed,    \* whether an event was recorded during a reading
          raced         \* whether a freeze was ended before tt_freeze had counted it

traceVars == <<tconf, clock, events, next_index, recorder, tt_freeze_count, tt_frozen, init,
               freezer, pf, dump, calls, recorded, disturbed,
               raced>>

Mask(i) == i % Size
Slots == 0 .. Size - 1
Dumps == {"file", "printk"}
tt_get_buf_index(c) == Mask(next_index[c])

Empty == [c \in TraceCores |-> [i \in Slots |-> 0]]
Zero == [c \in TraceCores |-> 0]

Closed == [st |-> "closed", pos |-> Zero, storage |-> <<>>, out |-> <<>>,
           all |-> {}]

(* tt_init                                                                 *)
Init == /\ tconf \in TraceConfigs
        /\ clock = 0
        /\ events = Empty /\ next_index = Zero
        /\ recorder = Zero
        /\ tt_freeze_count = 0
        /\ tt_frozen = FALSE
        /\ init = TRUE
        /\ freezer = "idle"
        /\ pf = [r \in Readers |-> Closed]
        /\ dump = [d \in Dumps |-> Closed]
        /\ calls = [freeze |-> 0, reload |-> 0]
        /\ recorded = {}
        /\ disturbed = FALSE
        /\ raced = FALSE

(* Open files and dumps in progress.                                       *)
Readings == Cardinality({r \in Readers : pf[r].st = "open"})
            + Cardinality({d \in Dumps : dump[d].st = "open"})

(***************************************************************************)
(* tt_record: the time is read, then tt_record_buf tests tt_freeze_count   *)
(* and reserves a slot.  A late recorder passes the test and writes later. *)
(***************************************************************************)
Write(c, time) ==
    /\ events' = [events EXCEPT ![c][tt_get_buf_index(c)] = time]
    /\ next_index' = [next_index EXCEPT ![c] = @ + 1]
    /\ recorded' = recorded \cup {<<c, time>>}
    /\ disturbed' = (disturbed \/ Readings # 0)

Recording == tt_freeze_count <= 0

tt_record(c) ==
    /\ clock < MaxEvents
    /\ clock' = clock + 1
    /\ init
    /\ Recording
    /\ \/ /\ Write(c, clock + 1)
          /\ UNCHANGED recorder
       \/ /\ tconf.late
          /\ recorder[c] = 0
          /\ recorder' = [recorder EXCEPT ![c] = clock + 1]
          /\ UNCHANGED <<events, next_index, recorded, disturbed>>
    /\ UNCHANGED <<tconf, tt_freeze_count, tt_frozen, init, freezer, pf, dump, calls, raced>>

RecordLate(c) ==
    /\ recorder[c] # 0
    /\ Write(c, recorder[c])
    /\ recorder' = [recorder EXCEPT ![c] = 0]
    /\ UNCHANGED <<tconf, clock, tt_freeze_count, tt_frozen, init, freezer, pf, dump, calls, raced>>

(***************************************************************************)
(* tt_freeze: the exchange of tt_frozen and the increment are two steps.   *)
(* Those of tt_unfreeze are one: between them recording is merely off for  *)
(* a little longer.                                                        *)
(***************************************************************************)
tt_freeze(c) ==
    /\ freezer = "idle" /\ init
    /\ calls.freeze < tconf.freezes /\ clock < MaxEvents
    /\ calls' = [calls EXCEPT !.freeze = @ + 1]
    /\ freezer' = IF tt_frozen THEN "idle" ELSE "inc"
    /\ tt_frozen' = TRUE
    /\ \/ /\ ~tt_frozen /\ Recording
          /\ Write(c, clock + 1)
          /\ clock' = clock + 1
       \/ /\ tt_frozen \/ ~Recording
          /\ UNCHANGED <<clock, events, next_index, recorded, disturbed>>
    /\ UNCHANGED <<tconf, recorder, tt_freeze_count, init, pf, dump, raced>>

FreezeInc ==
    /\ freezer = "inc"
    /\ freezer' = "idle"
    /\ tt_freeze_count' = tt_freeze_count + 1
    /\ UNCHANGED <<tconf, clock, events, next_index, recorder, tt_frozen, init, pf, dump, calls,
                   recorded, disturbed, raced>>

tt_unfreeze ==
    /\ init
    /\ calls.freeze < tconf.freezes
    /\ calls' = [calls EXCEPT !.freeze = @ + 1]
    /\ tt_frozen' = FALSE
    /\ tt_freeze_count' = IF tt_frozen THEN tt_freeze_count - 1 ELSE tt_freeze_count
    /\ raced' = (raced \/ freezer = "inc")
    /\ UNCHANGED <<tconf, clock, events, next_index, recorder, init, freezer, pf, dump, recorded,
                   disturbed>>

(***************************************************************************)
(* tt_find_oldest: where reading starts on each core.                      *)
(***************************************************************************)
Wrapped(c) == events[c][Size - 1] # 0

OldestPos(c) == IF Wrapped(c) THEN Mask(next_index[c] + 1) ELSE 0

StartTime == Max({0} \cup {events[c][OldestPos(c)] : c \in {x \in TraceCores : Wrapped(x)}})

(* The first position from i on, up to next_index, that is not too old.    *)
SkipTo(c, i) ==
    LET left == Mask(tt_get_buf_index(c) - i + Size)
        stop == {k \in 0 .. left : k = left \/ events[c][Mask(i + k)] >= StartTime}
    IN Mask(i + Min(stop))

tt_find_oldest == [c \in TraceCores |-> SkipTo(c, OldestPos(c))]

(***************************************************************************)
(* The next event in time order, for a reader at the given positions.      *)
(***************************************************************************)
Left(pos) == {c \in TraceCores : pos[c] # tt_get_buf_index(c)}

(* Mutant: one core's events after the other's.                            *)
EarliestCore(pos) == CHOOSE c \in Left(pos) : \A d \in Left(pos) : c <= d

Earliest(pos) == CHOOSE c \in Left(pos) : \A d \in Left(pos) :
                     \/ events[c][pos[c]] < events[d][pos[d]]
                     \/ events[c][pos[c]] = events[d][pos[d]] /\ c <= d

Opened == [st |-> "open", pos |-> tt_find_oldest, storage |-> <<>>, out |-> <<>>,
           all |-> {e \in recorded : e[2] >= StartTime}]

(* tt_proc_open, or the -EINVAL when the module is not initialised.        *)
tt_proc_open(r) ==
    /\ r \in tconf.readers
    /\ pf[r].st = "closed"
    /\ init
    /\ tt_freeze_count' = tt_freeze_count + 1
    /\ pf' = [pf EXCEPT ![r] = Opened]
    /\ UNCHANGED <<tconf, clock, events, next_index, recorder, tt_frozen, init, freezer, dump,
                   calls, recorded, disturbed, raced>>

(***************************************************************************)
(* tt_proc_read: events are formatted into msg_storage until it is full,   *)
(* and copied to the user.                                                 *)
(***************************************************************************)
Advance(pos, c) == [pos EXCEPT ![c] = Mask(@ + 1)]

FormatEvent(r) ==
    LET p == pf[r]
        c == Earliest(p.pos)
    IN /\ p.st = "open"
       /\ Left(p.pos) # {}
       /\ Len(p.storage) < Storage
       /\ pf' = [pf EXCEPT ![r].pos = Advance(@, c),
                           ![r].storage = Append(@, <<c, events[c][p.pos[c]]>>)]
       /\ UNCHANGED <<tconf, clock, events, next_index, recorder, tt_freeze_count, tt_frozen, init,
                      freezer, dump, calls, recorded, disturbed, raced>>

CopyOut(r) ==
    LET p == pf[r]
    IN /\ p.st = "open"
       /\ p.storage # <<>>
       /\ Len(p.storage) = Storage \/ Left(p.pos) = {}
       /\ \E k \in 1 .. Len(p.storage) :
             pf' = [pf EXCEPT ![r].out = @ \o SubSeq(p.storage, 1, k),
                              ![r].storage = SubSeq(@, k + 1, Len(@))]
       /\ UNCHANGED <<tconf, clock, events, next_index, recorder, tt_freeze_count, tt_frozen, init,
                      freezer, dump, calls, recorded, disturbed, raced>>

(***************************************************************************)
(* tt_proc_release: the last reader ends a freeze and empties the buffers. *)
(***************************************************************************)
EndsFreeze == tt_freeze_count = 2 /\ tt_frozen

LastReader(count) == count = 1

tt_proc_release(r) ==
    LET count == IF EndsFreeze THEN tt_freeze_count - 1 ELSE tt_freeze_count
    IN /\ pf[r].st = "open"
       /\ pf' = [pf EXCEPT ![r] = [Closed EXCEPT !.st = "done"]]
       /\ init
       /\ tt_frozen' = IF tt_freeze_count = 2 THEN FALSE ELSE tt_frozen
       /\ IF LastReader(count)
          THEN /\ events' = [c \in TraceCores |-> [events[c] EXCEPT ![Size - 1] = 0]]
               /\ next_index' = Zero
               /\ recorded' = {}
          ELSE UNCHANGED <<events, next_index, recorded>>
       /\ tt_freeze_count' = count - 1
       /\ raced' = (raced \/ (EndsFreeze /\ freezer = "inc"))
       /\ UNCHANGED <<tconf, clock, recorder, init, freezer, dump, calls, disturbed>>
(***************************************************************************)
(* tt_print_file writes the events to a file, the oldest first; tt_printk  *)
(* writes them to the system log, the latest first.                        *)
(***************************************************************************)
None == -1

Latest == [c \in TraceCores |-> IF tt_find_oldest[c] = tt_get_buf_index(c) THEN None
                                ELSE Mask(next_index[c] - 1 + Size)]

StartDump(d) ==
    /\ d \in tconf.dumps
    /\ dump[d].st = "closed"
    /\ init
    /\ tt_freeze_count' = tt_freeze_count + 1
    /\ dump' = [dump EXCEPT ![d] = [Opened EXCEPT !.storage = <<tt_find_oldest>>,
                                    !.pos = IF d = "printk" THEN Latest ELSE @]]
    /\ UNCHANGED <<tconf, clock, events, next_index, recorder, tt_frozen, init, freezer, pf, calls,
                   recorded, disturbed, raced>>

(* The error path of tt_print_file.                                        *)
OpenFails ==
    /\ "file" \in tconf.dumps /\ tconf.openfails
    /\ dump["file"].st = "closed"
    /\ init
    /\ tt_freeze_count' = tt_freeze_count - 1
    /\ dump' = [dump EXCEPT !["file"].st = "done"]
    /\ UNCHANGED <<tconf, clock, events, next_index, recorder, tt_frozen, init, freezer, pf, calls,
                   recorded, disturbed, raced>>

PrintEarliest ==
    LET p == dump["file"]
        c == Earliest(p.pos)
    IN /\ p.st = "open"
       /\ Left(p.pos) # {}
       /\ dump' = [dump EXCEPT !["file"].pos = Advance(@, c),
                               !["file"].out = Append(@, <<c, events[c][p.pos[c]]>>)]
       /\ UNCHANGED <<tconf, clock, events, next_index, recorder, tt_freeze_count, tt_frozen, init,
                      freezer, pf, calls, recorded, disturbed, raced>>

Unprinted == {c \in TraceCores : dump["printk"].pos[c] # None}

tt_printk ==
    LET p == dump["printk"]
        oldest == Head(p.storage)
        c == CHOOSE x \in Unprinted : \A y \in Unprinted :
                 \/ events[x][p.pos[x]] > events[y][p.pos[y]]
                 \/ events[x][p.pos[x]] = events[y][p.pos[y]] /\ x >= y
    IN /\ p.st = "open"
       /\ Unprinted # {}
       /\ dump' = [dump EXCEPT !["printk"].pos[c] = IF @ = oldest[c] THEN None ELSE Mask(@ - 1 + Size),
                               !["printk"].out = Append(@, <<c, events[c][p.pos[c]]>>)]
       /\ UNCHANGED <<tconf, clock, events, next_index, recorder, tt_freeze_count, tt_frozen, init,
                      freezer, pf, calls, recorded, disturbed, raced>>

DumpDone(d) ==
    /\ dump[d].st = "open"
    /\ IF d = "file" THEN Left(dump[d].pos) = {} ELSE Unprinted = {}
    /\ tt_freeze_count' = tt_freeze_count - 1
    /\ dump' = [dump EXCEPT ![d] = [Closed EXCEPT !.st = "done"]]
    /\ UNCHANGED <<tconf, clock, events, next_index, recorder, tt_frozen, init, freezer, pf, calls,
                   recorded, disturbed, raced>>

(***************************************************************************)
(* tt_destroy and a later tt_init.                                         *)
(***************************************************************************)
Quiet == /\ \A r \in Readers : pf[r].st # "open"
         /\ \A d \in Dumps : dump[d].st # "open"
         /\ \A c \in TraceCores : recorder[c] = 0
         /\ freezer = "idle"

tt_destroy ==
    /\ init /\ Quiet
    /\ calls.reload < tconf.reloads
    /\ calls' = [calls EXCEPT !.reload = @ + 1]
    /\ init' = FALSE
    /\ tt_freeze_count' = 1
    /\ UNCHANGED <<tconf, clock, events, next_index, recorder, tt_frozen, freezer, pf, dump,
                   recorded, disturbed, raced>>

tt_init ==
    /\ ~init
    /\ events' = Empty /\ next_index' = Zero
    /\ init' = TRUE
    /\ tt_freeze_count' = 0
    /\ tt_frozen' = FALSE
    /\ recorded' = {}
    /\ UNCHANGED <<tconf, clock, recorder, freezer, pf, dump, calls, disturbed, raced>>

ReaderStep(r) == \/ tt_proc_open(r) \/ FormatEvent(r) \/ CopyOut(r) \/ tt_proc_release(r)

Next == \/ \E c \in TraceCores : tt_record(c) \/ RecordLate(c) \/ tt_freeze(c)
        \/ FreezeInc \/ tt_unfreeze
        \/ \E r \in Readers : ReaderStep(r)
        \/ \E d \in Dumps : StartDump(d) \/ DumpDone(d)
        \/ OpenFails \/ PrintEarliest \/ tt_printk
        \/ tt_destroy \/ tt_init

Spec == Init /\ [][Next]_traceVars

(***************************************************************************)
(* Properties                                                              *)
(***************************************************************************)
(* tt_freeze_count "counts the number of active /proc reads, plus 1 more   *)
(* if tt_frozen is true" (and the dumps), up to a freeze in progress: so   *)
(* recording does not go on during a read, and resumes after the last one. *)
FreezeCountExact ==
    (init /\ ~tconf.openfails) =>
        tt_freeze_count = Readings + (IF tt_frozen THEN 1 ELSE 0)
                          - (IF freezer = "inc" THEN 1 ELSE 0)

(* No interrupt delayed a recording, no freeze was ended just before       *)
(* tt_freeze counted it, and tt_print_file could open its file.            *)
Orderly == ~tconf.late /\ ~raced /\ ~tconf.openfails

(* Nothing is recorded while somebody reads, "to ensure that reads produce *)
(* consistent results", as long as all is orderly.                         *)
ReadsUndisturbed == Orderly => ~disturbed

Returned(p) == ToSet(p.out)

(* A reader that has reached the end has returned every event since the    *)
(* time it starts with: "there's no missing data in what we print".        *)
NoGaps ==
    Orderly =>
        /\ \A r \in Readers : (pf[r].st = "open" /\ Left(pf[r].pos) = {} /\ pf[r].storage = <<>>)
                                => pf[r].all \subseteq Returned(pf[r])
        /\ (dump["file"].st = "open" /\ Left(dump["file"].pos) = {})
               => dump["file"].all \subseteq Returned(dump["file"])
        /\ (dump["printk"].st = "open" /\ Unprinted = {})
               => dump["printk"].all \subseteq Returned(dump["printk"])

Increasing(s) == \A i \in 1 .. Len(s) - 1 : s[i][2] < s[i + 1][2]

(* Events of different cores are merged in time order, without duplicates. *)
MergedInOrder ==
    Orderly => /\ \A r \in Readers : Increasing(pf[r].out \o pf[r].storage)
               /\ Increasing(dump["file"].out)
               /\ Increasing(Reverse(dump["printk"].out))

(* A read of the time trace is one consistent picture: complete, in order  *)
(* and not disturbed by recording.                                         *)
TraceConsistent == FreezeCountExact /\ ReadsUndisturbed /\ NoGaps /\ MergedInOrder
=============================================================================
