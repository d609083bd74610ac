------------------------------ MODULE MainLog ------------------------------
(***************************************************************************)
(* The log of messages, class log_records_container: a list whose front    *)
(* part, up to iter_end, is what a filter shows; the file it is saved to   *)
(* in place every minute and on exit; the archive files it is moved to     *)
(* when the month changes.  The program may die in any step, a write may   *)
(* fail, and the next start loads what is there.                           *)
(***************************************************************************)
EXTENDS Integers, Sequences, SequencesExt

CONSTANTS Kinds,       \* what a filter tells apart
          MaxRecords,  \* bound: messages that come
          MaxMonth     \* bound: months that pass; month 1 is a January

ASSUME BoundsAssumption == MaxRecords \in Nat /\ MaxMonth \in Nat \ {0}

VARIABLES
  running,
  shown, hidden,   \* the list before and after iter_end
  filter,          \* log_filter, changed by the dialog even when it complains
  records_count,   \* the last id given
  last_saved_time, \* the month the list belongs to
  pc,              \* "rotated": between rotate and save of the same minute
  file,            \* environment: the main log's file
  archives,        \* environment: the records in each month's archive
  month, received, \* environment: the month; the number of messages so far
  history

vars == <<running, shown, hidden, filter, records_count, last_saved_time, pc,
          file, archives, month, received, history>>
memory == <<shown, hidden, filter, records_count, last_saved_time>>

\* n is the order of arrival, which is the order of the record's time.
Records == [n : 1 .. MaxRecords, id : 1 .. (2 * MaxRecords), kind : Kinds]

\* Month 0 is the zeroed structure of a log that was not loaded: January 1900.
Months == 0 .. MaxMonth
tm_mon(m) == IF m = 0 THEN 0 ELSE (m - 1) % 12

Off == [on |-> FALSE, kinds |-> Kinds]
Filters == [on : BOOLEAN, kinds : SUBSET Kinds]

\* accepted: the list was partitioned by this filter.  regressed: a list has
\* been loaded whose last record had not the highest id.  unsaved: the
\* month was closed, but the main log has not been saved since; died: and the
\* program ended then.
Histories == [accepted : BOOLEAN, regressed : BOOLEAN, unsaved : BOOLEAN,
              died : BOOLEAN]

List == shown \o hidden
Serials(s) == {r.n : r \in ToSet(s)}
OnDisk == (UNION {archives[m] : m \in Months})
            \cup (IF file.state = "whole" THEN Serials(file.content) ELSE {})
-----------------------------------------------------------------------------
(***************************************************************************)
(* The list                                                                *)
(***************************************************************************)
Matches(r) == r.kind \in filter.kinds

\* Mutation: a matching record goes to the end of the list too.
InsertAtEnd(r) ==
  IF hidden = <<>>
  THEN shown' = Append(shown, r) /\ UNCHANGED hidden
  ELSE hidden' = Append(hidden, r) /\ UNCHANGED shown

\* insert: a new record is the latest, so that its place in the part shown is
\* the end of it.  Without a filter, or when it does not match, it is pushed to
\* the end of the list - before iter_end, if that is the list's end.
Insert(r) ==
  IF hidden = <<>> \/ (List # <<>> /\ filter.on /\ Matches(r))
  THEN shown' = Append(shown, r) /\ UNCHANGED hidden
  ELSE hidden' = Append(hidden, r) /\ UNCHANGED shown

\* log_rec_sorter: an order only if the ids grow with the time.
Before(a, b) == a.n < b.n /\ a.id < b.id

\* The lists that sort may leave.
Sortings(s) == {t \in SetToSeqs(ToSet(s)) :
                  \A i \in 1 .. Len(t) - 1 : ~Before(t[i + 1], t[i])}

\* stable_partition: the records of t of these kinds, in the order they have.
OfKinds(t, kinds) ==
  LET upto[i \in 0 .. Len(t)] ==
        IF i = 0 THEN <<>>
        ELSE IF t[i].kind \in kinds THEN Append(upto[i - 1], t[i]) ELSE upto[i - 1]
  IN upto[Len(t)]

\* set_filtering.
SetFiltering(f) ==
  \E t \in Sortings(List) :
    IF f.on
    THEN shown' = OfKinds(t, f.kinds) /\ hidden' = OfKinds(t, Kinds \ f.kinds)
    ELSE shown' = t /\ hidden' = <<>>

\* A message is logged.
Message(kind) ==
  /\ running /\ pc = "idle"
  /\ received < MaxRecords
  /\ received' = received + 1
  /\ records_count' = records_count + 1
  /\ Insert([n |-> received + 1, id |-> records_count + 1, kind |-> kind])
  /\ UNCHANGED <<running, filter, last_saved_time, pc, file, archives, month, history>>

\* OK in the filter's window: the filter takes the settings first; if they
\* choose nothing, the list is left as it was.
ButtonOk(f) ==
  /\ running /\ pc = "idle"
  /\ filter' = f
  /\ IF f.on /\ f.kinds = {}
     THEN /\ UNCHANGED <<shown, hidden>>
          /\ history' = [history EXCEPT !.accepted = FALSE]
     ELSE /\ SetFiltering(f)
          /\ history' = [history EXCEPT !.accepted = TRUE]
  /\ UNCHANGED <<running, records_count, last_saved_time, pc, file, archives,
                 month, received>>
-----------------------------------------------------------------------------
(***************************************************************************)
(* The minute                                                              *)
(***************************************************************************)

MonthIsOver == tm_mon(month) # tm_mon(last_saved_time)

\* rotate, on the first pulse of a minute.
RotateNotDue ==
  /\ running /\ pc = "idle" /\ ~MonthIsOver
  /\ pc' = "rotated"
  /\ UNCHANGED <<running, memory, file, archives, month, received, history>>

ClosesMonth == last_saved_time' = month

Rotate ==
  /\ running /\ pc = "idle" /\ MonthIsOver
  /\ archives' = [archives EXCEPT ![last_saved_time] = Serials(List)]
  /\ shown' = <<>> /\ hidden' = <<>> /\ filter' = Off
  /\ ClosesMonth
  /\ pc' = "rotated"
  /\ history' = [history EXCEPT !.accepted = TRUE, !.unsaved = TRUE]
  /\ UNCHANGED <<running, records_count, file, month, received>>

\* Mutation: the list is erased though its archive could not be written.
RotateFailsErasing ==
  /\ running /\ pc = "idle" /\ MonthIsOver
  /\ archives' = [archives EXCEPT ![last_saved_time] = {}]
  /\ shown' = <<>> /\ hidden' = <<>> /\ filter' = Off
  /\ ClosesMonth
  /\ pc' = "rotated"
  /\ UNCHANGED <<running, records_count, file, month, received, history>>

\* The archive could not be written: the list is kept for the next minute.
RotateFails ==
  /\ running /\ pc = "idle" /\ MonthIsOver
  /\ archives' = [archives EXCEPT ![last_saved_time] = {}]
  /\ pc' = "rotated"
  /\ UNCHANGED <<running, memory, file, month, received, history>>

\* The whole list, hidden records too.
Saved == List

\* Mutation: nothing is saved while a filter hides something.
SaveUnfiltered ==
  file' = IF hidden = <<>>
          THEN [state |-> "whole", content |-> Saved, month |-> month] ELSE file

SaveTo == file' = [state |-> "whole", content |-> Saved, month |-> month]

\* save, after rotate and whatever it returned.
Save ==
  /\ running /\ pc = "rotated"
  /\ SaveTo
  /\ pc' = "idle"
  /\ history' = [history EXCEPT !.unsaved = FALSE]
  /\ UNCHANGED <<running, memory, archives, month, received>>

\* What is left of a file whose writing was cut short: nothing of it was
\* written, a part of the signature, the signature alone, a part of the list.
CutShort(f) ==
  \/ f = file
  \/ \E s \in {"short", "whole", "torn"} :
       /\ s = "torn" => Saved # <<>>
       /\ f = [state |-> s, content |-> <<>>, month |-> month]

SaveFails ==
  /\ running /\ pc = "rotated"
  /\ CutShort(file')
  /\ pc' = "idle"
  /\ UNCHANGED <<running, memory, archives, month, received, history>>
-----------------------------------------------------------------------------
(***************************************************************************)
(* The end of the program and its start                                    *)
(***************************************************************************)
Ends ==
  /\ running' = FALSE
  /\ shown' = <<>> /\ hidden' = <<>> /\ filter' = Off
  /\ records_count' = 0 /\ last_saved_time' = 0 /\ pc' = "idle"
  /\ history' = [history EXCEPT !.accepted = TRUE, !.unsaved = FALSE,
                                !.died = @ \/ history.unsaved]
  /\ UNCHANGED <<month, received>>

\* The exit button.
Exit == running /\ pc = "idle" /\ SaveTo /\ Ends /\ UNCHANGED archives

\* The program dies: between writes, in save or in rotate.
Crash == running /\ Ends /\ UNCHANGED <<file, archives>>
CrashInSave ==
  /\ running /\ pc = "rotated"
  /\ CutShort(file')
  /\ Ends /\ UNCHANGED archives
CrashInRotate ==
  /\ running /\ pc = "idle" /\ MonthIsOver
  /\ archives' = [archives EXCEPT ![last_saved_time] = {}]
  /\ Ends /\ UNCHANGED file

\* load sets the counter to each record's id in turn.
Counter(s) == IF s = <<>> THEN 0 ELSE Last(s).id

\* load at the start.  A torn file is refused, and the program with it; a short
\* one is passed over; a missing one is created.
Start ==
  /\ ~running /\ file.state # "torn"
  /\ running' = TRUE
  /\ LET loaded == IF file.state = "whole" THEN file.content ELSE <<>>
     IN /\ shown' = loaded
        /\ records_count' = Counter(loaded)
        /\ last_saved_time' = IF file.state = "whole" THEN file.month ELSE 0
        /\ history' = [history EXCEPT
                         !.regressed = @ \/ \E r \in ToSet(loaded) : r.id > Last(loaded).id]
  /\ file' = IF file.state = "missing"
             THEN [state |-> "whole", content |-> <<>>, month |-> month] ELSE file
  /\ UNCHANGED <<hidden, filter, pc, archives, month, received>>

\* Somebody takes a torn file away.
TornFileRemoved ==
  /\ ~running /\ file.state = "torn"
  /\ file' = [file EXCEPT !.state = "missing"]
  /\ UNCHANGED <<running, memory, pc, archives, month, received, history>>

MonthPasses ==
  /\ month < MaxMonth
  /\ month' = month + 1
  /\ UNCHANGED <<running, memory, pc, file, archives, received, history>>
-----------------------------------------------------------------------------
Init ==
  /\ running = FALSE
  /\ shown = <<>> /\ hidden = <<>> /\ filter = Off
  /\ records_count = 0 /\ last_saved_time = 0 /\ pc = "idle"
  /\ file = [state |-> "missing", content |-> <<>>, month |-> 1]
  /\ archives = [m \in Months |-> {}]
  /\ month = 1 /\ received = 0
  /\ history = [accepted |-> TRUE, regressed |-> FALSE, unsaved |-> FALSE,
                died |-> FALSE]

Next ==
  \/ \E k \in Kinds : Message(k)
  \/ ButtonOk(Off) \/ \E ks \in SUBSET Kinds : ButtonOk([on |-> TRUE, kinds |-> ks])
  \/ RotateNotDue \/ Rotate \/ RotateFails \/ Save \/ SaveFails
  \/ Exit \/ Crash \/ CrashInSave \/ CrashInRotate \/ Start
  \/ TornFileRemoved \/ MonthPasses

Spec == Init /\ [][Next]_vars

\* The timer's pulses come, and not every write fails.
Fairness == WF_vars(RotateNotDue) /\ SF_vars(Rotate) /\ SF_vars(Save)

FairSpec == Spec /\ Fairness
-----------------------------------------------------------------------------
(***************************************************************************)
(* Properties                                                              *)
(***************************************************************************)

\* Types of the variables.
TypeOK ==
  /\ running \in BOOLEAN /\ pc \in {"idle", "rotated"}
  /\ ToSet(List) \subseteq Records
  /\ filter \in Filters
  /\ records_count \in 0 .. (2 * MaxRecords) /\ last_saved_time \in Months
  /\ file.state \in {"missing", "whole", "short", "torn"}
  /\ ToSet(file.content) \subseteq Records /\ file.month \in 1 .. MaxMonth
  /\ archives \in [Months -> SUBSET (1 .. MaxRecords)]
  /\ month \in 1 .. MaxMonth /\ received \in 0 .. MaxRecords
  /\ history \in Histories

\* As long as the list has a hidden part, the filter that was accepted tells
\* exactly what is shown, whatever came since.  The exception is exact: when
\* everything matched, or nothing was there, what comes is shown.
FilterHolds ==
  history.accepted /\ hidden # <<>>
    => /\ filter.on
       /\ \A r \in ToSet(shown) : Matches(r)
       /\ \A r \in ToSet(hidden) : ~Matches(r)

\* The ids of the list are different and grow with the time, so that the sort
\* sorts by time, unless the program was started from a log saved under a
\* filter: the last record of the file is then not the last one that came.
IdsGrow ==
  ~history.regressed => \A a, b \in ToSet(List) : a.n < b.n => a.id < b.id

\* The main log was left without the records of the list: its writing was cut
\* short.  A complete save of an empty list is none.
CutOff ==
  /\ file' # file
  /\ file'.state # "whole" \/ (file'.content = <<>> /\ List # <<>>)

\* A record on disk stays there: it leaves only when the writing of the main log
\* is cut short or an archive is written again.  So a rotation whose archive
\* could not be written must keep the list, or the next save loses the month.
DiskKeeps ==
  [][\/ OnDisk \subseteq OnDisk'
     \/ CutOff
     \/ \E m \in Months : ~(archives[m] \subseteq archives'[m])]_vars

\* The archive of a month is written once.  Only when the program ended
\* between closing a month and saving the main log the archive is written
\* again, from the older main log; and the archive of January 1900 is that of
\* every log that was not loaded.
ArchivedOnce ==
  [][\A m \in Months \ {0} :
       archives[m] # {} /\ archives'[m] # archives[m] => history.died]_vars

\* What is logged comes to disk, unless the program ends first.
Logged ==
  \A n \in 1 .. MaxRecords :
    n \in Serials(List) ~> (n \in OnDisk \/ ~running)

\* The list in memory: under its filter, and in the order of time.
ListSound == TypeOK /\ FilterHolds /\ IdsGrow

\* The files: no record leaves them and no month is written twice.
FilesSound == DiskKeeps /\ ArchivedOnce
=============================================================================
