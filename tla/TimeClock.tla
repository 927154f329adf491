------------------------------- MODULE TimeClock -------------------------------
(***************************************************************************)
(* The time clock (src/src/modules/time-clock): employees clock in and out *)
(* at a kiosk, managers enter and correct entries.  Each operation reads   *)
(* and writes in one transaction at READ COMMITTED, without locking or     *)
(* comparing what it read, so that another may come in between; a          *)
(* correction stores every field of the entry, the ones it keeps as it has *)
(* read them, and checks the range it made only after it has committed.    *)
(*                                                                         *)
(* Left out: PINs, notes, names, ON_BREAK, which no code stores, and the   *)
(* reports.  Times are minutes.                                            *)
(***************************************************************************)
EXTENDS Overlaps, Integers, Sequences

CONSTANTS Employees,
          Entries,        \* identities of time entries
          MaxTime,        \* bound: the clock
          MaxBreak,       \* bound: minutes of break
          MaxCorrections, \* bound: rows of the correction log
          Same            \* a field that a correction leaves alone

Times == 0..MaxTime
Breaks == 0..MaxBreak

ASSUME TimeClockAssumption ==
    /\ MaxTime \in Nat /\ MaxBreak \in Nat /\ MaxCorrections \in Nat
    /\ None # Same /\ {None, Same} \cap Int = {} /\ None \notin Employees

VARIABLES
    now,
    entry,   \* the EmployeeTimeEntry rows
    log,     \* the EmployeeTimeEntryCorrection rows, oldest first
    first    \* the clock-in time and break each entry was created with

(* Entries written over stale reads and employees clocked in twice are     *)
(* unkept.                                                                 *)

clockVars == <<now, entry, log, first, req, unkept>>

EntryRows == [employee : Employees \cup {None}, in : Times, out : Times \cup {None},
              break : Breaks, worked : Nat \cup {None},
              status : {"ABSENT", "CLOCKED_IN", "CLOCKED_OUT"}, manual : BOOLEAN]

Fields == {"MANUAL_ENTRY", "clockInAt", "clockOutAt", "breakMinutes"}

LogRows == [entry : Entries, field : Fields, original : Nat \cup {None},
            updated : Nat \cup {None}]

(* correctTimeEntrySchema: a correction changes something.  A clock-out of  *)
(* null, meant to clear it, is coerced to the date 0, the earliest time.   *)
Inputs == {i \in [in : Times \cup {Same}, out : Times \cup {Same},
                  break : Breaks \cup {Same}] :
              i.in # Same \/ i.out # Same \/ i.break # Same}

ClockRequests ==
    [at : {"clocking in"}, employee : Employees, time : Times, stale : BOOLEAN] \cup
    [at : {"clocking out"}, entry : Entries, seen : EntryRows, time : Times,
     stale : BOOLEAN] \cup
    [at : {"correcting"}, entry : Entries, seen : EntryRows, input : Inputs,
     stale : BOOLEAN]

ClockTypeOK ==
    /\ now \in Times
    /\ entry \in [Entries -> EntryRows]
    /\ log \in Seq(LogRows)
    /\ first \in [Entries -> [in : Times, break : Breaks]]
    /\ req \in [Workers -> {Idle} \cup ClockRequests]
    /\ unkept \subseteq Entries \cup Employees

Absent == [employee |-> None, in |-> 0, out |-> None, break |-> 0, worked |-> None,
           status |-> "ABSENT", manual |-> FALSE]

ClockInit ==
    /\ now = 0
    /\ entry = [e \in Entries |-> Absent]
    /\ log = <<>>
    /\ first = [e \in Entries |-> [in |-> 0, break |-> 0]]
    /\ req = [w \in Workers |-> Idle]
    /\ unkept = {}

ReadsEntry(e, r) == r.at \in {"clocking out", "correcting"} /\ r.entry = e
ReadsOpenEntries(p, r) == r.at = "clocking in" /\ r.employee = p

-----------------------------------------------------------------------------
calculateWorkedMinutes(in, out, break) ==
    IF out - in - break > 0 THEN out - in - break ELSE 0

OpenEntries(p) ==
    {e \in Entries : entry[e].status = "CLOCKED_IN" /\ entry[e].employee = p}

(* Faulty variant: an open entry is not looked for.                        *)
ClockedOutAnyway(p) == TRUE

ClockedOut(p) == OpenEntries(p) = {}

FindBeforeClockIn(w, p) ==
    /\ ClockedOut(p)
    /\ Begin(w, [at |-> "clocking in", employee |-> p, time |-> now, stale |-> FALSE])
    /\ UNCHANGED <<now, entry, log, first, unkept>>

ClockIn(w) ==
    LET p == req[w].employee
    IN /\ req[w].at = "clocking in"
       /\ \E e \in Entries :
             /\ entry[e].status = "ABSENT"
             /\ entry' = [entry EXCEPT ![e] =
                   [Absent EXCEPT !.employee = p, !.in = req[w].time,
                                  !.status = "CLOCKED_IN"]]
             /\ first' = [first EXCEPT ![e] = [in |-> req[w].time, break |-> 0]]
       /\ CommitOver(w, LAMBDA r : ReadsOpenEntries(p, r))
       /\ unkept' = IF req[w].stale THEN unkept \cup {p} ELSE unkept
       /\ UNCHANGED <<now, log>>

FindForClockOut(w, p) ==
    \E e \in OpenEntries(p) :
       /\ Begin(w, [at |-> "clocking out", entry |-> e, seen |-> entry[e],
                    time |-> now, stale |-> FALSE])
       /\ UNCHANGED <<now, entry, log, first, unkept>>

(* What a request has written over a stale read is no longer kept.         *)
Kept(w, e) == IF req[w].stale THEN unkept \cup {e} ELSE unkept

ClockOut(w) ==
    LET e == req[w].entry
        seen == req[w].seen
    IN /\ req[w].at = "clocking out"
       /\ entry' = [entry EXCEPT
             ![e].out = req[w].time,
             ![e].worked = calculateWorkedMinutes(seen.in, req[w].time, seen.break),
             ![e].status = "CLOCKED_OUT"]
       /\ CommitOver(w, LAMBDA r : ReadsEntry(e, r))
       /\ unkept' = Kept(w, e)
       /\ UNCHANGED <<now, log, first>>

(* What the service makes of a manager's entry.                            *)
ManualEntry(p, in, out, break) ==
    [employee |-> p, in |-> in, out |-> out, break |-> break,
     worked |-> calculateWorkedMinutes(in, out, break),
     status |-> "CLOCKED_OUT", manual |-> TRUE]

CreateManual(e, p, in, out, break) ==
    /\ entry[e].status = "ABSENT" /\ out > in
    /\ Len(log) < MaxCorrections
    /\ entry' = [entry EXCEPT ![e] = ManualEntry(p, in, out, break)]
    /\ first' = [first EXCEPT ![e] = [in |-> in, break |-> break]]
    /\ log' = Append(log, [entry |-> e, field |-> "MANUAL_ENTRY", original |-> None,
                           updated |-> in])
    /\ UNCHANGED <<now, req, unkept>>

-----------------------------------------------------------------------------
(* Correcting.                                                             *)

Updated(value, existing) == IF value = Same THEN existing ELSE value

(* A range given as a whole is checked first; the range that results from  *)
(* a part is refused too, but stays stored.                                *)
ReadForCorrection(w, e, input) ==
    /\ entry[e].status # "ABSENT"
    /\ input.in \in Times /\ input.out \in Times => input.out > input.in
    /\ Begin(w, [at |-> "correcting", entry |-> e, seen |-> entry[e],
                 input |-> input, stale |-> FALSE])
    /\ UNCHANGED <<now, entry, log, first, unkept>>

CorrectionOf(e, field, old, value) ==
    IF value = Same \/ value = old THEN <<>>
    ELSE <<[entry |-> e, field |-> field, original |-> old, updated |-> value]>>

Corrections(e, seen, input) ==
    CorrectionOf(e, "clockInAt", seen.in, input.in)
    \o CorrectionOf(e, "clockOutAt", seen.out, input.out)
    \o CorrectionOf(e, "breakMinutes", seen.break, input.break)

(* Faulty variant: the break that was read counts, not the corrected one.  *)
CorrectedOldBreak(seen, input) ==
    LET in == Updated(input.in, seen.in)
        out == Updated(input.out, seen.out)
    IN [seen EXCEPT !.in = in, !.out = out, !.break = Updated(input.break, @),
          !.worked = IF out = None THEN None ELSE calculateWorkedMinutes(in, out, seen.break),
          !.status = IF out = None THEN "CLOCKED_IN" ELSE "CLOCKED_OUT"]

Corrected(seen, input) ==
    LET in == Updated(input.in, seen.in)
        out == Updated(input.out, seen.out)
        break == Updated(input.break, seen.break)
    IN [seen EXCEPT !.in = in, !.out = out, !.break = break,
          !.worked = IF out = None THEN None ELSE calculateWorkedMinutes(in, out, break),
          !.status = IF out = None THEN "CLOCKED_IN" ELSE "CLOCKED_OUT"]

(* An entry that was clocked out since it was read is open again, whether  *)
(* or not the employee has another open one.                               *)
Correct(w) ==
    LET e == req[w].entry
        p == entry[e].employee
        new == Corrected(req[w].seen, req[w].input)
        rows == Corrections(e, req[w].seen, req[w].input)
        reopens == new.status = "CLOCKED_IN" /\ entry[e].status = "CLOCKED_OUT"
    IN /\ req[w].at = "correcting"
       /\ Len(log \o rows) <= MaxCorrections
       /\ entry' = [entry EXCEPT ![e] = new]
       /\ log' = log \o rows
       /\ CommitOver(w, LAMBDA r : ReadsEntry(e, r))
       /\ unkept' = Kept(w, e) \cup (IF reopens THEN {p} ELSE {})
       /\ UNCHANGED <<now, first>>

Tick == now < MaxTime /\ now' = now + 1
        /\ UNCHANGED <<entry, log, first, req, unkept>>

ClockNext ==
    \/ Tick
    \/ \E w \in Workers :
          \/ \E p \in Employees : FindBeforeClockIn(w, p) \/ FindForClockOut(w, p)
          \/ \E e \in Entries, input \in Inputs : ReadForCorrection(w, e, input)
          \/ ClockIn(w) \/ ClockOut(w) \/ Correct(w)
    \/ \E e \in Entries, p \in Employees, in \in Times, out \in Times, break \in Breaks :
          CreateManual(e, p, in, out, break)

ClockSpec == ClockInit /\ [][ClockNext]_clockVars

-----------------------------------------------------------------------------
(* Until clock-ins overlap or a correction writes over a clock-out, an     *)
(* employee has at most one open entry: a second clock-in is refused, and  *)
(* no other correction opens an entry.                                     *)
OneOpenEntry ==
    \A p \in Employees \ unkept :
       \A e, f \in OpenEntries(p) : e = f

(* "Clock-out time must be after clock-in time." (correctTimeEntry): no    *)
(* entry ends before it begins, not even by a correction that is refused.  *)
NoEntryEndsBeforeItBegins ==
    \A e \in Entries : entry[e].out # None => entry[e].out >= entry[e].in

(* The value of a field before row n of the log: what the row about it     *)
(* before that left, or the value the entry had first.                     *)
RowsAbout(e, field) ==
    {i \in DOMAIN log : log[i].entry = e /\ log[i].field = field}

LastBefore(n, rows, i) == i < n /\ \A j \in rows : j < n => j <= i

ValueBefore(n, rows, original, value) ==
    \/ (\A i \in rows : i >= n) /\ value = original
    \/ \E i \in rows : LastBefore(n, rows, i) /\ value = log[i].updated

(* The rows of the log about a field, from the value the entry had first,  *)
(* lead to the value it has, without a gap.                                *)
Explains(e, field, original, value) ==
    LET rows == RowsAbout(e, field)
    IN /\ \A i \in rows : ValueBefore(i, rows, original, log[i].original)
       /\ ValueBefore(Len(log) + 1, rows, original, value)

(* Until requests about it overlap, an entry is closed exactly when it has *)
(* a clock-out time, its worked minutes are those of its times and break,  *)
(* and the corrections on record explain its clock-in time and its break,  *)
(* the refused corrections that were stored included.                      *)
EntryIsExplained ==
    \A e \in Entries \ unkept :
       LET row == entry[e]
       IN row.status # "ABSENT" =>
            /\ row.status = "CLOCKED_IN" <=> row.out = None
            /\ row.worked = IF row.out = None THEN None
                            ELSE calculateWorkedMinutes(row.in, row.out, row.break)
            /\ Explains(e, "clockInAt", first[e].in, row.in)
            /\ Explains(e, "breakMinutes", first[e].break, row.break)
=============================================================================
