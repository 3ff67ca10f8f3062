------------------------------- MODULE HrPayroll -------------------------------
(***************************************************************************)
(* HrService and PayrollService: the register of employees, their leave    *)
(* and attendance, and the payroll of a month: a file is uploaded, as      *)
(* often as needed, its lines are corrected and the month is finalized.    *)
(* A name is a person and a way to spell it; a day is numbered within the  *)
(* month.  Of a line's columns the ones that matter to the net pay are     *)
(* kept: the rate of a day, the total cost, what is deducted for NASSIT    *)
(* and premium, the penalty, debt and advances, and the credits.           *)
(***************************************************************************)
EXTENDS Naturals, Integers, Sequences, FiniteSets, SequencesExt, FiniteSetsExt

CONSTANTS
    Officers,       \* requests the server works on at the same time
    Months, Days,
    Exports,        \* the files there are: sequences of rows of the sheet
    Logins,          \* login accounts, each with the name of a person
    Updates,        \* what officers send to correct a line: columns and amounts
    MaxEmployees, MaxLeave, MaxMarks, MaxUploads, MaxEdits, MaxStops  \* bounds

VARIABLES
    employees,   \* table employees: [name, user], in order of creation
    leave,       \* table leave_requests
    attendance,  \* table attendance_records, in order
    runs,        \* payroll_runs by month: "none", "Draft" or "Finalized"
    lines,       \* payroll_lines by month
    officer,     \* what each request is doing
    inserted,    \* lines inserted so far, the last of which has this number as its id
    touched,     \* history: the cells officers have written, <<line id, column>>
    sourceFile,  \* history: the file whose upload ended last, by month
    uploads, edits, stops,
    smooth       \* history: one request after the other so far, none cut off

lineVars == <<lines, inserted, touched>>
hrVars == <<employees, leave, attendance, runs, lineVars, officer, sourceFile, uploads,
            edits, stops, smooth>>

NoUser == 0
Employee == [name: [person: Nat, spelling: Nat], user: DOMAIN Logins \union {NoUser}]
LeaveRequest ==
    [employee: Nat, from: Days, to: Days, status: {"Pending", "Approved", "Declined"}]
AttendanceRecord == [employee: Nat, date: Months \X Days, status: {"Present", "Absent"}]
PayrollRunStatus == {"none", "Draft", "Finalized"}
Columns == {"rate", "totalCost", "deducted", "penalty", "debt", "credited"}
editable == {"penalty", "debt", "credited"}
Amounts == {a \in [Columns -> Int] : a["rate"] >= 0}
PayrollLine == [id: Nat, employee: Nat, amounts: Amounts, absenceDeduction: Nat]
-------------------------------------------------------------------------------
(* Reading a file, and what a line pays.                                    *)

\* Headings, totals and people without a salary have no basic salary.
parsePayrollFile(f) == SelectSeq(Exports[f], LAMBDA row : row.basicSalary # "blank")

\* What is assumed of the files: the rows that are read of one have a name and
\* amounts, and the rate of a day is not below zero.
SheetRow ==
    [name: [person: Nat, spelling: Nat], basicSalary: {"blank", "entered"}, amounts: Amounts]
FilesInOrder ==
    /\ 0 \notin DOMAIN Exports
    /\ \A f \in DOMAIN Exports : parsePayrollFile(f) \in Seq(SheetRow)

normalizeForMatch(name) == name.person
\* Of employees of one name the one that was added last is found.
ByNormalizedName ==
    [n \in {normalizeForMatch(employees[e].name) : e \in DOMAIN employees} |->
        Max({e \in DOMAIN employees : normalizeForMatch(employees[e].name) = n})]

\* Days marked absent that no approved leave covers.
countUnexcusedAbsences(e, month) ==
    Cardinality({i \in DOMAIN attendance :
      /\ attendance[i].employee = e
      /\ attendance[i].date[1] = month
      /\ attendance[i].status = "Absent"
      /\ ~ \E l \in leave : /\ l.employee = e /\ l.status = "Approved"
                            /\ l.from <= attendance[i].date[2]
                            /\ attendance[i].date[2] <= l.to})

PayOf(amounts) ==
    amounts["totalCost"] - amounts["deducted"] - amounts["penalty"] - amounts["debt"]
      + amounts["credited"]
computeNetPay(line) == PayOf(line.amounts) - line.absenceDeduction

\* What an officer sends replaces the columns that may be edited, with any number.
Corrected(amounts, updates) ==
    [c \in Columns |-> IF c \in editable \intersect DOMAIN updates THEN updates[c] ELSE amounts[c]]
WithUpdates(line, updates) == [line EXCEPT !.amounts = Corrected(@, updates)]
\* Of what officers send nothing is assumed but that it is numbers.
UpdatesInOrder ==
    \A u \in Updates : DOMAIN u \subseteq Columns /\ \A c \in DOMAIN u : u[c] \in Int
-------------------------------------------------------------------------------
AtDesk == [step |-> "idle", month |-> 0, file |-> 0, at |-> 0, known |-> << >>,
           run |-> "none", row |-> 0, mark |-> << >>]
OfficerAt(o, step) == officer[o].step = step
OfficerGoes(o, to) == officer' = [officer EXCEPT ![o] = to]

HrInit ==
    /\ employees = << >>
    /\ leave = {}
    /\ attendance = << >>
    /\ runs = [m \in Months |-> "none"]
    /\ lines = [m \in Months |-> << >>]
    /\ inserted = 0
    /\ touched = {}
    /\ officer = [o \in Officers |-> AtDesk]
    /\ sourceFile = [m \in Months |-> 0]
    /\ uploads = 0
    /\ edits = 0
    /\ stops = 0
    /\ smooth = TRUE
-------------------------------------------------------------------------------
(* Employees, leave and attendance.                                         *)

createEmployee(name) ==
    /\ Len(employees) < MaxEmployees
    /\ employees' = Append(employees, [name |-> name, user |-> NoUser])
    /\ UNCHANGED <<leave, attendance, runs, lineVars, officer, sourceFile, uploads, edits, stops>>

AskLeave(e, from, to) ==
    /\ Cardinality(leave) < MaxLeave
    /\ leave' = leave \union {[employee |-> e, from |-> from, to |-> to, status |-> "Pending"]}
requestLeave(e, from, to) ==
    /\ AskLeave(e, from, to)
    /\ UNCHANGED <<employees, attendance, runs, lineVars, officer, sourceFile, uploads, edits, stops>>
\* The employee of a login: the one it is linked to, else one of that name that
\* is not linked yet, else a new one.
findOrCreateEmployeeForUser(u, name) ==
    LET linked == {e \in DOMAIN employees : employees[e].user = u}
        named == {e \in DOMAIN employees :
                    /\ normalizeForMatch(employees[e].name) = normalizeForMatch(name)
                    /\ employees[e].user = NoUser}
    IN  IF linked # {} THEN [all |-> employees, one |-> Min(linked)]
        ELSE IF named # {}
        THEN [all |-> [employees EXCEPT ![Min(named)].user = u], one |-> Min(named)]
        ELSE [all |-> Append(employees, [name |-> name, user |-> u]), one |-> Len(employees) + 1]
requestOwnLeave(u, name, from, to) ==
    LET found == findOrCreateEmployeeForUser(u, name)
    IN  /\ Len(found.all) <= MaxEmployees
        /\ employees' = found.all
        /\ AskLeave(found.one, from, to)
        /\ UNCHANGED <<attendance, runs, lineVars, officer, sourceFile, uploads, edits, stops>>
\* Any request may be decided, and decided again.
decideLeave(l, status) ==
    /\ l.status # status
    /\ leave' = (leave \ {l}) \union {[l EXCEPT !.status = status]}
    /\ UNCHANGED <<employees, attendance, runs, lineVars, officer, sourceFile, uploads, edits, stops>>

\* The record of the day is looked up, then updated or inserted.
ReadAttendance(o, e, date, status) ==
    /\ OfficerAt(o, "idle")
    /\ Len(attendance) < MaxMarks
    /\ LET rows == {i \in DOMAIN attendance :
                      attendance[i].employee = e /\ attendance[i].date = date}
       IN  OfficerGoes(o, [AtDesk EXCEPT !.step = "mark", !.row = Max({0} \union rows),
              !.mark = <<[employee |-> e, date |-> date, status |-> status]>>])
    /\ UNCHANGED <<employees, leave, attendance, runs, lineVars, sourceFile, uploads, edits, stops>>
markAttendance(o) ==
    /\ OfficerAt(o, "mark")
    /\ attendance' = IF officer[o].row = 0 THEN attendance \o officer[o].mark
                     ELSE [attendance EXCEPT ![officer[o].row] = officer[o].mark[1]]
    /\ OfficerGoes(o, AtDesk)
    /\ UNCHANGED <<employees, leave, runs, lineVars, sourceFile, uploads, edits, stops>>
-------------------------------------------------------------------------------
(* The upload.                                                              *)

ReadRun(o, m, f) ==
    /\ OfficerAt(o, "idle")
    /\ uploads < MaxUploads
    /\ runs[m] # "Finalized"
    /\ parsePayrollFile(f) # << >>
    /\ uploads' = uploads + 1
    /\ OfficerGoes(o, [AtDesk EXCEPT !.step = "run", !.month = m, !.file = f, !.run = runs[m]])
    /\ UNCHANGED <<employees, leave, attendance, runs, lineVars, sourceFile, edits, stops>>
\* The whole run is saved as it was read, its status too; a second run of one
\* month is refused.
SaveRun(o) ==
    LET m == officer[o].month
    IN  /\ OfficerAt(o, "run")
        /\ IF officer[o].run = "none" /\ runs[m] # "none"
           THEN OfficerGoes(o, AtDesk) /\ UNCHANGED runs
           ELSE /\ runs' = [runs EXCEPT ![m] = "Draft"]
                /\ OfficerGoes(o, [officer[o] EXCEPT !.step = "clear"])
        /\ UNCHANGED <<employees, leave, attendance, lineVars, sourceFile, uploads, edits, stops>>
\* Fault: the lines of the last upload stay.
KeepLines(o) ==
    /\ OfficerAt(o, "clear")
    /\ OfficerGoes(o, [officer[o] EXCEPT !.step = "row", !.at = 1, !.known = ByNormalizedName])
    /\ UNCHANGED <<employees, leave, attendance, runs, lineVars, sourceFile, uploads, edits, stops>>
ClearLines(o) ==
    /\ OfficerAt(o, "clear")
    /\ lines' = [lines EXCEPT ![officer[o].month] = << >>]
    /\ OfficerGoes(o, [officer[o] EXCEPT !.step = "row", !.at = 1, !.known = ByNormalizedName])
    /\ UNCHANGED <<employees, leave, attendance, runs, inserted, touched, sourceFile, uploads, edits, stops>>

\* A row finds its employee or adds one, counts the absences and is inserted.
uploadPayroll(o) ==
    LET m == officer[o].month
        rows == parsePayrollFile(officer[o].file)
        row == rows[officer[o].at]
        key == normalizeForMatch(row.name)
        isKnown == key \in DOMAIN officer[o].known
        e == IF isKnown THEN officer[o].known[key] ELSE Len(employees) + 1
    IN  /\ OfficerAt(o, "row")
        /\ employees' = IF isKnown THEN employees
                        ELSE Append(employees, [name |-> row.name, user |-> NoUser])
        /\ inserted' = inserted + 1
        /\ lines' = [lines EXCEPT ![m] = Append(@,
             [id |-> inserted', employee |-> e, amounts |-> row.amounts,
              absenceDeduction |-> row.amounts["rate"] * countUnexcusedAbsences(e, m)])]
        /\ IF officer[o].at < Len(rows)
           THEN /\ OfficerGoes(o, [officer[o] EXCEPT !.at = @ + 1,
                       !.known = [n \in DOMAIN @ \union {key} |-> IF n = key THEN e ELSE @[n]]])
                /\ UNCHANGED sourceFile
           ELSE OfficerGoes(o, AtDesk) /\ sourceFile' = [sourceFile EXCEPT ![m] = officer[o].file]
        /\ UNCHANGED <<leave, attendance, runs, touched, uploads, edits, stops>>
-------------------------------------------------------------------------------
(* Correction and finalization: the status is read first.                   *)

ReadLine(o, m, i) ==
    /\ OfficerAt(o, "idle")
    /\ edits < MaxEdits
    /\ runs[m] # "Finalized"
    /\ edits' = edits + 1
    /\ OfficerGoes(o, [AtDesk EXCEPT !.step = "edit", !.month = m, !.row = lines[m][i].id])
    /\ UNCHANGED <<employees, leave, attendance, runs, lineVars, sourceFile, uploads, stops>>
\* The columns sent that may be edited are written, with whatever was entered; a
\* line that an upload deleted meanwhile is not found.
updateLine(o, updates) ==
    LET m == officer[o].month
        id == officer[o].row
    IN  /\ OfficerAt(o, "edit")
        /\ lines' = [lines EXCEPT ![m] = [i \in DOMAIN @ |->
              IF @[i].id = id THEN WithUpdates(@[i], updates) ELSE @[i]]]
        /\ touched' = touched \union ({id} \X (editable \intersect DOMAIN updates))
        /\ OfficerGoes(o, AtDesk)
        /\ UNCHANGED <<employees, leave, attendance, runs, inserted, sourceFile, uploads, edits, stops>>
ReadForFinalize(o, m) ==
    /\ OfficerAt(o, "idle")
    /\ runs[m] = "Draft"
    /\ OfficerGoes(o, [AtDesk EXCEPT !.step = "finalize", !.month = m])
    /\ UNCHANGED <<employees, leave, attendance, runs, lineVars, sourceFile, uploads, edits, stops>>
finalize(o) ==
    /\ OfficerAt(o, "finalize")
    /\ runs' = [runs EXCEPT ![officer[o].month] = "Finalized"]
    /\ OfficerGoes(o, AtDesk)
    /\ UNCHANGED <<employees, leave, attendance, lineVars, sourceFile, uploads, edits, stops>>

Stop ==
    /\ stops < MaxStops
    /\ stops' = stops + 1
    /\ officer' = [o \in Officers |-> AtDesk]
    /\ officer' # officer
    /\ UNCHANGED <<employees, leave, attendance, runs, lineVars, sourceFile, uploads, edits>>

HrStep ==
    \/ \E u \in DOMAIN Logins, from, to \in Days : requestOwnLeave(u, Logins[u], from, to)
    \/ \E u \in DOMAIN Logins : createEmployee(Logins[u])
    \/ \E e \in DOMAIN employees, from, to \in Days : requestLeave(e, from, to)
    \/ \E l \in leave, status \in {"Approved", "Declined"} : decideLeave(l, status)
    \/ \E o \in Officers :
         \/ \E e \in DOMAIN employees, m \in Months, d \in Days :
              \E status \in {"Present", "Absent"} : ReadAttendance(o, e, <<m, d>>, status)
         \/ markAttendance(o)
         \/ \E m \in Months, f \in DOMAIN Exports : ReadRun(o, m, f)
         \/ SaveRun(o)
         \/ ClearLines(o)
         \/ uploadPayroll(o)
         \/ \E m \in Months : \E i \in DOMAIN lines[m] : ReadLine(o, m, i)
         \/ \E updates \in Updates : updateLine(o, updates)
         \/ \E m \in Months : ReadForFinalize(o, m)
         \/ finalize(o)
    \/ Stop
HrNext ==
    /\ HrStep
    /\ smooth' = /\ smooth
                 /\ stops' = 0
                 /\ Cardinality({o \in Officers : officer'[o].step # "idle"}) <= 1
-------------------------------------------------------------------------------
(* Properties.                                                              *)

Uploading(m) ==
    \E o \in Officers : officer[o].step \in {"run", "clear", "row"} /\ officer[o].month = m
\* A month, draft or finalized, pays the people of the file that was uploaded
\* last, each of its rows with a salary once; every amount of a line is the
\* file's, unless it is one of those that may be edited and an officer entered
\* it in this very line; and no line pays more than these amounts come to.  So
\* nothing of an earlier upload or of a correction made before the last one
\* stays, whoever was marked absent or given leave - while calls come one after
\* the other.  (An upload that is cut off leaves a part of its file, which can
\* be finalized.)
PaysTheLastFile ==
    smooth => \A m \in Months :
      ~Uploading(m) =>
        LET rows == IF sourceFile[m] = 0 THEN << >> ELSE parsePayrollFile(sourceFile[m])
        IN  /\ Len(lines[m]) = Len(rows)
            /\ \A i \in DOMAIN rows :
                 LET line == lines[m][i]
                 IN  /\ normalizeForMatch(employees[line.employee].name)
                          = normalizeForMatch(rows[i].name)
                     /\ \A c \in Columns : line.amounts[c] # rows[i].amounts[c] =>
                          c \in editable /\ <<line.id, c>> \in touched
                     /\ computeNetPay(line) <= PayOf(line.amounts)
================================================================================
