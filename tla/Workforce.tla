------------------------------ MODULE Workforce ------------------------------
(***************************************************************************)
(* The people of the house: the employment records, the rota that is drawn *)
(* from them, the commands that change both and the employment day.        *)
(*                                                                         *)
(* An employee's record outlives the job; the rota row does not.  Scores   *)
(* are scaled down to what the rules compare them with; chance (an illness,*)
(* a resignation) is a choice.  What a day or a departure costs is a       *)
(* posting of FinanceBooks and left out here, as are shifts.               *)
(***************************************************************************)
EXTENDS Integers
LOCAL INSTANCE FiniteSets
LOCAL INSTANCE FiniteSetsExt

CONSTANTS
  Roles, Wages,
  Courses,             \* training courses
  Duration,            \* days a course runs
  Entitlement,         \* days of leave a contract grants
  OvertimeTolerance,           \* hours of overtime a month that cost no morale
  StartingMorale, ResignBelow,
  MinimumPerRole,
  MaxHires, MaxShiftDays, MaxStaffing, ShiftDaysPerMonth

NoCourse == "none"

ASSUME WorkforceAssumption ==
  /\ Wages \subseteq Nat /\ Duration \in Nat \ {0}
  /\ {Entitlement, OvertimeTolerance, StartingMorale, ResignBelow, 
      MinimumPerRole, MaxHires, MaxShiftDays, MaxStaffing} \subseteq Nat
  /\ ShiftDaysPerMonth \in Nat \ {0}
  /\ NoCourse \notin Courses

VARIABLES
  employees,   \* employment records by staff id: <<role hired into, number>>
  staff,       \* the rota: rows by staff id
  shiftDay,    \* days played
  staffOrders       \* commands decided

workforceVars == <<employees, staff, shiftDay, staffOrders>>

Left == {"resigned", "dismissed"}

Contract(wage) ==
  [status |-> "working", wage |-> wage, skill |-> 0, morale |-> StartingMorale,
   overtime |-> 0, leaveTaken |-> 0, leaveLeft |-> 0,
   course |-> NoCourse, courseLeft |-> 0, completed |-> {}]

RotaRow(role, wage) == [role |-> role, wage |-> wage, skill |-> 0, absent |-> FALSE]

WithRow(f, id, value) == [i \in DOMAIN f \cup {id} |-> IF i = id THEN value ELSE f[i]]
WithoutRow(f, id) == [i \in DOMAIN f \ {id} |-> f[i]]
-----------------------------------------------------------------------------
(* Hiring.                                                                 *)

\* The next number is one above the highest on the rota.
NextStaffId(role) ==
  <<role, 1 + Max({100} \cup {id[2] : id \in {i \in DOMAIN staff : i[1] = role}})>>

WorkforceInit ==
  \E wage \in Wages :
    LET starters == {<<role, 1>> : role \in Roles}
    IN  /\ employees = [id \in starters |-> Contract(wage)]
        /\ staff = [id \in starters |-> RotaRow(id[1], wage)]
        /\ shiftDay = 0 /\ staffOrders = 0

Ordered == staffOrders < MaxStaffing /\ staffOrders' = staffOrders + 1

\* A second record under one id is refused, and with it the whole command.
Hire(role, wage) ==
  LET id == NextStaffId(role)
  IN  /\ Ordered /\ id \notin DOMAIN employees
      /\ \A i \in DOMAIN employees : i[2] <= 100 + MaxHires
      /\ employees' = WithRow(employees, id, Contract(wage))
      /\ staff' = WithRow(staff, id, RotaRow(role, wage))
      /\ UNCHANGED shiftDay
-----------------------------------------------------------------------------
(* What the player decides about somebody who works here.                  *)

Active(id) == id \in DOMAIN staff /\ id \in DOMAIN employees /\ employees[id].status \notin Left

Dismissed(id) == [employees EXCEPT ![id].status = "dismissed"]

EndEmployment(id) ==
  /\ Ordered /\ Active(id)
  /\ employees' = Dismissed(id)
  /\ staff' = WithoutRow(staff, id)
  /\ UNCHANGED shiftDay

SetWage(id, wage) ==
  /\ Ordered /\ Active(id)
  /\ employees' = [employees EXCEPT ![id].wage = wage]
  /\ staff' = [staff EXCEPT ![id].wage = wage]
  /\ UNCHANGED shiftDay

Promote(id, role, wage) ==
  /\ Ordered /\ Active(id) /\ wage > employees[id].wage
  /\ employees' = [employees EXCEPT ![id].wage = wage, ![id].morale = @ + 1]
  /\ staff' = [staff EXCEPT ![id].role = role, ![id].wage = wage]
  /\ UNCHANGED shiftDay

StartTraining(id, course) ==
  /\ Ordered /\ Active(id)
  /\ employees[id].course = NoCourse /\ course \notin employees[id].completed
  /\ employees' = [employees EXCEPT ![id].course = course, ![id].courseLeft = Duration]
  /\ staff' = [staff EXCEPT ![id].absent = TRUE]
  /\ UNCHANGED shiftDay

ApproveLeave(id, days) ==
  /\ Ordered /\ Active(id) /\ employees[id].leaveTaken + days <= Entitlement
  /\ employees' = [employees EXCEPT ![id].status = "onLeave",
                                    ![id].leaveTaken = @ + days,
                                    ![id].leaveLeft = @ + days]
  /\ staff' = [staff EXCEPT ![id].absent = TRUE]
  /\ UNCHANGED shiftDay

\* Somebody at work in a role that keeps its minimum without them.
Reducible ==
  {id \in DOMAIN staff :
     /\ employees[id].status = "working"
     /\ MinimumPerRole < Cardinality({i \in DOMAIN staff :
          employees[i].status = "working" /\ staff[i].role = staff[id].role})}

StaffReductionKeepsRow(id) ==
  /\ Ordered /\ id \in Reducible
  /\ employees' = Dismissed(id)
  /\ UNCHANGED <<staff, shiftDay>>

\* Cutting staff to survive: the row must go with the person.
StaffReduction(id) ==
  /\ Ordered /\ id \in Reducible
  /\ employees' = Dismissed(id)
  /\ staff' = WithoutRow(staff, id)
  /\ UNCHANGED shiftDay
-----------------------------------------------------------------------------
(* The employment day.                                                     *)

WorkOvertime(e) ==
  [e EXCEPT !.overtime = @ + 1,
            !.morale = IF e.overtime >= OvertimeTolerance THEN Max({0, @ - 1}) ELSE @]

CompleteTraining(e) ==
  [e EXCEPT !.course = NoCourse, !.courseLeft = 0, !.skill = @ + 1,
            !.morale = @ + 1, !.completed = @ \cup {e.course}]

\* On the last day of a leave the record of the return is overwritten by the
\* one of the counter, and the person stays away.
LeaveDay(e) ==
  IF e.leaveLeft > 1 THEN [e EXCEPT !.leaveLeft = @ - 1]
                     ELSE [e EXCEPT !.leaveLeft = 0]

WorkingDay(e, luck) ==
  CASE luck = "sick" -> [e EXCEPT !.status = "sick"]
    [] luck = "resigns" /\ e.morale < ResignBelow -> [e EXCEPT !.status = "resigned"]
    [] OTHER -> e

\* Who works and is on no course is drawn for illness and resignation.
MayBeStruck(e) == e.status = "working" /\ e.course = NoCourse

EmployeeDay(record, strained, luck) ==
  LET e == IF strained /\ record.status = "working" THEN WorkOvertime(record) ELSE record
  IN  IF e.status \in Left THEN e ELSE
      CASE e.course # NoCourse /\ e.courseLeft > 1 -> [e EXCEPT !.courseLeft = @ - 1]
        [] e.course # NoCourse /\ e.courseLeft <= 1 -> CompleteTraining(e)
        [] e.course = NoCourse /\ e.status = "sick" -> [e EXCEPT !.status = "working"]
        [] e.course = NoCourse /\ e.status = "onLeave" -> LeaveDay(e)
        [] OTHER -> WorkingDay(e, luck)

AwayFromWork(e) == e.status # "working" \/ e.course # NoCourse

Resigns(id, records) ==
  records[id].status = "resigned" /\ employees[id].status # "resigned"

\* Somebody who has left is off the rota for good; the absence of the others is
\* read off their records, their skill only when a course has ended.
RotaAfter(records) ==
  [id \in {i \in DOMAIN staff : ~Resigns(i, records)} |->
     [staff[id] EXCEPT !.absent = AwayFromWork(records[id]),
                       !.skill = IF records[id].completed # employees[id].completed
                                 THEN records[id].skill ELSE @]]

\* The close of a month starts the hours again.
StartEmploymentMonth(records) ==
  [id \in DOMAIN records |-> [records[id] EXCEPT !.overtime = 0]]

RunEmploymentDay(strained, luck) ==
  LET records == [id \in DOMAIN employees |->
                    EmployeeDay(employees[id], strained, luck[id])]
  IN  /\ shiftDay < MaxShiftDays /\ shiftDay' = shiftDay + 1
      /\ staff' = RotaAfter(records)
      /\ employees' = IF (shiftDay + 1) % ShiftDaysPerMonth = 0
                      THEN StartEmploymentMonth(records) ELSE records
      /\ UNCHANGED staffOrders

WorkforceNext ==
  \/ \E role \in Roles, wage \in Wages : Hire(role, wage)
  \/ \E id \in DOMAIN employees :
       \/ EndEmployment(id)
       \/ \E wage \in Wages : SetWage(id, wage)
       \/ \E role \in Roles, wage \in Wages : Promote(id, role, wage)
       \/ \E course \in Courses : StartTraining(id, course)
       \/ \E days \in 1 .. Entitlement : ApproveLeave(id, days)
       \/ StaffReduction(id)
  \/ \E strained \in BOOLEAN,
        luck \in [DOMAIN employees -> {"well", "sick", "resigns"}] :
       /\ \A id \in DOMAIN employees : ~MayBeStruck(employees[id]) => luck[id] = "well"
       /\ RunEmploymentDay(strained, luck)

WorkforceSpec == WorkforceInit /\ [][WorkforceNext]_workforceVars
-----------------------------------------------------------------------------
(* Properties.                                                             *)

\* The rota is exactly the people who have not left, at the wage and skill of
\* their contracts, absent when their record says so: through hiring, raises,
\* promotions, courses, leave, illness, resignations and cuts
\* (staffCommands.ts, GameSimulation.runEmploymentDay, recovery.ts).
RotaIsTheShadow ==
  /\ DOMAIN staff = {id \in DOMAIN employees : employees[id].status \notin Left}
  /\ \A id \in DOMAIN staff :
       /\ staff[id].wage = employees[id].wage
       /\ staff[id].skill = employees[id].skill
       /\ staff[id].absent <=> AwayFromWork(employees[id])

\* Somebody on leave has days of it left: leave ends.
LeaveEnds ==
  \A id \in DOMAIN employees : employees[id].status = "onLeave" => employees[id].leaveLeft > 0

\* The number the next person of a role would get is nobody's already.
HiringIsOpen == \A role \in Roles : NextStaffId(role) \notin DOMAIN employees
=============================================================================
