---------------------------- MODULE DomainProofs ----------------------------
(***************************************************************************)
(* What parts of the company keep to, for any values of their constants:   *)
(* the rota and the employments, complaints and gestures, cover and        *)
(* regulations, the story, the save's format, stock and linen, what the    *)
(* house draws, its service areas, and the picture of it.                  *)
(*                                                                         *)
(* Each part has its own invariant, of the fields its records have and of  *)
(* what must agree between two pieces of its state for its promises to     *)
(* survive a step.  Where a promise counts (linen, portions, treatments),  *)
(* the count is a sum over a finite set that a step changes in one term    *)
(* (DataInduction).                                                        *)
(***************************************************************************)
EXTENDS Workforce, GuestCare, Risk, Story, SaveFormat, House, HotelPicture, DataInduction,
        SequenceTheorems, FiniteSetTheorems, TLAPS

-----------------------------------------------------------------------------
(* The rota is the shadow of the employments.                              *)

Statuses == {"working", "onLeave", "sick"} \cup Left

EmploymentFields ==
  {"status", "wage", "skill", "morale", "overtime", "leaveTaken", "leaveLeft",
   "course", "courseLeft", "completed"}

\* A record of the house: nobody takes a course that is behind them.
Employment(e) ==
  /\ DOMAIN e = EmploymentFields
  /\ e.status \in Statuses /\ e.courseLeft \in Int
  /\ e.course # NoCourse => e.course \notin e.completed

RotaRecord(r) == DOMAIN r = {"role", "wage", "skill", "absent"}

\* What the row of somebody who works here says of the record.
Shadows(r, e) ==
  /\ r.wage = e.wage /\ r.skill = e.skill
  /\ r.absent <=> AwayFromWork(e)

WorkforceInv ==
  /\ \A id \in DOMAIN employees : Employment(employees[id])
  /\ \A id \in DOMAIN staff : RotaRecord(staff[id])
  /\ RotaIsTheShadow

LEMMA WorkforceStarts == WorkforceInit => WorkforceInv
PROOF
  <1> SUFFICES ASSUME WorkforceInit PROVE WorkforceInv
    OBVIOUS
  <1> DEFINE starters == {<<role, 1>> : role \in Roles}
  <1>1. PICK wage \in Wages :
          /\ employees = [id \in starters |-> Contract(wage)]
          /\ staff = [id \in starters |-> RotaRow(id[1], wage)]
    BY DEF WorkforceInit
  <1> HIDE DEF starters
  <1>2. Employment(Contract(wage)) /\ Contract(wage).status = "working"
        /\ Contract(wage).course = NoCourse
    BY DEF Contract, Employment, EmploymentFields, Statuses
  <1>3. \A role : RotaRecord(RotaRow(role, wage)) /\ Shadows(RotaRow(role, wage), Contract(wage))
    BY DEF RotaRecord, RotaRow, Shadows, Contract, AwayFromWork
  <1>4. QED BY <1>1, <1>2, <1>3 DEF WorkforceInv, RotaIsTheShadow, Shadows, Left

\* Somebody newly hired has a record and a row, which agree.
LEMMA HireKeepsRota ==
  ASSUME WorkforceInv, NEW role \in Roles, NEW wage \in Wages, Hire(role, wage)
  PROVE  WorkforceInv'
PROOF
  <1> DEFINE id == NextStaffId(role)
  <1>1. /\ id \notin DOMAIN employees
        /\ employees' = WithRow(employees, id, Contract(wage))
        /\ staff' = WithRow(staff, id, RotaRow(role, wage))
    BY DEF Hire
  <1> HIDE DEF id
  <1>2. /\ Employment(Contract(wage)) /\ RotaRecord(RotaRow(role, wage))
        /\ Shadows(RotaRow(role, wage), Contract(wage)) /\ Contract(wage).status \notin Left
    BY DEF Contract, Employment, EmploymentFields, Statuses, RotaRecord, RotaRow, Shadows, AwayFromWork, Left
  <1>3. /\ DOMAIN employees' = DOMAIN employees \cup {id}
        /\ DOMAIN staff' = DOMAIN staff \cup {id}
        /\ employees'[id] = Contract(wage) /\ staff'[id] = RotaRow(role, wage)
        /\ \A i \in DOMAIN employees : employees'[i] = employees[i]
        /\ \A i \in DOMAIN staff : i # id => staff'[i] = staff[i]
    BY <1>1 DEF WithRow
  <1>4. \A i \in DOMAIN staff : i \in DOMAIN employees /\ i # id
    BY <1>1 DEF WorkforceInv, RotaIsTheShadow
  <1>5. QED BY <1>1, <1>2, <1>3, <1>4 DEF WorkforceInv, RotaIsTheShadow, Shadows

\* One person's record and row change together, or the row goes with the person.
LEMMA OnePersonChanges ==
  ASSUME WorkforceInv, NEW id \in DOMAIN staff, NEW e, NEW r,
         employees' = [employees EXCEPT ![id] = e],
         staff' = [staff EXCEPT ![id] = r],
         Employment(e), e.status \notin Left, RotaRecord(r), Shadows(r, e)
  PROVE  WorkforceInv'
PROOF
  <1>1. id \in DOMAIN employees
    BY DEF WorkforceInv, RotaIsTheShadow
  <1>2. /\ DOMAIN employees' = DOMAIN employees /\ DOMAIN staff' = DOMAIN staff
        /\ employees'[id] = e /\ staff'[id] = r
        /\ \A i \in DOMAIN employees : i # id => employees'[i] = employees[i]
        /\ \A i \in DOMAIN staff : i # id => staff'[i] = staff[i]
    BY <1>1
  <1>3. QED BY <1>1, <1>2 DEF WorkforceInv, RotaIsTheShadow, Shadows

LEMMA OnePersonLeaves ==
  ASSUME WorkforceInv, NEW id \in DOMAIN staff,
         employees' = Dismissed(id), staff' = WithoutRow(staff, id)
  PROVE  WorkforceInv'
PROOF
  <1>1. id \in DOMAIN employees /\ Employment(employees[id])
    BY DEF WorkforceInv, RotaIsTheShadow
  <1> DEFINE e == [employees[id] EXCEPT !.status = "dismissed"]
  <1>2. Employment(e) /\ e.status \in Left
    BY <1>1 DEF Employment, EmploymentFields, Statuses, Left
  <1>3. employees' = [employees EXCEPT ![id] = e]
    BY <1>1 DEF Dismissed
  <1> HIDE DEF e
  <1>4. /\ DOMAIN employees' = DOMAIN employees /\ DOMAIN staff' = DOMAIN staff \ {id}
        /\ employees'[id] = e
        /\ \A i \in DOMAIN employees : i # id => employees'[i] = employees[i]
        /\ \A i \in DOMAIN staff' : staff'[i] = staff[i]
    BY <1>1, <1>3 DEF WithoutRow
  <1>5. QED BY <1>1, <1>2, <1>4 DEF WorkforceInv, RotaIsTheShadow, Shadows

\* What the player decides about somebody who works here.
LEMMA DecisionsKeepRota ==
  ASSUME WorkforceInv, NEW id \in DOMAIN employees,
         \/ EndEmployment(id)
         \/ \E wage \in Wages : SetWage(id, wage)
         \/ \E role \in Roles, wage \in Wages : Promote(id, role, wage)
         \/ \E course \in Courses : StartTraining(id, course)
         \/ \E days \in 1 .. Entitlement : ApproveLeave(id, days)
         \/ StaffReduction(id)
  PROVE  WorkforceInv'
PROOF
  <1> DEFINE e == employees[id]
             r == staff[id]
  <1>1. id \in DOMAIN staff
    BY DEF EndEmployment, SetWage, Promote, StartTraining, ApproveLeave, StaffReduction,
           Active, Reducible
  <1>2. /\ Employment(e) /\ RotaRecord(r) /\ Shadows(r, e) /\ e.status \notin Left
    BY <1>1 DEF WorkforceInv, RotaIsTheShadow, Shadows
  <1>3. CASE EndEmployment(id) \/ StaffReduction(id)
    BY <1>1, <1>3, OnePersonLeaves DEF EndEmployment, StaffReduction
  <1>4. ASSUME NEW wage \in Wages, SetWage(id, wage) PROVE WorkforceInv'
    <2> DEFINE f == [e EXCEPT !.wage = wage]
               s == [r EXCEPT !.wage = wage]
    <2>1. employees' = [employees EXCEPT ![id] = f] /\ staff' = [staff EXCEPT ![id] = s]
      BY <1>1, <1>4 DEF SetWage
    <2>2. Employment(f) /\ RotaRecord(s) /\ Shadows(s, f) /\ f.status \notin Left
      BY <1>2 DEF Employment, EmploymentFields, RotaRecord, Shadows, AwayFromWork
    <2> HIDE DEF f, s
    <2>3. QED BY <1>1, <2>1, <2>2, OnePersonChanges
  <1>5. ASSUME NEW role \in Roles, NEW wage \in Wages, Promote(id, role, wage)
        PROVE  WorkforceInv'
    <2> DEFINE f == [e EXCEPT !.wage = wage, !.morale = @ + 1]
               s == [r EXCEPT !.role = role, !.wage = wage]
    <2>1. employees' = [employees EXCEPT ![id] = f] /\ staff' = [staff EXCEPT ![id] = s]
      BY <1>1, <1>5 DEF Promote
    <2>2. Employment(f) /\ RotaRecord(s) /\ Shadows(s, f) /\ f.status \notin Left
      BY <1>2 DEF Employment, EmploymentFields, RotaRecord, Shadows, AwayFromWork
    <2> HIDE DEF f, s
    <2>3. QED BY <1>1, <2>1, <2>2, OnePersonChanges
  <1>6. ASSUME NEW course \in Courses, StartTraining(id, course) PROVE WorkforceInv'
    <2> DEFINE f == [e EXCEPT !.course = course, !.courseLeft = Duration]
               s == [r EXCEPT !.absent = TRUE]
    <2>1. employees' = [employees EXCEPT ![id] = f] /\ staff' = [staff EXCEPT ![id] = s]
          /\ course \notin e.completed /\ course # NoCourse
      BY <1>1, <1>6, WorkforceAssumption DEF StartTraining
    <2>2. Employment(f) /\ RotaRecord(s) /\ Shadows(s, f) /\ f.status \notin Left
      BY <1>2, <2>1, WorkforceAssumption DEF Employment, EmploymentFields, RotaRecord, Shadows, AwayFromWork
    <2> HIDE DEF f, s
    <2>3. QED BY <1>1, <2>1, <2>2, OnePersonChanges
  <1>7. ASSUME NEW days \in 1 .. Entitlement, ApproveLeave(id, days) PROVE WorkforceInv'
    <2> DEFINE f == [e EXCEPT !.status = "onLeave", !.leaveTaken = @ + days,
                              !.leaveLeft = @ + days]
               s == [r EXCEPT !.absent = TRUE]
    <2>1. employees' = [employees EXCEPT ![id] = f] /\ staff' = [staff EXCEPT ![id] = s]
      BY <1>1, <1>7 DEF ApproveLeave
    <2>2. Employment(f) /\ RotaRecord(s) /\ Shadows(s, f) /\ f.status \notin Left
      BY <1>2 DEF Employment, EmploymentFields, Statuses, Left, RotaRecord, Shadows, AwayFromWork
    <2> HIDE DEF f, s
    <2>3. QED BY <1>1, <2>1, <2>2, OnePersonChanges
  <1>8. QED BY <1>3, <1>4, <1>5, <1>6, <1>7

\* What a day does to a record: it stays a record, the wage stays, nobody who left
\* comes back, and the skill moves only with the courses behind somebody.
LEMMA DayOfARecord ==
  ASSUME NEW record, Employment(record), NEW strained, NEW luck
  PROVE  LET e == EmployeeDay(record, strained, luck)
         IN  /\ Employment(e)
             /\ e.wage = record.wage
             /\ e.status \in {"resigned", "dismissed"} /\ record.status \notin Left
                  => e.status = "resigned"
             /\ record.status \in Left => e.status = record.status
             /\ e.completed = record.completed => e.skill = record.skill
PROOF
  <1> DEFINE w == IF strained /\ record.status = "working" THEN WorkOvertime(record) ELSE record
             Same(e) == /\ Employment(e)
                        /\ e.wage = record.wage /\ e.status = record.status
                        /\ e.completed = record.completed /\ e.skill = record.skill
  <1>1. Same(w) /\ w.course = record.course
    <2>1. CASE strained /\ record.status = "working"
      BY <2>1 DEF WorkOvertime, Employment, EmploymentFields
    <2>2. CASE ~(strained /\ record.status = "working")
      BY <2>2
    <2>3. QED BY <2>1, <2>2
  <1> HIDE DEF w
  <1> DEFINE e == EmployeeDay(record, strained, luck)
  <1>2. e = IF w.status \in Left THEN w ELSE
            CASE w.course # NoCourse /\ w.courseLeft > 1 -> [w EXCEPT !.courseLeft = @ - 1]
              [] w.course # NoCourse /\ w.courseLeft <= 1 -> CompleteTraining(w)
              [] w.course = NoCourse /\ w.status = "sick" -> [w EXCEPT !.status = "working"]
              [] w.course = NoCourse /\ w.status = "onLeave" -> LeaveDay(w)
              [] OTHER -> WorkingDay(w, luck)
    BY DEF EmployeeDay, w
  <1> HIDE DEF w, e
  <1>3. w.courseLeft \in Int
    BY <1>1 DEF Employment
  <1>4. CASE w.status \in Left
    <2>1. e = w
      BY <1>2, <1>4 DEF Left
    <2>2. QED BY <1>1, <1>4, <2>1 DEF Left, e
  <1>5. CASE w.status \notin Left /\ w.course # NoCourse /\ w.courseLeft > 1
    <2>1. e = [w EXCEPT !.courseLeft = @ - 1]
      BY <1>2, <1>3, <1>5
    <2>2. QED BY <1>1, <1>5, <2>1 DEF Employment, EmploymentFields, Left, e
  <1>6. CASE w.status \notin Left /\ w.course # NoCourse /\ ~(w.courseLeft > 1)
    <2>1. e = CompleteTraining(w)
      BY <1>2, <1>3, <1>6
    <2>2. /\ Employment(e) /\ e.wage = w.wage /\ e.status = w.status
          /\ e.completed = w.completed \cup {w.course}
      BY <1>1, <2>1 DEF Employment, EmploymentFields, CompleteTraining
    <2>3. w.course \notin w.completed
      BY <1>1, <1>6 DEF Employment
    <2>4. QED BY <1>1, <1>6, <2>2, <2>3 DEF Left, e
  <1>7. CASE w.status \notin Left /\ w.course = NoCourse
    <2>1. e \in {[w EXCEPT !.status = "working"], LeaveDay(w), WorkingDay(w, luck)}
      BY <1>2, <1>7
    <2>2. QED BY <1>1, <1>7, <2>1 DEF Employment, EmploymentFields, Left, Statuses, LeaveDay, WorkingDay, e
  <1>8. QED BY <1>4, <1>5, <1>6, <1>7

\* The day of everybody: the rota follows the records.
LEMMA DayKeepsRota ==
  ASSUME WorkforceInv, NEW strained \in BOOLEAN, NEW luck, RunEmploymentDay(strained, luck)
  PROVE  WorkforceInv'
PROOF
  <1> DEFINE records == [id \in DOMAIN employees |->
                           EmployeeDay(employees[id], strained, luck[id])]
  <1>1. staff' = RotaAfter(records) /\ employees' \in {records, StartEmploymentMonth(records)}
    BY DEF RunEmploymentDay
  <1>2. \A id \in DOMAIN employees :
          /\ Employment(records[id])
          /\ records[id].wage = employees[id].wage
          /\ records[id].status \in Left /\ employees[id].status \notin Left
               => records[id].status = "resigned"
          /\ employees[id].status \in Left => records[id].status = employees[id].status
          /\ records[id].completed = employees[id].completed
               => records[id].skill = employees[id].skill
    BY DayOfARecord DEF WorkforceInv, Left
  <1>3. DOMAIN records = DOMAIN employees
    OBVIOUS
  <1> HIDE DEF records
  <1>4. /\ DOMAIN employees' = DOMAIN employees
        /\ \A id \in DOMAIN employees :
             /\ Employment(employees'[id])
             /\ employees'[id].wage = records[id].wage
             /\ employees'[id].status = records[id].status
             /\ employees'[id].course = records[id].course
             /\ employees'[id].skill = records[id].skill
    <2>1. CASE employees' = records
      BY <1>2, <1>3, <2>1
    <2>2. CASE employees' = StartEmploymentMonth(records)
      BY <1>2, <1>3, <2>2 DEF StartEmploymentMonth, Employment, EmploymentFields
    <2>3. QED BY <1>1, <2>1, <2>2
  <1>5. \A id : id \in DOMAIN staff' <=> id \in DOMAIN staff /\ ~Resigns(id, records)
    BY <1>1 DEF RotaAfter
  <1>6. \A id \in DOMAIN staff :
          id \in DOMAIN employees /\ RotaRecord(staff[id]) /\ Shadows(staff[id], employees[id])
    BY DEF WorkforceInv, RotaIsTheShadow, Shadows
  <1>7. \A id \in DOMAIN staff' :
          /\ RotaRecord(staff'[id])
          /\ staff'[id].wage = staff[id].wage
          /\ staff'[id].absent = AwayFromWork(records[id])
          /\ staff'[id].skill = IF records[id].completed # employees[id].completed
                                THEN records[id].skill ELSE staff[id].skill
    BY <1>1, <1>5, <1>6 DEF RotaAfter, RotaRecord
  <1>8. DOMAIN staff' = {id \in DOMAIN employees' : employees'[id].status \notin Left}
    <2>1. ASSUME NEW id PROVE id \in DOMAIN staff' <=> id \in DOMAIN employees /\ records[id].status \notin Left
      BY <1>2, <1>5, <1>6 DEF WorkforceInv, RotaIsTheShadow, Resigns, Left
    <2>2. QED BY <1>4, <2>1
  <1>9. \A id \in DOMAIN staff' : Shadows(staff'[id], employees'[id])
    <2> SUFFICES ASSUME NEW id \in DOMAIN staff' PROVE Shadows(staff'[id], employees'[id])
      OBVIOUS
    <2>1. id \in DOMAIN staff /\ id \in DOMAIN employees
      BY <1>5, <1>6
    <2>2. staff'[id].absent <=> AwayFromWork(employees'[id])
      BY <1>4, <1>7, <2>1 DEF AwayFromWork
    <2>3. staff'[id].wage = employees'[id].wage /\ staff'[id].skill = employees'[id].skill
      BY <1>2, <1>4, <1>6, <1>7, <2>1 DEF Shadows
    <2>4. QED BY <2>2, <2>3 DEF Shadows
  <1>10. QED BY <1>4, <1>7, <1>8, <1>9 DEF WorkforceInv, RotaIsTheShadow, Shadows

LEMMA WorkforceStays == WorkforceInv /\ [WorkforceNext]_workforceVars => WorkforceInv'
PROOF
  <1> SUFFICES ASSUME WorkforceInv, [WorkforceNext]_workforceVars PROVE WorkforceInv'
    OBVIOUS
  <1>1. CASE WorkforceNext
    BY <1>1, HireKeepsRota, DecisionsKeepRota, DayKeepsRota DEF WorkforceNext
  <1>2. CASE UNCHANGED workforceVars
    BY <1>2 DEF workforceVars, WorkforceInv, RotaIsTheShadow, AwayFromWork
  <1>3. QED BY <1>1, <1>2

\* The rota is the people who have not left, at the wage and skill of their contracts and
\* absent when their record says so, whatever is hired, promoted, trained, sent on leave
\* and dismissed (staffCommands.ts, GameSimulation.runEmploymentDay).
THEOREM RotaShadows == WorkforceSpec => []RotaIsTheShadow
  <1>1. WorkforceInv => RotaIsTheShadow
    BY DEF WorkforceInv
  <1>2. QED BY <1>1, WorkforceStarts, WorkforceStays, PTL DEF WorkforceSpec

-----------------------------------------------------------------------------
(* A complaint is answered once.                                           *)

Waits == [party : Parties, waited : Nat]
CareRecords ==
  [handled : Seq(Parties), raised : [Parties -> Nat], given : [Parties -> Nat],
   recoveries : Seq(Parties \X BOOLEAN), unanswered : SUBSET Parties, goodwill : Int, cash : Int]

\* What the record says of a party: complained once at most, and nothing given before.
Answered(r) ==
  /\ \A p \in Parties : r.raised[p] \in {0, 1} /\ r.given[p] <= GestureCost
  /\ \A p \in Parties : r.raised[p] = 0 => r.given[p] = 0
  /\ \A p \in ElementsOf(r.handled) : r.raised[p] = 1

OneEach(waiting) ==
  \A i, j \in DOMAIN waiting : waiting[i].party = waiting[j].party => i = j

CareInv ==
  /\ care \in CareRecords /\ Answered(care)
  /\ queue \in Seq(Waits) /\ OneEach(queue)
  /\ \A i \in DOMAIN queue : queue[i].party \in arrived
  /\ \A p \in Parties : p \notin arrived => care.raised[p] = 0
  /\ \A i \in DOMAIN queue :
       /\ Complains(queue[i]) <=> care.raised[queue[i].party] = 1
       /\ Complains(queue[i]) => queue[i].party \in ElementsOf(care.handled)

\* Whoever is still waiting and complains is not forgotten.
LEMMA PruneKeepsActive ==
  ASSUME NEW handled \in Seq(Parties), NEW waiting \in Seq(Waits)
  PROVE  /\ PruneHandled(handled, waiting) \in Seq(Parties)
         /\ ElementsOf(PruneHandled(handled, waiting)) \subseteq ElementsOf(handled)
         /\ \A i \in DOMAIN waiting :
              Complains(waiting[i]) /\ waiting[i].party \in ElementsOf(handled) =>
                waiting[i].party \in ElementsOf(PruneHandled(handled, waiting))
PROOF
  <1> DEFINE active == {w.party : w \in {v \in ElementsOf(waiting) : Complains(v)}}
             idle == Sifted(handled, ElementsOf(handled) \ active)
             excess == Len(handled) - HandledLimit
             onShow == IF excess < Len(idle) THEN excess ELSE Len(idle)
             forgotten == ElementsOf(SubSeq(idle, 1, onShow))
             pruned == PruneHandled(handled, waiting)
  <1>1. pruned = IF excess <= 0 THEN handled ELSE Sifted(handled, ElementsOf(handled) \ forgotten)
    BY DEF PruneHandled
  <1>2. \A i \in DOMAIN waiting : Complains(waiting[i]) => waiting[i].party \in active
    BY DEF ElementsOf
  <1>3. idle \in Seq(Parties) /\ ElementsOf(idle) = ElementsOf(handled) \ active
    <2> HIDE DEF active
    <2>1. idle \in Seq(Parties)
      BY SiftedIs
    <2>2. ElementsOf(idle) = ElementsOf(handled) \cap (ElementsOf(handled) \ active)
      BY SiftedIs
    <2>3. QED BY <2>1, <2>2
  <1> HIDE DEF active, idle, pruned
  <1>4. excess \in Int
    BY CareAssumption
  <1>5. excess > 0 => forgotten \subseteq ElementsOf(idle)
    <2> SUFFICES ASSUME excess > 0 PROVE forgotten \subseteq ElementsOf(idle)
      OBVIOUS
    <2>1. Len(idle) \in Nat /\ onShow \in Nat /\ onShow <= Len(idle)
      BY <1>3, <1>4
    <2> HIDE DEF onShow, excess
    <2>2. \A i \in DOMAIN SubSeq(idle, 1, onShow) :
            i \in DOMAIN idle /\ SubSeq(idle, 1, onShow)[i] = idle[i]
      BY <1>3, <2>1
    <2>3. QED BY <2>2 DEF ElementsOf
  <1>6. CASE excess <= 0
    BY <1>1, <1>6 DEF pruned
  <1>7. CASE ~(excess <= 0)
    <2>1. forgotten \cap active = {}
      BY <1>3, <1>4, <1>5, <1>7
    <2> HIDE DEF forgotten
    <2>2. pruned = Sifted(handled, ElementsOf(handled) \ forgotten)
      BY <1>1, <1>7
    <2>3. pruned \in Seq(Parties)
      BY <2>2, SiftedIs
    <2>4. ElementsOf(pruned) = ElementsOf(handled) \cap (ElementsOf(handled) \ forgotten)
      BY <2>2, SiftedIs
    <2>5. QED BY <1>2, <2>1, <2>3, <2>4 DEF pruned
  <1>8. QED BY <1>6, <1>7 DEF pruned

LEMMA LatestIs ==
  ASSUME NEW V, NEW s \in Seq(V), NEW n \in Nat
  PROVE  Latest(s, n) \in Seq(V)
PROOF
  <1> DEFINE from == (IF Len(s) > n THEN Len(s) - n ELSE 0) + 1
  <1>1. Len(s) \in Nat /\ from \in 1 .. Len(s) + 1
    OBVIOUS
  <1> HIDE DEF from
  <1>2. SubSeq(s, from, Len(s)) \in Seq(V)
    BY <1>1
  <1>3. QED BY <1>2 DEF Latest, from

LEMMA MovedIs ==
  ASSUME NEW goodwill \in Int, NEW delta \in Int
  PROVE  Moved(goodwill, delta) \in Int
PROOF
  BY CareAssumption DEF Moved

\* An attempt leaves the complaints alone and gives a party no more than a gesture.
LEMMA AttemptedRecovery ==
  ASSUME NEW r \in CareRecords, NEW party \in Parties, NEW desk, NEW limit
  PROVE  LET a == AttemptRecovery(r, party, desk, limit)
         IN  /\ a \in CareRecords
             /\ a.handled = r.handled /\ a.raised = r.raised
             /\ \A p \in Parties : p # party => a.given[p] = r.given[p]
             /\ a.given[party] \in {r.given[party], r.given[party] + GestureCost}
PROOF
  <1> DEFINE accepted == GestureCost <= limit
             kept == Latest(Append(r.recoveries, <<party, accepted>>), HandledLimit)
             up == [r EXCEPT !.unanswered = @ \cup {party}]
             refused == [r EXCEPT !.recoveries = kept, !.unanswered = @ \cup {party}]
             paid == [r EXCEPT !.recoveries = kept, !.given[party] = @ + GestureCost,
                               !.cash = @ - GestureCost,
                               !.goodwill = Moved(@, WonBack - FailureCosts)]
             a == AttemptRecovery(r, party, desk, limit)
  <1>1. a = IF desk = 0 \/ r.cash < GestureCost THEN up ELSE IF ~accepted THEN refused ELSE paid
    BY DEF AttemptRecovery
  <1>2. /\ r.handled \in Seq(Parties) /\ r.raised \in [Parties -> Nat]
        /\ r.given \in [Parties -> Nat] /\ r.recoveries \in Seq(Parties \X BOOLEAN)
        /\ r.unanswered \in SUBSET Parties /\ r.goodwill \in Int /\ r.cash \in Int
    BY DEF CareRecords
  <1>3. GestureCost \in Nat /\ HandledLimit \in Nat /\ WonBack - FailureCosts \in Int
    BY CareAssumption
  <1>4. kept \in Seq(Parties \X BOOLEAN)
    <2>1. accepted \in BOOLEAN
      OBVIOUS
    <2> HIDE DEF accepted
    <2>2. Append(r.recoveries, <<party, accepted>>) \in Seq(Parties \X BOOLEAN)
      BY <1>2, <2>1
    <2>3. QED BY <1>3, <2>2, LatestIs
  <1>5. Moved(r.goodwill, WonBack - FailureCosts) \in Int
    BY <1>2, <1>3, MovedIs
  <1>6. /\ r.unanswered \cup {party} \in SUBSET Parties /\ r.cash - GestureCost \in Int
        /\ [r.given EXCEPT ![party] = @ + GestureCost] \in [Parties -> Nat]
    BY <1>2, <1>3
  <1> DEFINE given == [r.given EXCEPT ![party] = @ + GestureCost]
             won == Moved(r.goodwill, WonBack - FailureCosts)
             owed == r.unanswered \cup {party}
             left == r.cash - GestureCost
  <1>7. /\ up = [r EXCEPT !.unanswered = owed]
        /\ refused = [r EXCEPT !.recoveries = kept, !.unanswered = owed]
        /\ paid = [r EXCEPT !.recoveries = kept, !.given = given, !.cash = left, !.goodwill = won]
    BY DEF CareRecords
  <1>8. given[party] = r.given[party] + GestureCost /\ \A p \in Parties : p # party => given[p] = r.given[p]
    BY <1>2
  <1> HIDE DEF a, accepted, kept, up, refused, paid, given, won, owed, left
  <1>9. /\ up \in CareRecords /\ up.handled = r.handled /\ up.raised = r.raised /\ up.given = r.given
    BY <1>2, <1>6, <1>7, Zenon DEF CareRecords, owed
  <1>10. /\ refused \in CareRecords /\ refused.handled = r.handled /\ refused.raised = r.raised
         /\ refused.given = r.given
    BY <1>2, <1>4, <1>6, <1>7, Zenon DEF CareRecords, owed
  <1>11. /\ paid \in CareRecords /\ paid.handled = r.handled /\ paid.raised = r.raised
         /\ paid.given = given
    BY <1>2, <1>4, <1>5, <1>6, <1>7, Zenon DEF CareRecords, given, won, left
  <1>12. /\ a \in CareRecords /\ a.handled = r.handled /\ a.raised = r.raised
         /\ a.given = r.given \/ a.given = given
    BY <1>1, <1>9, <1>10, <1>11
  <1>13. QED BY <1>8, <1>12 DEF a

\* What is put on record of a complaint before anything is done about it.
LEMMA Recorded ==
  ASSUME NEW r \in CareRecords, NEW party \in Parties, NEW waiting \in Seq(Waits)
  PROVE  LET noted == [r EXCEPT !.handled = PruneHandled(Append(@, party), waiting),
                                !.raised[party] = @ + 1,
                                !.goodwill = Moved(@, -ComplaintCosts)]
         IN  /\ noted \in CareRecords
             /\ noted.handled = PruneHandled(Append(r.handled, party), waiting)
             /\ noted.raised = [r.raised EXCEPT ![party] = @ + 1]
             /\ noted.given = r.given
PROOF
  <1> DEFINE handled == PruneHandled(Append(r.handled, party), waiting)
             raised == [r.raised EXCEPT ![party] = @ + 1]
             goodwill == Moved(r.goodwill, -ComplaintCosts)
             noted == [r EXCEPT !.handled = PruneHandled(Append(@, party), waiting),
                                !.raised[party] = @ + 1,
                                !.goodwill = Moved(@, -ComplaintCosts)]
  <1>1. /\ r.handled \in Seq(Parties) /\ r.raised \in [Parties -> Nat]
        /\ r.given \in [Parties -> Nat] /\ r.recoveries \in Seq(Parties \X BOOLEAN)
        /\ r.unanswered \in SUBSET Parties /\ r.goodwill \in Int /\ r.cash \in Int
    BY DEF CareRecords
  <1>2. handled \in Seq(Parties)
    <2>1. Append(r.handled, party) \in Seq(Parties)
      BY <1>1
    <2>2. QED BY <2>1, PruneKeepsActive
  <1>3. raised \in [Parties -> Nat]
    BY <1>1
  <1>4. goodwill \in Int
    <2>1. -ComplaintCosts \in Int
      BY CareAssumption
    <2>2. QED BY <1>1, <2>1, MovedIs
  <1>5. noted = [r EXCEPT !.handled = handled, !.raised = raised, !.goodwill = goodwill]
    BY DEF CareRecords
  <1> HIDE DEF handled, raised, goodwill, noted
  <1>6. noted \in CareRecords /\ noted.handled = handled /\ noted.raised = raised /\ noted.given = r.given
    BY <1>1, <1>2, <1>3, <1>4, <1>5, Zenon DEF CareRecords
  <1>7. QED BY <1>6 DEF noted, handled, raised

LEMMA RaisedStaysARecord ==
  ASSUME NEW r \in CareRecords, NEW party \in Parties, NEW waiting \in Seq(Waits), NEW desk, NEW limit
  PROVE  RaiseComplaint(r, party, waiting, desk, limit) \in CareRecords
PROOF
  <1> DEFINE noted == [r EXCEPT !.handled = PruneHandled(Append(@, party), waiting),
                                !.raised[party] = @ + 1,
                                !.goodwill = Moved(@, -ComplaintCosts)]
  <1>1. noted \in CareRecords
    BY Recorded
  <1>2. RaiseComplaint(r, party, waiting, desk, limit) = AttemptRecovery(noted, party, desk, limit)
    BY DEF RaiseComplaint
  <1> HIDE DEF noted
  <1>3. QED BY <1>1, <1>2, AttemptedRecovery

\* A first complaint is answered and remembered, and nobody's complaint is lost by it.
LEMMA RaisedComplaint ==
  ASSUME NEW r \in CareRecords, Answered(r), NEW party \in Parties, r.raised[party] = 0,
         NEW waiting \in Seq(Waits), NEW desk, NEW limit
  PROVE  LET a == RaiseComplaint(r, party, waiting, desk, limit)
         IN  /\ Answered(a) /\ a.raised[party] = 1
             /\ \A p \in Parties : p # party => a.raised[p] = r.raised[p]
             /\ \A i \in DOMAIN waiting :
                  Complains(waiting[i]) /\ waiting[i].party \in ElementsOf(r.handled) \cup {party} =>
                    waiting[i].party \in ElementsOf(a.handled)
PROOF
  <1> DEFINE noted == [r EXCEPT !.handled = PruneHandled(Append(@, party), waiting),
                                !.raised[party] = @ + 1,
                                !.goodwill = Moved(@, -ComplaintCosts)]
             a == RaiseComplaint(r, party, waiting, desk, limit)
             longer == Append(r.handled, party)
  <1>1. /\ noted \in CareRecords
        /\ noted.handled = PruneHandled(longer, waiting)
        /\ noted.raised = [r.raised EXCEPT ![party] = @ + 1]
        /\ noted.given = r.given
    BY Recorded
  <1>2. a = AttemptRecovery(noted, party, desk, limit)
    BY DEF RaiseComplaint
  <1>3. r.handled \in Seq(Parties) /\ r.raised \in [Parties -> Nat] /\ r.given \in [Parties -> Nat]
    BY DEF CareRecords
  <1>4. longer \in Seq(Parties) /\ ElementsOf(longer) = ElementsOf(r.handled) \cup {party}
    BY <1>3, Appended
  <1> HIDE DEF noted, a, longer
  <1>5. /\ a \in CareRecords /\ a.handled = noted.handled /\ a.raised = noted.raised
        /\ \A p \in Parties : p # party => a.given[p] = noted.given[p]
        /\ a.given[party] \in {noted.given[party], noted.given[party] + GestureCost}
    BY <1>1, <1>2, AttemptedRecovery
  <1>6. a.raised[party] = 1 /\ \A p \in Parties : p # party => a.raised[p] = r.raised[p]
    BY <1>1, <1>3, <1>5
  <1>7. /\ ElementsOf(a.handled) \subseteq ElementsOf(longer)
        /\ \A i \in DOMAIN waiting :
             Complains(waiting[i]) /\ waiting[i].party \in ElementsOf(longer) =>
               waiting[i].party \in ElementsOf(a.handled)
    BY <1>1, <1>4, <1>5, PruneKeepsActive
  <1>8. Answered(a)
    <2>1. GestureCost \in Nat
      BY CareAssumption
    <2>2. r.given[party] = 0
      BY DEF Answered
    <2>3. \A p \in Parties : a.raised[p] \in {0, 1} /\ a.given[p] <= GestureCost
      BY <1>1, <1>5, <1>6, <2>1, <2>2 DEF Answered
    <2>4. \A p \in Parties : a.raised[p] = 0 => a.given[p] = 0
      BY <1>1, <1>5, <1>6 DEF Answered
    <2>5. \A p \in ElementsOf(a.handled) : a.raised[p] = 1
      <3>1. \A p \in ElementsOf(r.handled) : p \in Parties
        BY <1>3 DEF ElementsOf
      <3>2. QED BY <1>4, <1>6, <1>7, <3>1 DEF Answered
    <2>6. QED BY <2>3, <2>4, <2>5 DEF Answered
  <1>9. QED BY <1>4, <1>6, <1>7, <1>8 DEF a

\* What a round down the queue does, waiting party by waiting party.
Rounds(record, waiting, desk, limit) ==
  {u \in [0 .. Len(waiting) -> CareRecords] :
     /\ u[0] = record
     /\ \A n \in 1 .. Len(waiting) :
          u[n] = IF Complains(waiting[n]) /\ waiting[n].party \notin ElementsOf(u[n - 1].handled)
                 THEN RaiseComplaint(u[n - 1], waiting[n].party, waiting, desk, limit)
                 ELSE u[n - 1]
     /\ RunSatisfaction(record, waiting, desk, limit) = u[Len(waiting)]}

LEMMA RoundTaken ==
  ASSUME NEW record \in CareRecords, NEW waiting \in Seq(Waits), NEW desk, NEW limit
  PROVE  Rounds(record, waiting, desk, limit) # {}
PROOF
  <1> DEFINE N == Len(waiting)
             next(r, n) == IF Complains(waiting[n]) /\ waiting[n].party \notin ElementsOf(r.handled)
                           THEN RaiseComplaint(r, waiting[n].party, waiting, desk, limit)
                           ELSE r
             step == [p \in CareRecords \X (1 .. N) |-> next(p[1], p[2])]
             Solves(f) == f = [n \in 0 .. N |-> IF n = 0 THEN record ELSE next(f[n - 1], n)]
             u == CHOOSE f : Solves(f)
  <1>1. N \in Nat /\ \A n \in 1 .. N : waiting[n].party \in Parties
    <2>1. Len(waiting) \in Nat /\ \A n \in 1 .. Len(waiting) : waiting[n] \in Waits
      OBVIOUS
    <2>2. QED BY <2>1 DEF Waits
  <1>2. \A r \in CareRecords, n \in 1 .. N : next(r, n) \in CareRecords
    BY <1>1, RaisedStaysARecord
  <1>3. RunSatisfaction(record, waiting, desk, limit) = u[N]
    BY DEF RunSatisfaction
  <1> HIDE DEF next
  <1>4. step \in [CareRecords \X (1 .. N) -> CareRecords]
    BY <1>2
  <1>5. PICK f \in [0 .. N -> CareRecords] :
          f[0] = record /\ \A n \in 1 .. N : f[n] = step[<<f[n - 1], n>>]
    <2> HIDE DEF N, step
    <2>1. CoursesOf(N, CareRecords, record, step) # {}
      BY <1>1, <1>4, BoundedRecursion
    <2>2. QED BY <2>1 DEF CoursesOf
  <1>6. \A n \in 1 .. N : step[<<f[n - 1], n>>] = next(f[n - 1], n)
    <2>1. \A n \in 1 .. N : f[n - 1] \in CareRecords
      <3>1. \A n \in 1 .. N : n - 1 \in 0 .. N
        BY <1>1
      <3>2. QED BY <3>1
    <2>2. QED BY <2>1
  <1>7. Solves(f)
    <2>1. f = [n \in 0 .. N |-> f[n]]
      OBVIOUS
    <2> HIDE DEF N, step
    <2>2. \A n \in 0 .. N : f[n] = IF n = 0 THEN record ELSE next(f[n - 1], n)
      <3>1. \A n \in 0 .. N : n = 0 \/ n \in 1 .. N
        BY <1>1
      <3>2. QED BY <1>5, <1>6, <3>1
    <2>3. QED BY <2>1, <2>2, Zenon
  <1>8. Solves(u)
    <2> HIDE DEF Solves
    <2>1. QED BY <1>7
  <1> HIDE DEF u
  <1>9. u[0] = record
    <2>1. 0 \in 0 .. N
      BY <1>1
    <2> HIDE DEF N
    <2>2. u[0] = IF 0 = 0 THEN record ELSE next(u[0 - 1], 0)
      BY <1>8, <2>1, Zenon
    <2>3. QED BY <2>2
  <1>10. \A n \in 1 .. N : u[n] = next(u[n - 1], n)
    <2> SUFFICES ASSUME NEW n \in 1 .. N PROVE u[n] = next(u[n - 1], n)
      OBVIOUS
    <2>1. n \in 0 .. N /\ n # 0
      BY <1>1
    <2> HIDE DEF N
    <2>2. u[n] = IF n = 0 THEN record ELSE next(u[n - 1], n)
      BY <1>8, <2>1, Zenon
    <2>3. QED BY <2>1, <2>2
  <1>11. u \in [0 .. N -> CareRecords]
    <2> DEFINE P == {n \in 0 .. N : u[n] \in CareRecords}
    <2>1. 0 \in P
      <3>1. 0 \in 0 .. N
        BY <1>1
      <3>2. QED BY <1>9, <3>1
    <2>2. \A n \in 0 .. N - 1 : n \in P => n + 1 \in P
      <3>1. SUFFICES ASSUME NEW n \in 0 .. N - 1, u[n] \in CareRecords PROVE u[n + 1] \in CareRecords
        BY <1>1
      <3>2. n + 1 \in 1 .. N /\ (n + 1) - 1 = n
        BY <1>1
      <3>3. u[n + 1] = next(u[n], n + 1)
        BY <1>10, <3>2
      <3>4. QED BY <1>2, <3>1, <3>2, <3>3
    <2> HIDE DEF P
    <2>3. 0 .. N \subseteq P
      BY <1>1, <2>1, <2>2, BoundedInduction
    <2>4. \A n \in 0 .. N : u[n] \in CareRecords
      BY <2>3 DEF P
    <2>5. u = [n \in 0 .. N |-> u[n]]
      BY <1>8
    <2>6. QED BY <2>4, <2>5
  <1>12. \A n \in 1 .. N :
           u[n] = IF Complains(waiting[n]) /\ waiting[n].party \notin ElementsOf(u[n - 1].handled)
                  THEN RaiseComplaint(u[n - 1], waiting[n].party, waiting, desk, limit)
                  ELSE u[n - 1]
    BY <1>10 DEF next
  <1>13. QED BY <1>3, <1>9, <1>11, <1>12, Zenon DEF Rounds

\* A waiting party's complaint and what the record says of it go together.
Remembered(record, waiting) ==
  \A i \in DOMAIN waiting :
    Complains(waiting[i]) /\ record.raised[waiting[i].party] = 1 =>
      waiting[i].party \in ElementsOf(record.handled)

\* After a round whoever waits past the tolerance has complained, once, and is remembered.
LEMMA RoundAnswers ==
  ASSUME NEW record \in CareRecords, Answered(record), NEW waiting \in Seq(Waits),
         NEW desk, NEW limit, Remembered(record, waiting)
  PROVE  LET after == RunSatisfaction(record, waiting, desk, limit)
         IN  /\ after \in CareRecords /\ Answered(after) /\ Remembered(after, waiting)
             /\ \A i \in DOMAIN waiting :
                  Complains(waiting[i]) => after.raised[waiting[i].party] = 1
             /\ \A p \in Parties :
                  (\A i \in DOMAIN waiting : Complains(waiting[i]) => waiting[i].party # p)
                    => after.raised[p] = record.raised[p]
PROOF
  <1>1. PICK u \in [0 .. Len(waiting) -> CareRecords] :
          /\ u[0] = record
          /\ \A n \in 1 .. Len(waiting) :
               u[n] = IF Complains(waiting[n]) /\ waiting[n].party \notin ElementsOf(u[n - 1].handled)
                      THEN RaiseComplaint(u[n - 1], waiting[n].party, waiting, desk, limit)
                      ELSE u[n - 1]
          /\ RunSatisfaction(record, waiting, desk, limit) = u[Len(waiting)]
    <2>1. Rounds(record, waiting, desk, limit) # {}
      BY RoundTaken
    <2>2. QED BY <2>1, Zenon DEF Rounds
  <1> DEFINE N == Len(waiting)
             Quiet(p) == \A i \in DOMAIN waiting : Complains(waiting[i]) => waiting[i].party # p
             Good(r) == /\ Answered(r) /\ Remembered(r, waiting)
                        /\ \A p \in Parties : Quiet(p) => r.raised[p] = record.raised[p]
             Heard(r, n) == \A i \in 1 .. n : Complains(waiting[i]) => r.raised[waiting[i].party] = 1
             P == {n \in 0 .. N : Good(u[n]) /\ Heard(u[n], n)}
  <1>2. /\ N \in Nat /\ DOMAIN waiting = 1 .. N
        /\ \A n \in 1 .. N : waiting[n] \in Waits /\ waiting[n].party \in Parties
    BY DEF Waits
  <1>3. 0 \in P
    <2>1. 0 \in 0 .. N /\ 1 .. 0 = {}
      BY <1>2
    <2>2. Good(record) /\ Heard(record, 0)
      BY <2>1
    <2> HIDE DEF Good, Heard, N
    <2>3. QED BY <1>1, <2>1, <2>2
  <1>4. \A n \in 0 .. N - 1 : n \in P => n + 1 \in P
    <2>1. SUFFICES ASSUME NEW n \in 0 .. N - 1, n \in P PROVE n + 1 \in P
      OBVIOUS
    <2> DEFINE w == waiting[n + 1]
               r == u[n]
               s == u[n + 1]
    <2>2. n + 1 \in 1 .. N /\ (n + 1) - 1 = n /\ n \in 0 .. N /\ n + 1 \in 0 .. N
      BY <1>2
    <2>3. s = IF Complains(w) /\ w.party \notin ElementsOf(r.handled)
              THEN RaiseComplaint(r, w.party, waiting, desk, limit) ELSE r
      BY <1>1, <2>2
    <2>4. r \in CareRecords /\ Good(r) /\ Heard(r, n) /\ w.party \in Parties
      BY <1>1, <1>2, <2>1, <2>2
    <2>5. \A i \in 1 .. n + 1 : i \in 1 .. n \/ i = n + 1
      BY <2>2
    <2>6. \A i \in 1 .. n : i \in DOMAIN waiting
      BY <1>2, <2>2
    <2> HIDE DEF w, r, s, P, N
    <2>7. Good(s) /\ Heard(s, n + 1)
      <3>1. CASE Complains(w) /\ w.party \notin ElementsOf(r.handled)
        <4>1. r.raised[w.party] = 0
          <5>1. r.raised[w.party] # 1
            BY <1>2, <2>2, <2>4, <3>1 DEF Remembered, w
          <5>2. QED BY <2>4, <5>1 DEF Answered
        <4>2. /\ Answered(s) /\ s.raised[w.party] = 1
              /\ \A p \in Parties : p # w.party => s.raised[p] = r.raised[p]
              /\ \A i \in DOMAIN waiting :
                   Complains(waiting[i]) /\ waiting[i].party \in ElementsOf(r.handled) \cup {w.party} =>
                     waiting[i].party \in ElementsOf(s.handled)
          BY <2>3, <2>4, <3>1, <4>1, RaisedComplaint
        <4>3. Remembered(s, waiting)
          <5>1. SUFFICES ASSUME NEW i \in DOMAIN waiting, Complains(waiting[i]),
                                s.raised[waiting[i].party] = 1
                         PROVE  waiting[i].party \in ElementsOf(s.handled)
            BY DEF Remembered
          <5>2. waiting[i].party = w.party \/ waiting[i].party \in ElementsOf(r.handled)
            BY <1>2, <2>4, <4>2, <5>1 DEF Remembered
          <5>3. QED BY <4>2, <5>1, <5>2
        <4>4. \A p \in Parties : Quiet(p) => s.raised[p] = record.raised[p]
          <5>1. SUFFICES ASSUME NEW p \in Parties, Quiet(p) PROVE s.raised[p] = record.raised[p]
            OBVIOUS
          <5>2. p # w.party
            BY <1>2, <2>2, <3>1, <5>1 DEF w
          <5>3. QED BY <2>4, <4>2, <5>1, <5>2
        <4>5. Heard(s, n + 1)
          <5>1. SUFFICES ASSUME NEW i \in 1 .. n + 1, Complains(waiting[i])
                         PROVE  s.raised[waiting[i].party] = 1
            OBVIOUS
          <5>2. CASE i = n + 1
            BY <4>2, <5>2 DEF w
          <5>3. CASE i \in 1 .. n
            <6>1. r.raised[waiting[i].party] = 1 /\ waiting[i].party \in Parties
              BY <1>2, <2>4, <2>6, <5>1, <5>3
            <6>2. QED BY <4>2, <6>1
          <5>4. QED BY <2>5, <5>2, <5>3
        <4>6. QED BY <4>2, <4>3, <4>4, <4>5
      <3>2. CASE ~(Complains(w) /\ w.party \notin ElementsOf(r.handled))
        <4>1. s = r
          BY <2>3, <3>2
        <4>2. Complains(w) => s.raised[w.party] = 1
          BY <2>4, <3>2, <4>1 DEF Answered
        <4>3. Heard(s, n + 1)
          BY <2>4, <2>5, <4>1, <4>2 DEF w
        <4>4. QED BY <2>4, <4>1, <4>3
      <3>3. QED BY <3>1, <3>2
    <2> HIDE DEF Good, Heard
    <2>8. QED BY <2>2, <2>7 DEF P, s
  <1> HIDE DEF P
  <1>5. 0 .. N \subseteq P
    BY <1>2, <1>3, <1>4, BoundedInduction
  <1>6. N \in P
    BY <1>2, <1>5
  <1>7. Good(u[N]) /\ Heard(u[N], N) /\ u[N] \in CareRecords
    BY <1>1, <1>2, <1>6 DEF P
  <1> HIDE DEF N
  <1>8. QED BY <1>1, <1>2, <1>7 DEF N

\* Whoever waits in the queue is known at the desk.
LEMMA CareStarts ==
  CareInit => CareInv
PROOF
  <1> SUFFICES ASSUME CareInit PROVE CareInv
    OBVIOUS
  <1>1. queue = <<>> /\ arrived = {}
    BY DEF CareInit
  <1>2. /\ care.handled = <<>> /\ care.raised = [p \in Parties |-> 0]
        /\ care.given = [p \in Parties |-> 0]
    BY DEF CareInit
  <1>3. care \in CareRecords
    <2>1. <<>> \in Seq(Parties) /\ <<>> \in Seq(Parties \X BOOLEAN)
          /\ [p \in Parties |-> 0] \in [Parties -> Nat]
          /\ FullGoodwill \in Int /\ CareCash \in Int /\ {} \in SUBSET Parties
      BY CareAssumption
    <2>2. QED BY <2>1, Zenon DEF CareInit, CareRecords
  <1>4. Answered(care)
    <2>1. ElementsOf(<<>>) = {}
      BY DEF ElementsOf
    <2>2. GestureCost \in Nat
      BY CareAssumption
    <2>3. QED BY <1>2, <2>1, <2>2 DEF Answered
  <1>5. queue \in Seq(Waits) /\ DOMAIN queue = {}
    BY <1>1
  <1>6. QED BY <1>1, <1>2, <1>3, <1>4, <1>5 DEF CareInv, OneEach

\* Who stands in line after a round at the desk: those who stood there, a quantum longer, and
\* those who came.
LEMMA DeskLine ==
  ASSUME CareInv, NEW n \in Nat, NEW arriving \in [1 .. n -> Parties \ arrived], NoneTwice(arriving),
         NEW leaving
  PROVE  LET waiting == RunReception(arriving, leaving)
         IN  /\ waiting \in Seq(Waits) /\ OneEach(waiting)
             /\ \A i \in DOMAIN waiting :
                  \/ /\ waiting[i].party \in ElementsOf(arriving) /\ waiting[i].waited = 0
                  \/ \E j \in DOMAIN queue : /\ waiting[i].party = queue[j].party
                                             /\ waiting[i].waited = queue[j].waited + 1
PROOF
  <1> DEFINE stood == [i \in DOMAIN queue |-> [queue[i] EXCEPT !.waited = @ + 1]]
             joining == [i \in 1 .. Len(arriving) |-> [party |-> arriving[i], waited |-> 0]]
             all == stood \o joining
             staying == {w \in ElementsOf(all) : w.party \notin leaving}
             waiting == RunReception(arriving, leaving)
             From(w) == \/ w.party \in ElementsOf(arriving) /\ w.waited = 0
                        \/ \E j \in DOMAIN queue : /\ w.party = queue[j].party
                                                   /\ w.waited = queue[j].waited + 1
  <1>1. waiting = Sifted(all, staying)
    BY DEF RunReception
  <1>2. /\ queue \in Seq(Waits) /\ Len(queue) \in Nat /\ DOMAIN queue = 1 .. Len(queue)
        /\ \A i \in 1 .. Len(queue) : queue[i] \in Waits
    BY DEF CareInv
  <1>3. arriving \in Seq(Parties \ arrived) /\ Len(arriving) = n /\ DOMAIN arriving = 1 .. n
    OBVIOUS
  <1>4. stood \in Seq(Waits) /\ Len(stood) = Len(queue)
    <2>1. \A w \in Waits : [w EXCEPT !.waited = @ + 1] \in Waits
      BY DEF Waits
    <2>2. \A i \in 1 .. Len(queue) : [queue[i] EXCEPT !.waited = @ + 1] \in Waits
      BY <1>2, <2>1
    <2>3. QED BY <1>2, <2>2
  <1>5. \A i \in 1 .. Len(queue) : stood[i].party = queue[i].party /\ stood[i].waited = queue[i].waited + 1
    BY <1>2 DEF Waits
  <1>6. joining \in Seq(Waits) /\ Len(joining) = n
    BY <1>3 DEF Waits
  <1>7. \A i \in 1 .. n : joining[i].party = arriving[i] /\ joining[i].waited = 0
    BY <1>3
  <1> HIDE DEF stood, joining
  <1>8. /\ all \in Seq(Waits) /\ Len(all) = Len(queue) + n /\ DOMAIN all = 1 .. Len(queue) + n
        /\ \A i \in 1 .. Len(queue) : all[i] = stood[i]
        /\ \A i \in Len(queue) + 1 .. Len(queue) + n : all[i] = joining[i - Len(queue)]
    <2>1. /\ stood \o joining \in Seq(Waits)
          /\ Len(stood \o joining) = Len(stood) + Len(joining)
          /\ \A i \in 1 .. Len(stood) + Len(joining) :
               (stood \o joining)[i] = IF i <= Len(stood) THEN stood[i] ELSE joining[i - Len(stood)]
      BY <1>4, <1>6, ConcatProperties
    <2> DEFINE b == Len(queue)
    <2>2. b \in Nat /\ Len(stood) = b /\ Len(joining) = n
      BY <1>2, <1>4, <1>6
    <2>3. DOMAIN all = 1 .. Len(all)
      BY <2>1
    <2> HIDE DEF all, b
    <2>4. /\ all \in Seq(Waits) /\ Len(all) = b + n
          /\ \A i \in 1 .. b + n : all[i] = IF i <= b THEN stood[i] ELSE joining[i - b]
      BY <2>1, <2>2 DEF all
    <2>5. /\ \A i \in 1 .. b : i \in 1 .. b + n /\ i <= b
          /\ \A i \in b + 1 .. b + n : i \in 1 .. b + n /\ ~(i <= b)
      BY <2>2
    <2>6. QED BY <2>3, <2>4, <2>5 DEF b
  <1> HIDE DEF all, staying, waiting
  <1>9. \A i \in 1 .. Len(queue) + n :
          \/ i \in 1 .. Len(queue)
          \/ i \in Len(queue) + 1 .. Len(queue) + n /\ i - Len(queue) \in 1 .. n
    BY <1>2
  <1>10. \A i \in 1 .. Len(queue) :
           all[i].party = queue[i].party /\ all[i].waited = queue[i].waited + 1
    BY <1>5, <1>8
  <1>11. \A i \in Len(queue) + 1 .. Len(queue) + n :
           i - Len(queue) \in 1 .. n =>
             all[i].party = arriving[i - Len(queue)] /\ all[i].waited = 0
    BY <1>7, <1>8
  <1>12. \A i \in DOMAIN all : From(all[i])
    <2>1. SUFFICES ASSUME NEW i \in DOMAIN all PROVE From(all[i])
      OBVIOUS
    <2>2. CASE i \in 1 .. Len(queue)
      BY <1>2, <1>10, <2>2
    <2>3. CASE i \in Len(queue) + 1 .. Len(queue) + n /\ i - Len(queue) \in 1 .. n
      BY <1>3, <1>11, <2>3 DEF ElementsOf
    <2>4. QED BY <1>8, <1>9, <2>1, <2>2, <2>3
  <1>13. OneEach(all)
    <2>1. SUFFICES ASSUME NEW i \in DOMAIN all, NEW j \in DOMAIN all, all[i].party = all[j].party
                   PROVE  i = j
      BY DEF OneEach
    <2>2. \A k \in 1 .. Len(queue) : queue[k].party \in arrived
      BY <1>2 DEF CareInv
    <2>3. \A k \in 1 .. n : arriving[k] \notin arrived
      OBVIOUS
    <2>4. CASE i \in 1 .. Len(queue) /\ j \in 1 .. Len(queue)
      BY <1>2, <1>10, <2>1, <2>4 DEF CareInv, OneEach
    <2>5. CASE /\ i \in Len(queue) + 1 .. Len(queue) + n /\ i - Len(queue) \in 1 .. n
               /\ j \in Len(queue) + 1 .. Len(queue) + n /\ j - Len(queue) \in 1 .. n
      <3>1. arriving[i - Len(queue)] = arriving[j - Len(queue)]
        BY <1>11, <2>1, <2>5
      <3>2. i - Len(queue) = j - Len(queue)
        BY <1>3, <2>5, <3>1 DEF NoneTwice
      <3>3. QED BY <1>2, <2>5, <3>2
    <2>6. CASE /\ i \in 1 .. Len(queue)
               /\ j \in Len(queue) + 1 .. Len(queue) + n /\ j - Len(queue) \in 1 .. n
      BY <1>10, <1>11, <2>1, <2>2, <2>3, <2>6
    <2>7. CASE /\ j \in 1 .. Len(queue)
               /\ i \in Len(queue) + 1 .. Len(queue) + n /\ i - Len(queue) \in 1 .. n
      BY <1>10, <1>11, <2>1, <2>2, <2>3, <2>7
    <2>8. QED BY <1>8, <1>9, <2>1, <2>4, <2>5, <2>6, <2>7
  <1>14. /\ waiting \in Seq(Waits) /\ ElementsOf(waiting) = ElementsOf(all) \cap staying
         /\ NoneTwice(all) => NoneTwice(waiting)
    BY <1>1, <1>8, SiftedIs
  <1>15. NoneTwice(all)
    BY <1>13 DEF NoneTwice, OneEach
  <1>16. \A x, y \in ElementsOf(all) : x.party = y.party => x = y
    BY <1>13 DEF OneEach, ElementsOf
  <1>17. \A i \in DOMAIN waiting : waiting[i] \in ElementsOf(all)
    BY <1>14 DEF ElementsOf
  <1>18. OneEach(waiting)
    BY <1>14, <1>15, <1>16, <1>17 DEF NoneTwice, OneEach
  <1>19. \A w \in ElementsOf(all) : From(w)
    BY <1>12 DEF ElementsOf
  <1>20. \A i \in DOMAIN waiting : From(waiting[i])
    BY <1>17, <1>19
  <1>21. QED BY <1>14, <1>18, <1>20 DEF waiting

LEMMA CareStays ==
  CareInv /\ [CareNext]_careVars => CareInv'
PROOF
  <1> SUFFICES ASSUME CareInv, [CareNext]_careVars PROVE CareInv'
    OBVIOUS
  <1>1. /\ care \in CareRecords /\ Answered(care)
        /\ queue \in Seq(Waits) /\ OneEach(queue)
        /\ \A i \in DOMAIN queue : queue[i].party \in arrived
        /\ \A p \in Parties : p \notin arrived => care.raised[p] = 0
    BY DEF CareInv
  <1>2. ASSUME NEW n \in Nat, NEW arriving \in [1 .. n -> Parties \ arrived], NEW leaving,
               NEW desk, NEW limit, Quantum(arriving, leaving, desk, limit)
        PROVE  CareInv'
    <2> DEFINE waiting == RunReception(arriving, leaving)
               after == RunSatisfaction(care, waiting, desk, limit)
               seen(w) == [w EXCEPT !.waited = IF @ > WaitTolerance THEN WaitTolerance + 1 ELSE @]
    <2>1. /\ NoneTwice(arriving)
          /\ queue' = [i \in DOMAIN waiting |-> seen(waiting[i])]
          /\ arrived' = arrived \cup ElementsOf(arriving)
          /\ care' = after
      BY <1>2 DEF Quantum
    <2>2. /\ waiting \in Seq(Waits) /\ OneEach(waiting)
          /\ \A i \in DOMAIN waiting :
               \/ waiting[i].party \in ElementsOf(arriving) /\ waiting[i].waited = 0
               \/ \E j \in DOMAIN queue : /\ waiting[i].party = queue[j].party
                                          /\ waiting[i].waited = queue[j].waited + 1
      BY <2>1, DeskLine
    <2>3. WaitTolerance \in Nat
      BY CareAssumption
    <2> HIDE DEF waiting
    <2>4. ElementsOf(arriving) \subseteq Parties \ arrived
      BY DEF ElementsOf
    <2>5. \A j \in DOMAIN queue : queue[j] \in Waits
      BY <1>1
    <2>6. \A i \in DOMAIN waiting : waiting[i] \in Waits /\ waiting[i].party \in Parties
      <3>1. \A i \in DOMAIN waiting : waiting[i] \in Waits
        BY <2>2
      <3>2. QED BY <3>1 DEF Waits
    <2>7. \A i \in DOMAIN waiting :
            /\ waiting[i].party \in arrived'
            /\ Complains(waiting[i]) /\ care.raised[waiting[i].party] = 1 =>
                 waiting[i].party \in ElementsOf(care.handled)
            /\ ~Complains(waiting[i]) => care.raised[waiting[i].party] = 0
      <3>1. SUFFICES ASSUME NEW i \in DOMAIN waiting
                     PROVE  /\ waiting[i].party \in arrived'
                            /\ Complains(waiting[i]) /\ care.raised[waiting[i].party] = 1 =>
                                 waiting[i].party \in ElementsOf(care.handled)
                            /\ ~Complains(waiting[i]) => care.raised[waiting[i].party] = 0
        OBVIOUS
      <3>2. CASE waiting[i].party \in ElementsOf(arriving)
        <4>1. care.raised[waiting[i].party] = 0
          BY <1>1, <2>4, <3>2
        <4>2. QED BY <2>1, <3>2, <4>1
      <3>3. ASSUME NEW j \in DOMAIN queue, waiting[i].party = queue[j].party,
                   waiting[i].waited = queue[j].waited + 1
            PROVE  /\ waiting[i].party \in arrived'
                   /\ Complains(waiting[i]) /\ care.raised[waiting[i].party] = 1 =>
                        waiting[i].party \in ElementsOf(care.handled)
                   /\ ~Complains(waiting[i]) => care.raised[waiting[i].party] = 0
        <4>1. /\ Complains(queue[j]) <=> care.raised[queue[j].party] = 1
              /\ Complains(queue[j]) => queue[j].party \in ElementsOf(care.handled)
          BY DEF CareInv
        <4>2. Complains(queue[j]) => Complains(waiting[i])
          <5>1. queue[j].waited \in Nat
            BY <2>5 DEF Waits
          <5>2. QED BY <2>3, <3>3, <5>1 DEF Complains
        <4>3. care.raised[queue[j].party] \in {0, 1}
          <5>1. queue[j].party \in Parties
            BY <2>5 DEF Waits
          <5>2. QED BY <1>1, <5>1 DEF Answered
        <4>4. waiting[i].party \in arrived'
          BY <1>1, <2>1, <3>3
        <4>5. QED BY <3>3, <4>1, <4>2, <4>3, <4>4
      <3>4. QED BY <2>2, <3>1, <3>2, <3>3
    <2>8. Remembered(care, waiting)
      BY <2>7 DEF Remembered
    <2>9. /\ after \in CareRecords /\ Answered(after) /\ Remembered(after, waiting)
          /\ \A i \in DOMAIN waiting : Complains(waiting[i]) => after.raised[waiting[i].party] = 1
          /\ \A p \in Parties :
               (\A i \in DOMAIN waiting : Complains(waiting[i]) => waiting[i].party # p)
                 => after.raised[p] = care.raised[p]
      BY <1>1, <2>2, <2>8, RoundAnswers
    <2> HIDE DEF after
    <2>10. \A w \in Waits : /\ seen(w) \in Waits /\ seen(w).party = w.party
                            /\ Complains(seen(w)) <=> Complains(w)
      BY <2>3 DEF Waits, Complains
    <2> HIDE DEF seen
    <2>11. /\ DOMAIN queue' = DOMAIN waiting
           /\ \A i \in DOMAIN waiting : /\ queue'[i] = seen(waiting[i])
                                        /\ queue'[i].party = waiting[i].party
                                        /\ Complains(queue'[i]) <=> Complains(waiting[i])
      <3>1. DOMAIN queue' = DOMAIN waiting /\ \A i \in DOMAIN waiting : queue'[i] = seen(waiting[i])
        BY <2>1
      <3>2. QED BY <2>6, <2>10, <3>1
    <2>12. queue' \in Seq(Waits)
      <3>1. DOMAIN waiting = 1 .. Len(waiting) /\ Len(waiting) \in Nat
        BY <2>2
      <3>2. \A i \in 1 .. Len(waiting) : seen(waiting[i]) \in Waits
        BY <2>6, <2>10, <3>1
      <3>3. QED BY <2>1, <3>1, <3>2
    <2>13. OneEach(queue')
      BY <2>2, <2>11 DEF OneEach
    <2>14. \A p \in Parties : p \notin arrived' => after.raised[p] = 0
      <3>1. SUFFICES ASSUME NEW p \in Parties, p \notin arrived' PROVE after.raised[p] = 0
        OBVIOUS
      <3>2. care.raised[p] = 0
        BY <1>1, <2>1, <3>1
      <3>3. QED BY <2>7, <2>9, <3>1, <3>2
    <2>15. \A i \in DOMAIN waiting :
             /\ Complains(waiting[i]) <=> after.raised[waiting[i].party] = 1
             /\ Complains(waiting[i]) => waiting[i].party \in ElementsOf(after.handled)
      <3>1. SUFFICES ASSUME NEW i \in DOMAIN waiting
                     PROVE  /\ Complains(waiting[i]) <=> after.raised[waiting[i].party] = 1
                            /\ Complains(waiting[i]) => waiting[i].party \in ElementsOf(after.handled)
        OBVIOUS
      <3>2. CASE Complains(waiting[i])
        BY <2>9, <3>2 DEF Remembered
      <3>3. CASE ~Complains(waiting[i])
        <4>1. \A j \in DOMAIN waiting :
                Complains(waiting[j]) => waiting[j].party # waiting[i].party
          BY <2>2, <3>3 DEF OneEach
        <4>2. after.raised[waiting[i].party] = 0
          BY <2>6, <2>7, <2>9, <3>3, <4>1
        <4>3. QED BY <3>3, <4>2
      <3>4. QED BY <3>2, <3>3
    <2>16. \A i \in DOMAIN queue' :
             /\ queue'[i].party \in arrived'
             /\ Complains(queue'[i]) <=> care'.raised[queue'[i].party] = 1
             /\ Complains(queue'[i]) => queue'[i].party \in ElementsOf(care'.handled)
      BY <2>1, <2>7, <2>11, <2>15
    <2>17. QED BY <2>1, <2>9, <2>12, <2>13, <2>14, <2>16 DEF CareInv
  <1>3. CASE Replenish
    <2>1. /\ care' = [care EXCEPT !.cash = CareCash] /\ queue' = queue /\ arrived' = arrived
      BY <1>3 DEF Replenish
    <2>2. CareCash \in Int
      BY CareAssumption
    <2>3. /\ care' \in CareRecords /\ care'.handled = care.handled /\ care'.raised = care.raised
          /\ care'.given = care.given
      BY <1>1, <2>1, <2>2, Zenon DEF CareRecords
    <2>4. QED BY <2>1, <2>3 DEF CareInv, Answered
  <1>4. CASE UNCHANGED careVars
    BY <1>4 DEF careVars, CareInv
  <1>5. CASE CareNext
    <2>1. CASE \E n \in 0 .. Cardinality(Parties \ arrived) :
               \E arriving \in [1 .. n -> Parties \ arrived], leaving \in SUBSET arrived,
                  desk \in {0, 1}, limit \in RecoveryLimits :
                 Quantum(arriving, leaving, desk, limit)
      <3>1. PICK n \in 0 .. Cardinality(Parties \ arrived) :
               \E arriving \in [1 .. n -> Parties \ arrived], leaving \in SUBSET arrived,
                  desk \in {0, 1}, limit \in RecoveryLimits :
                 Quantum(arriving, leaving, desk, limit)
        BY <2>1
      <3>2. n \in Nat
        OBVIOUS
      <3>3. QED BY <1>2, <3>1, <3>2
    <2>2. QED BY <1>3, <1>5, <2>1 DEF CareNext
  <1>6. QED BY <1>4, <1>5

\* Nobody complains twice of one wait or is given more than one gesture, and whoever waits
\* past the tolerance has complained, for any queue and any length of memory
\* (GameSimulation.runSatisfaction, pruneHandledComplaints).
THEOREM GuestsAreAnsweredOnce == CareSpec => []CaredForOnce
PROOF
  <1>1. CareInv => CaredForOnce
    BY DEF CareInv, Answered, CaredForOnce
  <1>2. QED BY CareStarts, CareStays, <1>1, PTL DEF CareSpec

-----------------------------------------------------------------------------
(* What bites was covered, or is answered for.                             *)

\* The claims in hand have a policy each, of the peril they were filed for.
ClaimsInOrder ==
  /\ DOMAIN policies \subseteq Policies
  /\ \A id \in DOMAIN policies : DOMAIN policies[id] = {"peril", "value", "limit", "deductible"}
  /\ \A c \in DOMAIN claims : DOMAIN claims[c] = {"policy", "peril", "due", "status", "paid"}
  /\ ClaimsFindTheirPolicy

\* Whatever is held back, a rule that was looked at holds it.
RestrictionsInOrder ==
  /\ DOMAIN rulings \subseteq Rules
  /\ \A f \in DOMAIN restricted : restricted[f] \in DOMAIN rulings
  /\ RestrictionsAreBreaches

\* A breach was found after the grace; one on the board may be met since the last day.
BreachesInOrder ==
  /\ riskDay \in Nat
  /\ \A rule \in DOMAIN rulings : rulings[rule] = "noncompliant" =>
        rule.effective <= riskDay /\ rule.graceEnds <= riskDay
  /\ \A rule \in DOMAIN board : DOMAIN board[rule] = {"kind", "acknowledged"}
  /\ \A rule \in DOMAIN board : board[rule].kind = "breach" =>
        rule \in DOMAIN rulings /\ rulings[rule] \in {"compliant", "noncompliant"}
  /\ BreachesShownAreReal

RiskInv == ClaimsInOrder /\ RestrictionsInOrder /\ BreachesInOrder

LEMMA RiskStarts == RiskInit => RiskInv
  BY DEF RiskInit, RiskInv, ClaimsInOrder, ClaimsFindTheirPolicy, RestrictionsInOrder,
         RestrictionsAreBreaches, BreachesInOrder, BreachesShownAreReal

\* Cover that is taken out, varied or given up leaves the claims in hand with theirs.
LEMMA CoverKeepsClaims ==
  ASSUME ClaimsInOrder, NEW id \in Policies,
         \/ \E peril \in Perils, value, limit, deductible \in Sums :
              TakeOutPolicy(id, peril, value, limit, deductible)
         \/ \E limit, deductible \in Sums : VaryPolicy(id, limit, deductible)
         \/ CancelPolicy(id)
  PROVE  ClaimsInOrder'
PROOF
  <1>1. claims' = claims
    BY DEF TakeOutPolicy, VaryPolicy, CancelPolicy
  <1>2. DOMAIN policies' \subseteq DOMAIN policies \cup {id}
    BY DEF TakeOutPolicy, VaryPolicy, CancelPolicy, WithEntry, WithoutEntries
  <1>3. ASSUME NEW p \in DOMAIN policies, p # id
        PROVE  p \in DOMAIN policies' /\ policies'[p] = policies[p]
    BY <1>3 DEF TakeOutPolicy, VaryPolicy, CancelPolicy, WithEntry, WithoutEntries
  <1>4. CASE \E peril \in Perils, value, limit, deductible \in Sums :
               TakeOutPolicy(id, peril, value, limit, deductible)
    <2>1. id \notin DOMAIN policies /\ id \in DOMAIN policies'
          /\ DOMAIN policies'[id] = {"peril", "value", "limit", "deductible"}
      BY <1>4 DEF TakeOutPolicy, WithEntry
    <2>2. QED BY <1>1, <1>2, <1>3, <2>1 DEF ClaimsInOrder, ClaimsFindTheirPolicy
  <1>5. ASSUME NEW limit \in Sums, NEW deductible \in Sums, VaryPolicy(id, limit, deductible)
        PROVE  ClaimsInOrder'
    <2> DEFINE p == [policies[id] EXCEPT !.limit = limit, !.deductible = deductible]
    <2>1. id \in DOMAIN policies /\ policies' = [policies EXCEPT ![id] = p]
      BY <1>5 DEF VaryPolicy
    <2>2. DOMAIN p = DOMAIN policies[id] /\ p.peril = policies[id].peril
      BY <2>1 DEF ClaimsInOrder
    <2> HIDE DEF p
    <2>3. DOMAIN policies' = DOMAIN policies /\ policies'[id] = p
      BY <2>1
    <2>4. QED BY <1>1, <1>3, <2>1, <2>2, <2>3 DEF ClaimsInOrder, ClaimsFindTheirPolicy
  <1>6. CASE CancelPolicy(id)
    <2>1. /\ id \notin DOMAIN policies'
          /\ \A c \in DOMAIN claims : ~(claims[c].policy = id /\ claims[c].status = "filed")
      BY <1>6 DEF CancelPolicy, WithoutEntries
    <2>2. QED BY <1>1, <1>2, <1>3, <2>1 DEF ClaimsInOrder, ClaimsFindTheirPolicy
  <1>7. QED BY <1>4, <1>5, <1>6

\* The first of the policies that insure a peril insures it.
LEMMA FirstCoverInsures ==
  ASSUME ClaimsInOrder, NEW peril, CoverFor(peril) # {}
  PROVE  /\ LowestOf(CoverFor(peril)) \in DOMAIN policies
         /\ policies[LowestOf(CoverFor(peril))].peril = peril
PROOF
  <1>1. CoverFor(peril) \subseteq Nat
    BY RiskAssumption DEF ClaimsInOrder, CoverFor
  <1>2. \E x \in CoverFor(peril) : \A y \in CoverFor(peril) : x <= y
    BY <1>1, LeastNumber
  <1>3. LowestOf(CoverFor(peril)) \in CoverFor(peril)
    BY <1>2 DEF LowestOf
  <1>4. QED BY <1>3 DEF CoverFor

\* A claim filed is filed under a policy in force, one settled is not in hand any more.
LEMMA MidnightKeepsClaims ==
  ASSUME ClaimsInOrder, NEW broken, NEW services, NEW assessment, NEW dear, NEW wage,
         Midnight(broken, services, assessment, dear, wage)
  PROVE  ClaimsInOrder'
PROOF
  <1> DEFINE Parts == {"policy", "peril", "due", "status", "paid"}
             filed == FileClaims(broken, assessment)
             insured == {a \in broken \cap DOMAIN PerilOf : CoverFor(PerilOf[a]) # {}}
             new == {<<riskDay, a>> : a \in insured}
             Filed(a) == [policy |-> LowestOf(CoverFor(PerilOf[a])), peril |-> PerilOf[a],
                          due |-> riskDay + assessment, status |-> "filed", paid |-> 0]
  <1>1. policies' = policies
        /\ claims' = [c \in DOMAIN filed |->
                        IF AssessmentOver(filed[c]) THEN SettleClaim(filed[c]) ELSE filed[c]]
    BY DEF Midnight
  <1>2. /\ DOMAIN filed = DOMAIN claims \cup new
        /\ \A c \in DOMAIN filed : filed[c] = IF c \in new THEN Filed(c[2]) ELSE claims[c]
    BY DEF FileClaims
  <1>3. ASSUME NEW c \in DOMAIN filed
        PROVE  /\ DOMAIN filed[c] = Parts
               /\ filed[c].status = "filed" =>
                    /\ filed[c].policy \in DOMAIN policies
                    /\ policies[filed[c].policy].peril = filed[c].peril
    <2>1. CASE c \in new
      <3>1. PICK a \in insured : c = <<riskDay, a>>
        BY <2>1
      <3>2. filed[c] = Filed(a)
        BY <1>2, <2>1, <3>1
      <3>3. /\ LowestOf(CoverFor(PerilOf[a])) \in DOMAIN policies
            /\ policies[LowestOf(CoverFor(PerilOf[a]))].peril = PerilOf[a]
        BY FirstCoverInsures
      <3>4. QED BY <3>2, <3>3
    <2>2. CASE c \notin new
      BY <1>2, <2>2 DEF ClaimsInOrder, ClaimsFindTheirPolicy
    <2>3. QED BY <2>1, <2>2
  <1> HIDE DEF filed
  <1>4. \A c \in DOMAIN filed :
          /\ DOMAIN SettleClaim(filed[c]) = Parts
          /\ SettleClaim(filed[c]).status # "filed"
    BY <1>3 DEF SettleClaim
  <1>5. QED BY <1>1, <1>3, <1>4 DEF ClaimsInOrder, ClaimsFindTheirPolicy

\* What the evaluation works on: the facilities held back after so many rules.
HeldBack == {rule.facility : rule \in Rules}
Holdings == UNION {[D -> Rules] : D \in SUBSET HeldBack}
Released(dear) ==
  WithoutEntries(restricted, {f \in DOMAIN restricted : ~Applicable(restricted[f], dear)})
AfterRule(held, n, verdicts, dear) ==
  IF Applicable(RuleAt(n), dear)
  THEN Enforced(held, RuleAt(n), verdicts[RuleAt(n)]) ELSE held

\* The rules are numbered through.
LEMMA RulesNumbered ==
  /\ Cardinality(Rules) \in Nat
  /\ \A n \in 1 .. Cardinality(Rules) : RuleAt(n) \in Rules /\ RuleAt(n).order = n
  /\ \A rule \in Rules : rule.order \in 1 .. Cardinality(Rules) /\ RuleAt(rule.order) = rule
PROOF
  <1>1. Cardinality(Rules) \in Nat
    BY RiskAssumption, FS_CardinalityType
  <1>2. {rule.order : rule \in Rules} = 1 .. Cardinality(Rules)
    BY RiskAssumption
  <1>3. \A n \in 1 .. Cardinality(Rules) : \E rule \in Rules : rule.order = n
    BY <1>2
  <1>4. \A n \in 1 .. Cardinality(Rules) : RuleAt(n) \in Rules /\ RuleAt(n).order = n
    BY <1>3 DEF RuleAt
  <1>5. \A rule \in Rules : rule.order \in 1 .. Cardinality(Rules)
    BY <1>2
  <1>6. \A rule \in Rules : RuleAt(rule.order) = rule
    BY <1>4, <1>5, RiskAssumption
  <1>7. QED BY <1>1, <1>4, <1>5, <1>6

\* A holding gives a facility of the rules to one of them.
LEMMA HoldingIs ==
  \A h : h \in Holdings <=>
    /\ h = [f \in DOMAIN h |-> h[f]]
    /\ DOMAIN h \subseteq HeldBack /\ \A f \in DOMAIN h : h[f] \in Rules
PROOF
  <1> SUFFICES ASSUME NEW h
               PROVE  h \in Holdings <=>
                        /\ h = [f \in DOMAIN h |-> h[f]]
                        /\ DOMAIN h \subseteq HeldBack /\ \A f \in DOMAIN h : h[f] \in Rules
    OBVIOUS
  <1>1. h \in Holdings <=> \E D \in SUBSET HeldBack : h \in [D -> Rules]
    BY DEF Holdings
  <1>2. \A D : h \in [D -> Rules] <=>
          h = [f \in D |-> h[f]] /\ DOMAIN h = D /\ \A f \in D : h[f] \in Rules
    OBVIOUS
  <1>3. QED BY <1>1, <1>2

\* The step of one rule, from any holding.
LEMMA OneRuleEnforced ==
  ASSUME NEW held \in Holdings, NEW rule \in Rules, NEW verdict
  PROVE  Enforced(held, rule, verdict) \in Holdings
PROOF
  <1> DEFINE next == Enforced(held, rule, verdict)
  <1>1. DOMAIN held \subseteq HeldBack /\ \A f \in DOMAIN held : held[f] \in Rules
    BY HoldingIs
  <1>2. rule.facility \in HeldBack
    BY DEF HeldBack
  <1>3. next = [f \in DOMAIN next |-> next[f]]
    BY DEF Enforced, WithEntry, WithoutEntries
  <1>4. DOMAIN next \subseteq HeldBack /\ \A f \in DOMAIN next : next[f] \in Rules
    BY <1>1, <1>2 DEF Enforced, WithEntry, WithoutEntries
  <1> HIDE DEF next
  <1>5. next \in Holdings
    BY <1>3, <1>4, HoldingIs
  <1>6. QED BY <1>5 DEF next

\* runComplianceEvaluation: what it computes, rule by rule.
LEMMA RestrictionsCourse ==
  ASSUME NEW verdicts, NEW dear, Released(dear) \in Holdings
  PROVE  \E h \in [0 .. Cardinality(Rules) -> Holdings] :
           /\ h[0] = Released(dear)
           /\ \A n \in 1 .. Cardinality(Rules) : h[n] = AfterRule(h[n - 1], n, verdicts, dear)
           /\ RestrictionsAfter(verdicts, dear) = h[Cardinality(Rules)]
PROOF
  <1> DEFINE N == Cardinality(Rules)
             base == Released(dear)
             step == [p \in Holdings \X (1 .. N) |-> AfterRule(p[1], p[2], verdicts, dear)]
             Solves(f) == f = [n \in 0 .. N |->
                IF n = 0
                THEN WithoutEntries(restricted,
                       {g \in DOMAIN restricted : ~Applicable(restricted[g], dear)})
                ELSE IF Applicable(RuleAt(n), dear)
                     THEN Enforced(f[n - 1], RuleAt(n), verdicts[RuleAt(n)])
                     ELSE f[n - 1]]
             h == CHOOSE f : Solves(f)
  <1>1. N \in Nat
    BY RulesNumbered
  <1>2. step \in [Holdings \X (1 .. N) -> Holdings]
    <2>1. ASSUME NEW held \in Holdings, NEW n \in 1 .. N
          PROVE  AfterRule(held, n, verdicts, dear) \in Holdings
      BY RulesNumbered, OneRuleEnforced DEF AfterRule
    <2>2. QED BY <2>1
  <1>3. PICK f \in [0 .. N -> Holdings] :
          f[0] = base /\ \A n \in 1 .. N : f[n] = step[<<f[n - 1], n>>]
    <2> HIDE DEF N, base, step
    <2>1. base \in Holdings
      BY DEF base
    <2>2. CoursesOf(N, Holdings, base, step) # {}
      BY <1>1, <1>2, <2>1, BoundedRecursion
    <2>3. QED BY <2>2 DEF CoursesOf
  <1>4. \A n \in 1 .. N : step[<<f[n - 1], n>>] = AfterRule(f[n - 1], n, verdicts, dear)
    <2>1. SUFFICES ASSUME NEW n \in 1 .. N
                   PROVE  step[<<f[n - 1], n>>] = AfterRule(f[n - 1], n, verdicts, dear)
      OBVIOUS
    <2>2. f[n - 1] \in Holdings
      BY <1>1
    <2>3. QED BY <2>2
  <1>5. Solves(f)
    <2>1. f[0] = base
      BY <1>3
    <2>2. \A n \in 1 .. N : f[n] = AfterRule(f[n - 1], n, verdicts, dear)
      BY <1>3, <1>4
    <2>3. f = [n \in 0 .. N |-> f[n]]
      OBVIOUS
    <2> HIDE DEF N, step
    <2>4. \A n \in 0 .. N : f[n] =
            IF n = 0
            THEN WithoutEntries(restricted,
                   {g \in DOMAIN restricted : ~Applicable(restricted[g], dear)})
            ELSE IF Applicable(RuleAt(n), dear)
                 THEN Enforced(f[n - 1], RuleAt(n), verdicts[RuleAt(n)])
                 ELSE f[n - 1]
      <3>1. \A n \in 0 .. N : n = 0 \/ n \in 1 .. N
        BY <1>1
      <3>2. QED BY <2>1, <2>2, <3>1, Zenon DEF Released, AfterRule
    <2>5. QED BY <2>3, <2>4, Zenon
  <1>6. Solves(h)
    <2> HIDE DEF Solves
    <2>1. QED BY <1>5
  <1>7. RestrictionsAfter(verdicts, dear) = h[N]
    BY DEF RestrictionsAfter
  <1> HIDE DEF h
  <1>8. h[0] = base
    BY <1>1, <1>6 DEF Released
  <1>9. \A n \in 1 .. N : h[n] = AfterRule(h[n - 1], n, verdicts, dear)
    <2> SUFFICES ASSUME NEW n \in 1 .. N PROVE h[n] = AfterRule(h[n - 1], n, verdicts, dear)
      OBVIOUS
    <2>1. n \in 0 .. N /\ n # 0
      BY <1>1
    <2> HIDE DEF N
    <2>2. h[n] = IF n = 0
                 THEN WithoutEntries(restricted,
                        {g \in DOMAIN restricted : ~Applicable(restricted[g], dear)})
                 ELSE IF Applicable(RuleAt(n), dear)
                      THEN Enforced(h[n - 1], RuleAt(n), verdicts[RuleAt(n)])
                      ELSE h[n - 1]
      BY <1>6, <2>1, Zenon
    <2>3. QED BY <2>1, <2>2 DEF AfterRule
  <1>10. h \in [0 .. N -> Holdings]
    <2> DEFINE P == {n \in 0 .. N : h[n] \in Holdings}
    <2>1. 0 \in P
      BY <1>1, <1>8
    <2>2. \A n \in 0 .. N - 1 : n \in P => n + 1 \in P
      <3>1. SUFFICES ASSUME NEW n \in 0 .. N - 1, h[n] \in Holdings PROVE h[n + 1] \in Holdings
        BY <1>1
      <3>2. n + 1 \in 1 .. N /\ (n + 1) - 1 = n
        BY <1>1
      <3>3. h[n + 1] = AfterRule(h[n], n + 1, verdicts, dear)
        BY <1>9, <3>2
      <3>4. QED BY <3>1, <3>2, <3>3, RulesNumbered, OneRuleEnforced DEF AfterRule
    <2> HIDE DEF P
    <2>3. 0 .. N \subseteq P
      BY <1>1, <2>1, <2>2, BoundedInduction
    <2>4. \A n \in 0 .. N : h[n] \in Holdings
      BY <2>3 DEF P
    <2>5. h = [n \in 0 .. N |-> h[n]]
      BY <1>6
    <2>6. QED BY <2>4, <2>5
  <1>11. QED BY <1>7, <1>8, <1>9, <1>10

\* Taking the rules one by one, whoever was taken holds a facility only if breached, and
\* every breach taken has its facility held by one that was taken.
Upheld(held, n, verdicts, dear) ==
  /\ \A f \in DOMAIN held :
       /\ held[f] \in Rules /\ Applicable(held[f], dear) /\ held[f].facility = f
       /\ held[f].order <= n => verdicts[held[f]] = "noncompliant"
  /\ \A rule \in Rules :
       Applicable(rule, dear) /\ verdicts[rule] = "noncompliant" /\ rule.order <= n =>
         rule.facility \in DOMAIN held /\ held[rule.facility].order <= n

LEMMA RuleUpheld ==
  ASSUME NEW held, NEW n \in 0 .. Cardinality(Rules) - 1, NEW verdicts, NEW dear,
         Upheld(held, n, verdicts, dear)
  PROVE  Upheld(AfterRule(held, n + 1, verdicts, dear), n + 1, verdicts, dear)
PROOF
  <1> DEFINE r == RuleAt(n + 1)
             next == AfterRule(held, n + 1, verdicts, dear)
  <1>1. r \in Rules /\ r.order = n + 1 /\ n \in Nat
    BY RulesNumbered
  <1>2. \A rule \in Rules : rule.order \in Int /\ (rule.order <= n + 1 <=> rule.order <= n \/ rule = r)
        /\ (rule.order <= n => rule # r)
    <2>1. SUFFICES ASSUME NEW rule \in Rules
                   PROVE  /\ rule.order \in Int
                          /\ rule.order <= n + 1 <=> rule.order <= n \/ rule = r
                          /\ rule.order <= n => rule # r
      OBVIOUS
    <2>2. rule.order \in Int /\ RuleAt(rule.order) = rule
      BY RulesNumbered
    <2>3. QED BY <1>1, <2>2
  <1> HIDE DEF r
  <1>3. CASE ~Applicable(r, dear)
    <2>1. next = held
      BY <1>3 DEF AfterRule, r
    <2> HIDE DEF next
    <2>2. \A f \in DOMAIN next :
            /\ next[f] \in Rules /\ Applicable(next[f], dear) /\ next[f].facility = f
            /\ next[f].order <= n + 1 => verdicts[next[f]] = "noncompliant"
      BY <1>2, <1>3, <2>1 DEF Upheld
    <2>3. \A rule \in Rules :
            Applicable(rule, dear) /\ verdicts[rule] = "noncompliant" /\ rule.order <= n + 1 =>
              rule.facility \in DOMAIN next /\ next[rule.facility].order <= n + 1
      BY <1>2, <1>3, <2>1 DEF Upheld
    <2>4. QED BY <2>2, <2>3 DEF Upheld, next
  <1>4. CASE Applicable(r, dear) /\ verdicts[r] = "noncompliant"
    <2>1. next = WithEntry(held, r.facility, r)
      BY <1>4 DEF AfterRule, Enforced, r
    <2> HIDE DEF next
    <2>2. /\ DOMAIN next = DOMAIN held \cup {r.facility}
          /\ next[r.facility] = r
          /\ \A f \in DOMAIN held : f # r.facility => next[f] = held[f]
      BY <2>1 DEF WithEntry
    <2>3. r.order <= n + 1
      BY <1>1
    <2>4. QED BY <1>1, <1>2, <1>4, <2>2, <2>3 DEF Upheld, next
  <1>5. CASE Applicable(r, dear) /\ verdicts[r] # "noncompliant"
    <2>1. next = WithoutEntries(held, {f \in DOMAIN held : held[f] = r})
      BY <1>5 DEF AfterRule, Enforced, r
    <2> HIDE DEF next
    <2>2. /\ \A f : f \in DOMAIN next <=> f \in DOMAIN held /\ held[f] # r
          /\ \A f \in DOMAIN next : next[f] = held[f]
      BY <2>1 DEF WithoutEntries
    <2>3. QED BY <1>1, <1>2, <1>5, <2>2 DEF Upheld, next
  <1>6. QED BY <1>3, <1>4, <1>5

\* runComplianceEvaluation: what is held back at its end is what stands breached.
LEMMA EvaluationRestricts ==
  ASSUME RestrictionsInOrder, NEW verdicts, NEW dear
  PROVE  LET held == RestrictionsAfter(verdicts, dear)
         IN  /\ \A f \in DOMAIN held :
                  /\ held[f] \in Rules /\ Applicable(held[f], dear) /\ held[f].facility = f
                  /\ verdicts[held[f]] = "noncompliant"
             /\ \A rule \in Rules :
                  Applicable(rule, dear) /\ verdicts[rule] = "noncompliant" =>
                    rule.facility \in DOMAIN held
PROOF
  <1> DEFINE N == Cardinality(Rules)
  <1>1. N \in Nat
    BY RulesNumbered
  <1>2. /\ \A f \in DOMAIN Released(dear) : f \in DOMAIN restricted
              /\ Released(dear)[f] = restricted[f] /\ Applicable(restricted[f], dear)
        /\ Released(dear) = [f \in DOMAIN Released(dear) |-> Released(dear)[f]]
    BY DEF Released, WithoutEntries
  <1>3. \A f \in DOMAIN restricted : restricted[f] \in Rules /\ restricted[f].facility = f
    BY DEF RestrictionsInOrder, RestrictionsAreBreaches
  <1>4. Released(dear) \in Holdings
    <2>1. \A f \in DOMAIN Released(dear) : f \in HeldBack /\ Released(dear)[f] \in Rules
      BY <1>2, <1>3 DEF HeldBack
    <2>2. QED BY <1>2, <2>1, HoldingIs
  <1>5. PICK h \in [0 .. N -> Holdings] :
          /\ h[0] = Released(dear)
          /\ \A n \in 1 .. N : h[n] = AfterRule(h[n - 1], n, verdicts, dear)
          /\ RestrictionsAfter(verdicts, dear) = h[N]
    BY <1>4, RestrictionsCourse
  <1> DEFINE P == {n \in 0 .. N : Upheld(h[n], n, verdicts, dear)}
  <1>6. 0 \in P
    <2>1. \A rule \in Rules : ~(rule.order <= 0)
      <3>1. \A rule \in Rules : rule.order \in 1 .. N
        BY RulesNumbered
      <3>2. QED BY <3>1
    <2>2. Upheld(h[0], 0, verdicts, dear)
      BY <1>2, <1>3, <1>5, <2>1 DEF Upheld
    <2>3. QED BY <1>1, <2>2
  <1>7. \A n \in 0 .. N - 1 : n \in P => n + 1 \in P
    <2>1. SUFFICES ASSUME NEW n \in 0 .. N - 1, n \in P PROVE n + 1 \in P
      OBVIOUS
    <2>2. n + 1 \in 1 .. N /\ (n + 1) - 1 = n /\ n + 1 \in 0 .. N
      BY <1>1
    <2>3. h[n + 1] = AfterRule(h[n], n + 1, verdicts, dear)
      BY <1>5, <2>2
    <2>4. Upheld(h[n + 1], n + 1, verdicts, dear)
      BY <2>1, <2>3, RuleUpheld
    <2>5. QED BY <2>2, <2>4
  <1>8. N \in P
    <2> HIDE DEF P
    <2>1. 0 .. N \subseteq P
      BY <1>1, <1>6, <1>7, BoundedInduction
    <2>2. QED BY <1>1, <2>1
  <1>9. Upheld(h[N], N, verdicts, dear)
    BY <1>8
  <1>10. \A rule \in Rules : rule.order <= N
    <2>1. \A rule \in Rules : rule.order \in 1 .. N
      BY RulesNumbered
    <2>2. QED BY <1>1, <2>1
  <1> HIDE DEF N
  <1>11. QED BY <1>5, <1>9, <1>10 DEF Upheld

LEMMA MidnightKeepsRestrictions ==
  ASSUME RestrictionsInOrder, NEW broken, NEW services, NEW assessment, NEW dear, NEW wage,
         Midnight(broken, services, assessment, dear, wage)
  PROVE  RestrictionsInOrder'
PROOF
  <1>1. CASE ~MonthEnds
    BY <1>1 DEF Midnight, RestrictionsInOrder, RestrictionsAreBreaches
  <1>2. CASE MonthEnds
    <2> DEFINE assets == [a \in Plant |-> AssetDay(a, broken, ServicedAssets(broken, services))]
               verdicts == RulingsAfter(dear, assets, wage)
    <2>1. rulings' = verdicts /\ restricted' = RestrictionsAfter(verdicts, dear)
      BY <1>2 DEF Midnight
    <2>2. /\ DOMAIN verdicts = Tracked(dear)
          /\ \A rule \in Tracked(dear) :
               verdicts[rule] = "noncompliant" => Applicable(rule, dear)
      BY DEF RulingsAfter, Ruling
    <2> HIDE DEF verdicts
    <2>3. /\ Tracked(dear) \subseteq Rules
          /\ \A rule \in Rules : Applicable(rule, dear) => rule \in Tracked(dear)
      BY DEF Tracked, RestrictionsInOrder
    <2>4. /\ \A f \in DOMAIN restricted' :
               /\ restricted'[f] \in Rules /\ Applicable(restricted'[f], dear)
               /\ restricted'[f].facility = f /\ verdicts[restricted'[f]] = "noncompliant"
          /\ \A rule \in Rules :
               Applicable(rule, dear) /\ verdicts[rule] = "noncompliant" =>
                 rule.facility \in DOMAIN restricted'
      BY <2>1, EvaluationRestricts
    <2>5. QED BY <2>1, <2>2, <2>3, <2>4 DEF RestrictionsInOrder, RestrictionsAreBreaches
  <1>3. QED BY <1>1, <1>2

\* The board of a day shows a breach only of a rule that applies and is found breached.
LEMMA CheckedShowsBreaches ==
  ASSUME RestrictionsInOrder, BreachesInOrder, NEW dear
  PROVE  /\ \A rule \in DOMAIN CheckedBoard(dear) :
              DOMAIN CheckedBoard(dear)[rule] = {"kind", "acknowledged"}
         /\ \A rule \in DOMAIN CheckedBoard(dear) :
              CheckedBoard(dear)[rule].kind = "breach" =>
                /\ rule \in DOMAIN rulings /\ rulings[rule] = "noncompliant"
                /\ Applicable(rule, dear)
PROOF
  <1> DEFINE down == {rule \in DOMAIN rulings : ~Applicable(rule, dear)}
                     \cup {rule \in Rules : Applicable(rule, dear) /\ StatusSoFar(rule) = "compliant"}
             breached == {rule \in Rules : Applicable(rule, dear) /\ StatusSoFar(rule) = "noncompliant"}
             noticed == {rule \in Rules : Applicable(rule, dear) /\ StatusSoFar(rule) = "inactive"}
             onShow == CheckedBoard(dear)
  <1>1. /\ DOMAIN onShow = (DOMAIN board \ down) \cup breached \cup noticed
        /\ \A rule \in DOMAIN onShow :
             onShow[rule] = IF rule \in breached THEN [kind |-> "breach", acknowledged |-> FALSE]
                           ELSE IF rule \in DOMAIN board THEN board[rule]
                           ELSE [kind |-> "notice", acknowledged |-> FALSE]
    BY DEF CheckedBoard
  <1> HIDE DEF onShow
  <1>2. ASSUME NEW rule \in DOMAIN onShow
        PROVE  DOMAIN onShow[rule] = {"kind", "acknowledged"}
    BY <1>1 DEF BreachesInOrder
  <1>3. ASSUME NEW rule \in DOMAIN onShow, onShow[rule].kind = "breach"
        PROVE  /\ rule \in DOMAIN rulings /\ rulings[rule] = "noncompliant"
               /\ Applicable(rule, dear)
    <2>1. CASE rule \in breached
      BY <2>1 DEF StatusSoFar
    <2>2. CASE rule \notin breached
      <3>1. rule \in DOMAIN board /\ board[rule].kind = "breach"
        BY <1>1, <1>3, <2>2
      <3>2. rule \in DOMAIN rulings /\ rulings[rule] \in {"compliant", "noncompliant"}
        BY <3>1 DEF BreachesInOrder
      <3>3. rule \in Rules /\ StatusSoFar(rule) = rulings[rule]
        BY <3>2 DEF RestrictionsInOrder, StatusSoFar
      <3>4. rule \notin down \/ rule \in noticed
        BY <1>1, <2>2
      <3>5. rule \notin noticed
        BY <3>2, <3>3
      <3>6. QED BY <3>2, <3>3, <3>4, <3>5
    <2>3. QED BY <2>1, <2>2
  <1>4. QED BY <1>2, <1>3 DEF onShow

LEMMA MidnightKeepsBreaches ==
  ASSUME RestrictionsInOrder, BreachesInOrder,
         NEW broken, NEW services, NEW assessment, NEW dear, NEW wage,
         Midnight(broken, services, assessment, dear, wage)
  PROVE  BreachesInOrder'
PROOF
  <1> DEFINE assets == [a \in Plant |-> AssetDay(a, broken, ServicedAssets(broken, services))]
             verdicts == RulingsAfter(dear, assets, wage)
             onShow == CheckedBoard(dear)
             gone == {rule \in DOMAIN rulings : ~Applicable(rule, dear)}
  <1>1. riskDay \in Nat /\ riskDay' = riskDay + 1 /\ riskDay' \in Nat
    BY DEF Midnight, BreachesInOrder
  <1>2. \A rule \in Rules : rule.effective \in Nat /\ rule.graceEnds \in Nat
    BY RiskAssumption
  <1>3. \A rule \in DOMAIN rulings : rule \in Rules
    BY DEF RestrictionsInOrder
  <1>4. \A rule \in DOMAIN rulings : rulings[rule] = "noncompliant" =>
          rule.effective <= riskDay /\ rule.graceEnds <= riskDay
    BY DEF BreachesInOrder
  <1>5. CASE ~MonthEnds
    <2>1. rulings' = rulings /\ board' = onShow
      BY <1>5 DEF Midnight
    <2>2. \A rule \in DOMAIN rulings' : rulings'[rule] = "noncompliant" =>
            rule.effective <= riskDay' /\ rule.graceEnds <= riskDay'
      BY <1>1, <1>2, <1>3, <1>4, <2>1
    <2>3. /\ \A rule \in DOMAIN board' : DOMAIN board'[rule] = {"kind", "acknowledged"}
          /\ \A rule \in DOMAIN board' : board'[rule].kind = "breach" =>
               rule \in DOMAIN rulings' /\ rulings'[rule] = "noncompliant"
      BY <2>1, CheckedShowsBreaches
    <2>4. QED BY <1>1, <2>2, <2>3 DEF BreachesInOrder, BreachesShownAreReal
  <1>6. CASE MonthEnds
    <2>1. rulings' = verdicts /\ board' = WithoutEntries(onShow, gone)
      BY <1>6 DEF Midnight
    <2>2. /\ DOMAIN verdicts = Tracked(dear)
          /\ \A rule \in Tracked(dear) :
               verdicts[rule] = IF Applicable(rule, dear)
                                THEN EvaluateCompliance(rule, Measured(rule.area, assets, wage))
                                ELSE "inactive"
      BY DEF RulingsAfter, Ruling
    <2> HIDE DEF verdicts, assets
    <2>3. \A rule \in Tracked(dear) : rule \in Rules
      BY <1>3 DEF Tracked
    <2>4. \A rule \in Rules : \A measured :
            /\ EvaluateCompliance(rule, measured) = "noncompliant" =>
                 rule.effective <= riskDay /\ rule.graceEnds <= riskDay
            /\ rule.effective <= riskDay /\ rule.graceEnds <= riskDay =>
                 EvaluateCompliance(rule, measured) \in {"compliant", "noncompliant"}
      BY <1>1, <1>2 DEF EvaluateCompliance
    <2>5. \A rule \in DOMAIN rulings' : rulings'[rule] = "noncompliant" =>
            rule.effective <= riskDay' /\ rule.graceEnds <= riskDay'
      <3> SUFFICES ASSUME NEW rule \in DOMAIN rulings', rulings'[rule] = "noncompliant"
                   PROVE  rule.effective <= riskDay' /\ rule.graceEnds <= riskDay'
        OBVIOUS
      <3>1. rule \in Rules /\ rule.effective <= riskDay /\ rule.graceEnds <= riskDay
        BY <2>1, <2>2, <2>3, <2>4
      <3>2. QED BY <1>1, <1>2, <3>1
    <2>6. /\ \A rule \in DOMAIN board' : rule \in DOMAIN onShow /\ board'[rule] = onShow[rule]
      BY <2>1 DEF WithoutEntries
    <2>7. \A rule \in DOMAIN board' : DOMAIN board'[rule] = {"kind", "acknowledged"}
      BY <2>6, CheckedShowsBreaches
    <2>8. ASSUME NEW rule \in DOMAIN board', board'[rule].kind = "breach"
          PROVE  rule \in DOMAIN rulings' /\ rulings'[rule] \in {"compliant", "noncompliant"}
      <3>1. /\ rule \in DOMAIN rulings /\ rulings[rule] = "noncompliant"
            /\ Applicable(rule, dear)
        BY <2>6, <2>8, CheckedShowsBreaches
      <3>2. rule \in Tracked(dear) /\ rule \in Rules
        BY <1>3, <3>1 DEF Tracked
      <3>3. QED BY <1>4, <2>1, <2>2, <2>4, <3>1, <3>2
    <2>9. (riskDay' - 1) % RiskMonth = 0
      <3>1. riskDay' - 1 = riskDay
        BY <1>1
      <3>2. QED BY <1>6, <3>1 DEF MonthEnds
    <2>10. BreachesShownAreReal'
      BY <2>8, <2>9 DEF BreachesShownAreReal
    <2>11. QED BY <1>1, <2>5, <2>7, <2>8, <2>10 DEF BreachesInOrder
  <1>7. QED BY <1>5, <1>6

LEMMA RiskStays == RiskInv /\ [RiskNext]_riskVars => RiskInv'
PROOF
  <1> SUFFICES ASSUME RiskInv, [RiskNext]_riskVars PROVE RiskInv'
    OBVIOUS
  <1> USE DEF RiskInv
  <1>1. ASSUME NEW id \in Policies,
               \/ \E peril \in Perils, value, limit, deductible \in Sums :
                    TakeOutPolicy(id, peril, value, limit, deductible)
               \/ \E limit, deductible \in Sums : VaryPolicy(id, limit, deductible)
               \/ CancelPolicy(id)
        PROVE  RiskInv'
    <2>1. UNCHANGED <<rulings, restricted, board, riskDay>>
      BY <1>1 DEF TakeOutPolicy, VaryPolicy, CancelPolicy
    <2>2. ClaimsInOrder'
      BY <1>1, CoverKeepsClaims
    <2>3. QED BY <2>1, <2>2 DEF RestrictionsInOrder, RestrictionsAreBreaches, BreachesInOrder,
                               BreachesShownAreReal
  <1>2. CASE BetweenMidnights \/ UNCHANGED riskVars
    <2>1. UNCHANGED <<policies, claims, rulings, restricted, board, riskDay>>
      BY <1>2 DEF BetweenMidnights, riskVars
    <2>2. QED BY <2>1 DEF ClaimsInOrder, ClaimsFindTheirPolicy, RestrictionsInOrder,
                          RestrictionsAreBreaches, BreachesInOrder, BreachesShownAreReal
  <1>3. ASSUME NEW rule \in Rules, AcknowledgeAlert(rule) PROVE RiskInv'
    <2>1. UNCHANGED <<policies, claims, rulings, restricted, riskDay>>
      BY <1>3 DEF AcknowledgeAlert
    <2>2. /\ DOMAIN board' = DOMAIN board
          /\ \A r \in DOMAIN board : DOMAIN board'[r] = DOMAIN board[r]
                                     /\ board'[r].kind = board[r].kind
      BY <1>3 DEF AcknowledgeAlert, BreachesInOrder
    <2>3. QED BY <2>1, <2>2 DEF ClaimsInOrder, ClaimsFindTheirPolicy, RestrictionsInOrder,
                               RestrictionsAreBreaches, BreachesInOrder, BreachesShownAreReal
  <1>4. ASSUME NEW broken, NEW services, NEW assessment, NEW dear, NEW wage,
               Midnight(broken, services, assessment, dear, wage)
        PROVE  RiskInv'
    BY <1>4, MidnightKeepsClaims, MidnightKeepsRestrictions, MidnightKeepsBreaches
  <1>5. QED BY <1>1, <1>2, <1>3, <1>4 DEF RiskNext

\* A claim in hand finds the policy it was filed under, a facility is held back exactly
\* while a rule about it is broken, and the board shows no breach that is none, for any
\* rules, policies and plant (insurance.ts, GameSimulation.runComplianceEvaluation).
THEOREM RisksAreAnsweredFor == RiskSpec => []RisksAreAnswered
  <1>1. RiskInv => RisksAreAnswered
    BY DEF RiskInv, ClaimsInOrder, RestrictionsInOrder, BreachesInOrder, RisksAreAnswered
  <1>2. QED BY <1>1, RiskStarts, RiskStays, PTL DEF RiskSpec

-----------------------------------------------------------------------------
(* A story is told and answered once, and so is a bet.                     *)

Tellings == [tale : Tales, month : 1 .. storyMonth]
Bets == [story : told \ activeTales, status : {"invested", "resolved"}, due : Nat]
Resolved == {b \in bets : b.status = "resolved"}

\* What is told, in order; an open story is the last of its kind.
ToldInOrder ==
  /\ storyMonth \in Nat /\ told \subseteq Tellings /\ activeTales \subseteq told
  /\ lastFired \in [Tales -> Int]
  /\ \A s \in told : s.month <= lastFired[s.tale]
  /\ \A s \in activeTales : \A t \in told : t.tale = s.tale => t.month <= s.month
  /\ \A s, t \in told : s.tale = t.tale /\ s.month < t.month =>
        t.month - s.month >= CooldownOf[s.tale]

\* A choice is of a story told and no longer open, which has just that one.
ChosenOnce ==
  /\ \A e \in chronicle : e.kind = "choice" => e.story \in told \ activeTales
  /\ \A s \in told \ activeTales : \E c : ChoicesMade(s) = {ChoiceEntry(s, c)}

\* A bet is of a story answered, no other bet is, and an answer is of a bet.
BetsInOrder ==
  /\ IsFiniteSet(bets) /\ bets \subseteq Bets
  /\ \A a, b \in bets : a.story = b.story => a = b
  /\ \A e \in chronicle : e.kind = "bet" => \E b \in bets : b.story = e.story
  /\ stakes \in [paid : Int, returned : Int]
  /\ BetsAreAnsweredOnce

ReviewedBeforeEndless ==
  /\ "endless" \in DOMAIN career
  /\ career.review => storyMonth >= ReviewMonth
  /\ career.endless => storyMonth >= ReviewMonth

StoryInv == ToldInOrder /\ ChosenOnce /\ BetsInOrder /\ ReviewedBeforeEndless

LEMMA StoryStarts == StoryInit => StoryInv
PROOF
  <1> SUFFICES ASSUME StoryInit PROVE StoryInv
    OBVIOUS
  <1>1. ToldInOrder
    BY DEF StoryInit, ToldInOrder, NoMonth
  <1>2. ChosenOnce
    BY DEF StoryInit, ChosenOnce
  <1>3. BetsInOrder
    <2>1. IsFiniteSet({}) /\ Cardinality({}) = 0
      BY FS_EmptySet
    <2>2. {b \in bets : b.status = "resolved"} = {} /\ bets = {}
      BY DEF StoryInit
    <2>3. QED BY <2>1, <2>2 DEF StoryInit, BetsInOrder, BetsAreAnsweredOnce
  <1>4. ReviewedBeforeEndless
    BY StoryAssumption DEF StoryInit, ReviewedBeforeEndless, Assessed
  <1>5. QED BY <1>1, <1>2, <1>3, <1>4 DEF StoryInv

\* The bets that are due are answered, each with one return and one entry.
LEMMA DueBetsAnswered ==
  ASSUME ToldInOrder, BetsInOrder, StoryMonth
  PROVE  BetsInOrder'
PROOF
  <1> DEFINE m == storyMonth + 1
             due == DueBets(m)
             Answer(b) == [b EXCEPT !.status = "resolved"]
  <1>1. /\ storyMonth \in Nat /\ storyMonth' = m
        /\ bets' = (bets \ due) \cup {Answer(b) : b \in due}
        /\ stakes' = [stakes EXCEPT !.returned = @ + Cardinality(due)]
    BY DEF StoryMonth, ToldInOrder
  <1>2. \A s \in told \ activeTales : s \in told' \ activeTales'
    <2>1. CASE UNCHANGED <<told, activeTales>>
      BY <2>1
    <2>2. ASSUME NEW d \in Tales, Raise(d, m) PROVE \A s \in told \ activeTales : s \in told' \ activeTales'
      <3>1. Told(d, m) \notin told
        BY <1>1 DEF ToldInOrder, Tellings, Told
      <3>2. QED BY <2>2, <3>1 DEF Raise
    <2>3. QED BY <2>1, <2>2 DEF StoryMonth
  <1>3. PICK found :
          chronicle' = chronicle \cup {MilestoneEntry(id) : id \in found}
                                 \cup {BetEntry(b.story) : b \in due}
    <2>1. \E found \in {Found(m, profitable, second) : profitable, second \in BOOLEAN} :
            /\ milestones' = milestones \cup found
            /\ chronicle' = chronicle \cup {MilestoneEntry(id) : id \in found}
                                      \cup {BetEntry(b.story) : b \in due}
      BY DEF StoryMonth
    <2> HIDE DEF m, due
    <2>2. QED BY <2>1
  <1>4. /\ bets \subseteq Bets /\ IsFiniteSet(bets)
        /\ \A a, b \in bets : a.story = b.story => a = b
    BY DEF BetsInOrder
  <1>5. \A b \in due : b \in bets /\ b.status = "invested" /\ b.due <= m
    BY DEF DueBets
  <1>6. \A b \in bets : b.status = "invested" /\ b.due <= m => b \in due
    BY DEF DueBets
  <1> HIDE DEF due
  <1>7. \A b \in due : /\ Answer(b) \in Bets /\ Answer(b).story = b.story
                       /\ Answer(b).due = b.due /\ Answer(b).status = "resolved"
    BY <1>4, <1>5 DEF Bets
  <1> HIDE DEF Answer
  <1>8. bets' \subseteq Bets'
    <2>1. \A b \in Bets : b \in Bets'
      BY <1>2 DEF Bets
    <2>2. QED BY <1>1, <1>4, <1>7, <2>1
  <1>9. \A a, b \in bets' : a.story = b.story => a = b
    BY <1>1, <1>4, <1>5, <1>7
  <1>10. \A b \in bets : \E a \in bets' : a.story = b.story
    BY <1>1, <1>7
  \* One answer for one bet.
  <1>11. /\ IsFiniteSet(bets') /\ Cardinality(bets') = Cardinality(bets)
         /\ IsFiniteSet(Resolved') /\ IsFiniteSet(Resolved)
         /\ Cardinality(Resolved') = Cardinality(Resolved) + Cardinality(due)
    <2> DEFINE R == {Answer(b) : b \in due}
               f == [b \in due |-> Answer(b)]
    <2>1. IsFiniteSet(due) /\ IsFiniteSet(bets \ due) /\ IsFiniteSet(Resolved)
      <3>1. due \in SUBSET bets /\ bets \ due \in SUBSET bets /\ Resolved \in SUBSET bets
        BY <1>5 DEF Resolved
      <3>2. QED BY <1>4, <3>1, FS_Subset
    <2>2. f \in Bijection(due, R)
      BY <1>4, <1>5, <1>7 DEF Bijection, Injection, Surjection, IsInjective
    <2>3. IsFiniteSet(R) /\ Cardinality(R) = Cardinality(due)
      <3>1. ExistsBijection(due, R)
        BY <2>2 DEF ExistsBijection
      <3> HIDE DEF R
      <3>2. QED BY <2>1, <3>1, FS_Bijection
    <2>4. (bets \ due) \cap R = {} /\ Resolved \cap R = {}
      BY <1>4, <1>5, <1>7 DEF Resolved
    <2>5. bets' = (bets \ due) \cup R
      BY <1>1
    <2>6. Resolved' = Resolved \cup R
      BY <1>1, <1>5, <1>7 DEF Resolved
    <2> HIDE DEF R
    <2>7. bets = (bets \ due) \cup due /\ (bets \ due) \cap due = {}
      BY <1>5
    <2>8. Cardinality({}) = 0
      BY FS_EmptySet
    <2> HIDE DEF f
    <2>9. /\ Cardinality(due) \in Int /\ Cardinality(bets \ due) \in Int
          /\ Cardinality(Resolved) \in Int
      BY <2>1, FS_CardinalityType
    <2>10. Cardinality(bets) = Cardinality(bets \ due) + Cardinality(due)
      <3>1. Cardinality((bets \ due) \cup due) =
              Cardinality(bets \ due) + Cardinality(due) - Cardinality((bets \ due) \cap due)
        BY <2>1, FS_Union
      <3>2. Cardinality((bets \ due) \cap due) = 0
        BY <2>7, <2>8, Zenon
      <3>3. Cardinality(bets) = Cardinality((bets \ due) \cup due)
        BY <2>7, Zenon
      <3>4. QED BY <2>9, <3>1, <3>2, <3>3
    <2>11. IsFiniteSet(bets') /\ Cardinality(bets') = Cardinality(bets \ due) + Cardinality(R)
      <3>1. /\ IsFiniteSet((bets \ due) \cup R)
            /\ Cardinality((bets \ due) \cup R) =
                 Cardinality(bets \ due) + Cardinality(R) - Cardinality((bets \ due) \cap R)
        BY <2>1, <2>3, FS_Union
      <3>2. Cardinality((bets \ due) \cap R) = 0
        BY <2>4, <2>8, Zenon
      <3>3. Cardinality(bets') = Cardinality((bets \ due) \cup R)
        BY <2>5, Zenon
      <3>4. QED BY <2>9, <2>3, <3>1, <3>2, <3>3, <2>5
    <2>12. IsFiniteSet(Resolved') /\ Cardinality(Resolved') = Cardinality(Resolved) + Cardinality(R)
      <3>1. /\ IsFiniteSet(Resolved \cup R)
            /\ Cardinality(Resolved \cup R) =
                 Cardinality(Resolved) + Cardinality(R) - Cardinality(Resolved \cap R)
        BY <2>1, <2>3, FS_Union
      <3>2. Cardinality(Resolved \cap R) = 0
        BY <2>4, <2>8, Zenon
      <3>3. Cardinality(Resolved') = Cardinality(Resolved \cup R)
        BY <2>6, Zenon
      <3>4. QED BY <2>9, <2>3, <3>1, <3>2, <3>3, <2>6
    <2>13. QED BY <2>1, <2>3, <2>10, <2>11, <2>12
  <1>12. stakes' \in [paid : Int, returned : Int] /\ stakes'.paid = stakes.paid
         /\ stakes'.returned = stakes.returned + Cardinality(due)
    <2>1. stakes \in [paid : Int, returned : Int]
      BY DEF BetsInOrder
    <2>2. Cardinality(due) \in Int
      <3>1. due \in SUBSET bets
        BY <1>5
      <3>2. IsFiniteSet(due)
        BY <1>4, <3>1, FS_Subset
      <3>3. QED BY <3>2, FS_CardinalityType
    <2>3. QED BY <1>1, <2>1, <2>2
  <1>13. \A b \in bets' : b.status = "resolved" <=> b.due <= storyMonth'
    <2>1. \A b \in bets : b.due \in Nat /\ (b.status = "resolved" <=> b.due <= storyMonth)
                          /\ b.status \in {"invested", "resolved"}
      BY <1>4 DEF BetsInOrder, BetsAreAnsweredOnce, Bets
    <2>2. \A b \in bets \ due : b.status = "resolved" <=> b.due <= storyMonth'
      BY <1>1, <1>6, <2>1
    <2>3. \A b \in due : Answer(b).due <= storyMonth'
      BY <1>1, <1>5, <1>7
    <2>4. QED BY <1>1, <1>7, <2>2, <2>3
  <1>14. \A b \in bets' : BetEntry(b.story) \in chronicle' <=> b.status = "resolved"
    <2>1. \A s, id : BetEntry(s) # MilestoneEntry(id)
      BY DEF BetEntry, MilestoneEntry
    <2>2. \A s, t : BetEntry(s) = BetEntry(t) => s = t
      BY DEF BetEntry
    <2>3. \A b \in bets : BetEntry(b.story) \in chronicle <=> b.status = "resolved"
      BY DEF BetsInOrder, BetsAreAnsweredOnce
    <2>4. \A b \in due : BetEntry(Answer(b).story) \in chronicle'
      BY <1>3, <1>7
    <2>5. \A b \in bets \ due : BetEntry(b.story) \in chronicle' <=> b.status = "resolved"
      BY <1>3, <1>4, <1>5, <2>1, <2>2, <2>3
    <2>6. QED BY <1>1, <1>7, <2>4, <2>5
  <1>15. \A e \in chronicle' : e.kind = "bet" => \E b \in bets' : b.story = e.story
    <2>1. \A id : MilestoneEntry(id).kind # "bet"
      BY DEF MilestoneEntry
    <2>2. \A s : BetEntry(s).story = s
      BY DEF BetEntry
    <2>3. \A e \in chronicle : e.kind = "bet" => \E b \in bets : b.story = e.story
      BY DEF BetsInOrder
    <2>4. QED BY <1>3, <1>5, <1>10, <2>1, <2>2, <2>3
  <1>16. stakes.paid = Cardinality(bets) /\ stakes.returned = Cardinality(Resolved)
    BY DEF BetsInOrder, BetsAreAnsweredOnce, Resolved
  <1>17. BetsAreAnsweredOnce'
    BY <1>11, <1>12, <1>13, <1>14, <1>16 DEF BetsAreAnsweredOnce, Resolved
  <1>18. QED BY <1>8, <1>9, <1>11, <1>12, <1>15, <1>17 DEF BetsInOrder

\* A story raised is the latest of its kind; a month without one changes nothing told.
LEMMA MonthKeepsToldInOrder ==
  ASSUME ToldInOrder, StoryMonth
  PROVE  ToldInOrder'
PROOF
  <1>1. storyMonth \in Nat /\ storyMonth' = storyMonth + 1
    BY DEF StoryMonth, ToldInOrder
  <1>2. \A s \in told : s \in [tale : Tales, month : 1 .. storyMonth'] /\ s.month <= storyMonth
    BY <1>1 DEF ToldInOrder, Tellings
  <1>3. CASE UNCHANGED <<told, activeTales, lastFired>>
    BY <1>1, <1>2, <1>3 DEF ToldInOrder, Tellings
  <1>4. ASSUME NEW d \in Tales, MayBeRaised(d, storyMonth + 1), Raise(d, storyMonth + 1)
        PROVE  ToldInOrder'
    <2> DEFINE n == Told(d, storyMonth + 1)
    <2>1. n \in [tale : Tales, month : 1 .. storyMonth'] /\ n.tale = d /\ n.month = storyMonth'
      BY <1>1 DEF Told
    <2>2. told' = told \cup {n} /\ activeTales' = activeTales \cup {n}
          /\ lastFired' = [lastFired EXCEPT ![d] = storyMonth']
      BY <1>1, <1>4 DEF Raise
    <2> HIDE DEF n
    <2>3. \A s \in activeTales : s.tale # d
      BY <1>4 DEF MayBeRaised
    <2>4. \A s \in told : s.tale = d => n.month - s.month >= CooldownOf[d]
      <3> SUFFICES ASSUME NEW s \in told, s.tale = d PROVE n.month - s.month >= CooldownOf[d]
        OBVIOUS
      <3>1. s.month \in Nat \ {0} /\ lastFired[d] \in Int /\ s.month <= lastFired[d]
        BY <1>1, <1>2 DEF ToldInOrder, Tellings
      <3>2. (storyMonth + 1) - lastFired[d] >= CooldownOf[d]
        <4>1. lastFired[d] # NoMonth
          BY <3>1 DEF NoMonth
        <4>2. lastFired[d] # NoMonth => (storyMonth + 1) - lastFired[d] >= CooldownOf[d]
          BY <1>4, Zenon DEF MayBeRaised
        <4>3. QED BY <4>1, <4>2
      <3>3. CooldownOf[d] \in Nat
        BY StoryAssumption
      <3>4. QED BY <1>1, <2>1, <3>1, <3>2, <3>3
    <2>5. told' \subseteq Tellings' /\ activeTales' \subseteq told'
      BY <1>2, <2>1, <2>2 DEF ToldInOrder, Tellings
    <2>6. lastFired' \in [Tales -> Int]
      BY <1>1, <2>2 DEF ToldInOrder
    <2>7. \A s \in told' : s.month <= lastFired'[s.tale]
      <3>1. ASSUME NEW s \in told PROVE s.month <= lastFired'[s.tale]
        <4>1. s.tale \in Tales /\ s.month <= storyMonth /\ s.month \in Int /\ s.month <= lastFired[s.tale]
          BY <1>1, <1>2 DEF ToldInOrder
        <4>2. lastFired'[s.tale] = IF s.tale = d THEN storyMonth' ELSE lastFired[s.tale]
          BY <2>2, <4>1 DEF ToldInOrder
        <4>3. QED BY <1>1, <4>1, <4>2
      <3>2. n.month <= lastFired'[n.tale]
        BY <1>1, <2>1, <2>2 DEF ToldInOrder
      <3>3. QED BY <2>2, <3>1, <3>2
    <2>8. \A s \in activeTales', t \in told' : t.tale = s.tale => t.month <= s.month
      BY <1>1, <1>2, <2>1, <2>2, <2>3 DEF ToldInOrder
    <2>9. \A s, t \in told' : s.tale = t.tale /\ s.month < t.month =>
             t.month - s.month >= CooldownOf[s.tale]
      BY <1>1, <1>2, <2>1, <2>2, <2>4 DEF ToldInOrder
    <2>10. QED BY <1>1, <2>5, <2>6, <2>7, <2>8, <2>9 DEF ToldInOrder
  <1>5. QED BY <1>3, <1>4 DEF StoryMonth

\* A month adds no choice, and what it raises is open.
LEMMA MonthKeepsChosen ==
  ASSUME ToldInOrder, ChosenOnce, StoryMonth
  PROVE  ChosenOnce'
PROOF
  <1>1. \A e \in chronicle' : e \in chronicle \/ e.kind \in {"milestone", "bet"}
    BY DEF StoryMonth, MilestoneEntry, BetEntry
  <1>2. chronicle \subseteq chronicle'
    BY DEF StoryMonth
  <1>3. \A s : ChoicesMade(s)' = ChoicesMade(s)
    BY <1>1, <1>2 DEF ChoicesMade
  <1>4. told' \ activeTales' = told \ activeTales
    <2>1. CASE UNCHANGED <<told, activeTales>>
      BY <2>1
    <2>2. ASSUME NEW d \in Tales, Raise(d, storyMonth + 1) PROVE told' \ activeTales' = told \ activeTales
      <3>1. Told(d, storyMonth + 1) \notin told
        BY DEF ToldInOrder, Tellings, Told
      <3>2. QED BY <2>2, <3>1 DEF Raise
    <2>3. QED BY <2>1, <2>2 DEF StoryMonth
  <1>5. \A e \in chronicle' : e.kind = "choice" => e.story \in told' \ activeTales'
    BY <1>1, <1>4 DEF ChosenOnce
  <1>6. \A s \in told' \ activeTales' : \E c : ChoicesMade(s)' = {ChoiceEntry(s, c)}
    BY <1>3, <1>4 DEF ChosenOnce
  <1>7. QED BY <1>5, <1>6 DEF ChosenOnce

\* A choice closes its story, with the one entry of it.
LEMMA ChoiceKeepsChosen ==
  ASSUME ToldInOrder, ChosenOnce, NEW s \in activeTales, NEW c \in ChoicesOf[s.tale], Choose(s, c)
  PROVE  ToldInOrder' /\ ChosenOnce'
PROOF
  <1>1. /\ activeTales' = activeTales \ {s} /\ chronicle' = chronicle \cup {ChoiceEntry(s, c)}
        /\ UNCHANGED <<storyMonth, told, lastFired>>
    BY DEF Choose
  <1>2. ToldInOrder'
    BY <1>1 DEF ToldInOrder, Tellings
  <1>3. s \in told /\ told' \ activeTales' = (told \ activeTales) \cup {s}
    BY <1>1 DEF ToldInOrder
  <1>4. ChoiceEntry(s, c).kind = "choice" /\ ChoiceEntry(s, c).story = s
    BY DEF ChoiceEntry
  <1>5. ChoicesMade(s)' = {ChoiceEntry(s, c)}
    BY <1>1, <1>4 DEF ChoicesMade, ChosenOnce
  <1>6. \A t : t # s => ChoicesMade(t)' = ChoicesMade(t)
    BY <1>1, <1>4 DEF ChoicesMade
  <1>7. \A e \in chronicle' : e.kind = "choice" => e.story \in told' \ activeTales'
    BY <1>1, <1>3, <1>4 DEF ChosenOnce
  <1>8. \A t \in told' \ activeTales' : \E k : ChoicesMade(t)' = {ChoiceEntry(t, k)}
    BY <1>3, <1>5, <1>6 DEF ChosenOnce
  <1>9. QED BY <1>2, <1>7, <1>8 DEF ChosenOnce

\* A bet placed is the first of its story, and is not due yet.
LEMMA ChoicePlacesBet ==
  ASSUME ToldInOrder, BetsInOrder, NEW s \in activeTales, NEW c \in ChoicesOf[s.tale], Choose(s, c)
  PROVE  BetsInOrder'
PROOF
  <1>1. /\ activeTales' = activeTales \ {s} /\ chronicle' = chronicle \cup {ChoiceEntry(s, c)}
        /\ UNCHANGED <<storyMonth, told>>
    BY DEF Choose
  <1>2. /\ s \in told' \ activeTales' /\ storyMonth \in Nat
        /\ \A t \in told \ activeTales : t \in told' \ activeTales'
    BY <1>1 DEF ToldInOrder
  <1>3. /\ bets \subseteq Bets /\ IsFiniteSet(bets)
        /\ \A a, b \in bets : a.story = b.story => a = b
        /\ \A e \in chronicle : e.kind = "bet" => \E b \in bets : b.story = e.story
        /\ stakes \in [paid : Int, returned : Int]
        /\ BetsAreAnsweredOnce
    BY DEF BetsInOrder
  <1>4. \A b \in bets : b \in Bets' /\ b.story # s
    BY <1>2, <1>3 DEF Bets
  <1>5. \A t : /\ BetEntry(t).kind = "bet" /\ BetEntry(t).story = t
               /\ BetEntry(t) \in chronicle' <=> BetEntry(t) \in chronicle
    BY <1>1 DEF BetEntry, ChoiceEntry
  <1>6. ChoiceEntry(s, c).kind # "bet"
    BY DEF ChoiceEntry
  <1>7. CASE UNCHANGED <<bets, stakes>>
    BY <1>1, <1>3, <1>4, <1>5, <1>6, <1>7 DEF BetsInOrder, BetsAreAnsweredOnce
  <1>8. ASSUME NEW late \in {0, 1},
               bets' = bets \cup {[story |-> s, status |-> "invested",
                                   due |-> storyMonth + BetMonths + late]},
               stakes' = [stakes EXCEPT !.paid = @ + 1]
        PROVE  BetsInOrder'
    <2> DEFINE n == [story |-> s, status |-> "invested", due |-> storyMonth + BetMonths + late]
    <2>1. /\ n.story = s /\ n.status = "invested" /\ n.due \in Nat /\ n.due > storyMonth
          /\ n \in Bets'
      BY <1>2, StoryAssumption DEF Bets
    <2>2. bets' = bets \cup {n}
      BY <1>8
    <2> HIDE DEF n
    <2>3. n \notin bets
      BY <1>4, <2>1
    <2>4. IsFiniteSet(bets') /\ Cardinality(bets') = Cardinality(bets) + 1
      BY <1>3, <2>2, <2>3, FS_AddElement
    <2>5. {b \in bets' : b.status = "resolved"} = {b \in bets : b.status = "resolved"}
      BY <2>1, <2>2
    <2>6. stakes' \in [paid : Int, returned : Int] /\ stakes'.paid = stakes.paid + 1
          /\ stakes'.returned = stakes.returned
      BY <1>3, <1>8
    <2>7. BetEntry(s) \notin chronicle
      BY <1>3, <1>4, <1>5
    <2>8. \A b \in bets' : b.status = "resolved" <=> b.due <= storyMonth'
      BY <1>1, <1>2, <1>3, <2>1, <2>2 DEF BetsAreAnsweredOnce
    <2>9. \A b \in bets' : BetEntry(b.story) \in chronicle' <=> b.status = "resolved"
      BY <1>3, <1>5, <2>1, <2>2, <2>7 DEF BetsAreAnsweredOnce
    <2>10. stakes'.paid = Cardinality(bets')
           /\ stakes'.returned = Cardinality({b \in bets' : b.status = "resolved"})
      BY <1>3, <2>4, <2>5, <2>6 DEF BetsAreAnsweredOnce
    <2>11. BetsAreAnsweredOnce'
      BY <2>8, <2>9, <2>10 DEF BetsAreAnsweredOnce
    <2>12. \A a, b \in bets' : a.story = b.story => a = b
      BY <1>3, <1>4, <2>1, <2>2
    <2>13. \A e \in chronicle' : e.kind = "bet" => \E b \in bets' : b.story = e.story
      BY <1>1, <1>3, <1>6, <2>2
    <2>14. QED BY <1>4, <2>1, <2>2, <2>4, <2>6, <2>11, <2>12, <2>13 DEF BetsInOrder
  <1>9. QED BY <1>7, <1>8 DEF Choose

LEMMA StoryStays == StoryInv /\ [StoryNext]_storyVars => StoryInv'
PROOF
  <1> SUFFICES ASSUME StoryInv, [StoryNext]_storyVars PROVE StoryInv'
    OBVIOUS
  <1> USE DEF StoryInv
  <1>1. CASE StoryMonth
    <2>1. ReviewedBeforeEndless'
      <3>1. storyMonth \in Nat /\ storyMonth' = storyMonth + 1 /\ ReviewMonth \in Nat
        BY <1>1, StoryAssumption DEF StoryMonth, ToldInOrder
      <3>2. PICK distressed \in BOOLEAN, measures \in BOOLEAN :
              career' = Assessed(distressed, measures, storyMonth', career.endless)
        BY <1>1 DEF StoryMonth
      <3>3. /\ DOMAIN career' = {"distress", "review", "endless", "ended"}
            /\ career'.review = (storyMonth' >= ReviewMonth)
            /\ career'.endless = career.endless
        BY <3>2, Zenon DEF Assessed
      <3>4. storyMonth >= ReviewMonth => storyMonth' >= ReviewMonth
        BY <3>1
      <3>5. QED BY <3>3, <3>4, Zenon DEF ReviewedBeforeEndless
    <2>2. QED BY <1>1, <2>1, DueBetsAnswered, MonthKeepsToldInOrder, MonthKeepsChosen
  <1>2. ASSUME NEW s \in activeTales, NEW c \in ChoicesOf[s.tale], Choose(s, c) PROVE StoryInv'
    <2>1. ReviewedBeforeEndless'
      <3>1. PICK distressed \in BOOLEAN, measures \in BOOLEAN :
              career' = Assessed(distressed, measures, storyMonth, career.endless)
        BY <1>2 DEF Choose
      <3>2. storyMonth' = storyMonth
        BY <1>2 DEF Choose
      <3>3. /\ DOMAIN career' = {"distress", "review", "endless", "ended"}
            /\ career'.review = (storyMonth >= ReviewMonth)
            /\ career'.endless = career.endless
        BY <3>1, Zenon DEF Assessed
      <3>4. QED BY <3>2, <3>3 DEF ReviewedBeforeEndless
    <2>2. QED BY <1>2, <2>1, ChoiceKeepsChosen, ChoicePlacesBet
  <1>3. CASE ContinueEndless
    <2>1. UNCHANGED <<storyMonth, told, activeTales, lastFired, bets, stakes, chronicle>>
      BY <1>3 DEF ContinueEndless
    <2>2. ReviewedBeforeEndless'
      BY <1>3 DEF ContinueEndless, ReviewedBeforeEndless
    <2>3. QED BY <2>1, <2>2 DEF ToldInOrder, Tellings, ChosenOnce, ChoicesMade, BetsInOrder, Bets,
                               BetsAreAnsweredOnce
  <1>4. CASE (\E p \in People : DutyChanges(p)) \/ UNCHANGED storyVars
    <2>1. UNCHANGED <<storyMonth, told, activeTales, lastFired, bets, stakes, chronicle, career>>
      BY <1>4 DEF DutyChanges, storyVars
    <2>2. QED BY <2>1 DEF ToldInOrder, Tellings, ChosenOnce, ChoicesMade, BetsInOrder, Bets,
                          BetsAreAnsweredOnce, ReviewedBeforeEndless
  <1>5. QED BY <1>1, <1>2, <1>3, <1>4 DEF StoryNext

LEMMA StoryInvHolds == StoryInv => StoryHolds
PROOF
  <1> SUFFICES ASSUME StoryInv PROVE StoryHolds
    OBVIOUS
  <1>1. \A s \in told : IF s \in activeTales THEN ChoicesMade(s) = {}
                        ELSE Cardinality(ChoicesMade(s)) = 1
    <2>1. ASSUME NEW s \in told, s \in activeTales PROVE ChoicesMade(s) = {}
      BY <2>1 DEF StoryInv, ChosenOnce, ChoicesMade
    <2>2. ASSUME NEW s \in told, s \notin activeTales PROVE Cardinality(ChoicesMade(s)) = 1
      <3>1. PICK c : ChoicesMade(s) = {ChoiceEntry(s, c)}
        BY <2>2 DEF StoryInv, ChosenOnce
      <3>2. \A x : Cardinality({x}) = 1
        BY FS_Singleton
      <3>3. QED BY <3>1, <3>2
    <2>3. QED BY <2>1, <2>2
  <1>2. \A s, t \in told : s.tale = t.tale /\ s.month < t.month =>
            /\ t.month - s.month >= CooldownOf[s.tale]
            /\ s \notin activeTales
    BY DEF StoryInv, ToldInOrder, Tellings
  <1>3. QED BY <1>1, <1>2 DEF StoryInv, StoryHolds, StoriesAreToldOnce, BetsInOrder,
                              ReviewedBeforeEndless

\* A story is told once while it is open and not again within its cooldown, a bet is paid
\* for and answered once, in its month, and endless play follows the review
\* (narrativeSystem.ts, careerOutcome.ts).
THEOREM StoriesAndBetsAreAnswered == StorySpec => []StoryHolds
  <1>1. QED BY StoryStarts, StoryStays, StoryInvHolds, PTL DEF StorySpec

-----------------------------------------------------------------------------
(* A save is read as what was written, or refused.                         *)

StateFields ==
  {"lacks", "streams", "ledger", "opening", "rooms", "stays", "topFloor", "car",
   "closedByLaw", "refers"}
SaveFields == {"save", "content", "protocol", "header", "preferences", "state"}

\* What a state, a save and a file are made of.
State(s) ==
  DOMAIN s = StateFields /\ {s.ledger, s.opening, s.topFloor, s.car} \subseteq Int
Save(e) == DOMAIN e = SaveFields /\ State(e.state)
File(f) ==
  /\ Save(f.payload)
  /\ f = [save |-> f.save, content |-> f.content, protocol |-> f.protocol, pack |-> f.pack,
          payload |-> f.payload, signature |-> f.signature]

\* The figures of a game agree, and it refers to nothing this build does not know.
Whole(s) ==
  /\ OpeningWithinLedger(s) /\ CarsWithinHouse(s) /\ StaysHaveRooms(s)
  /\ s.refers \subseteq Definitions

FormatInv ==
  /\ State(game) /\ Whole(game)
  /\ shelf # NoSave => Save(shelf)
  /\ file # NoSave => File(file)
  /\ SlotIsLoadable /\ ExportsComeBack

\* What is normalized is left as it is.
LEMMA NormalizedOnce == \A p : Normalized(Normalized(p)) = Normalized(p)
PROOF
  <1> SUFFICES ASSUME NEW p PROVE Normalized(Normalized(p)) = Normalized(p)
    OBVIOUS
  <1> DEFINE n == Normalized(p)
             v == IF p.volume < 0 THEN 0
                  ELSE IF p.volume > FullVolume THEN FullVolume ELSE p.volume
  <1>1. n.volume = v /\ n.done = {i \in DOMAIN Steps : 1 .. i \subseteq p.done}
    BY DEF Normalized
  <1>2. Normalized(n).volume = v
    <2>1. FullVolume \in Nat
      BY FormatAssumption
    <2>2. Normalized(n).volume = IF v < 0 THEN 0
                                 ELSE IF v > FullVolume THEN FullVolume ELSE v
      BY <1>1 DEF Normalized
    <2>3. QED BY <2>1, <2>2
  <1> HIDE DEF v
  <1>3. Normalized(n).done = n.done
    <2>1. Normalized(n).done = {i \in DOMAIN Steps : 1 .. i \subseteq n.done}
      BY DEF Normalized
    <2>2. ASSUME NEW i \in DOMAIN Steps PROVE 1 .. i \subseteq n.done <=> 1 .. i \subseteq p.done
      <3>1. i \in 1 .. Len(Steps) /\ Len(Steps) \in Nat /\ DOMAIN Steps = 1 .. Len(Steps)
        BY FormatAssumption
      <3>2. \A j \in 1 .. i : j \in DOMAIN Steps /\ 1 .. j \subseteq 1 .. i /\ j \in 1 .. j
        BY <3>1
      <3>3. i \in 1 .. i
        BY <3>1
      <3>4. QED BY <1>1, <3>2, <3>3
    <2> HIDE DEF n
    <2>3. QED BY <1>1, <2>1, <2>2
  <1>4. \A q : Normalized(q) = [volume |-> Normalized(q).volume, done |-> Normalized(q).done]
    BY DEF Normalized
  <1> HIDE DEF n
  <1>5. QED BY <1>1, <1>2, <1>3, <1>4 DEF n

\* A save of this version is not migrated, and only such a save is valid after it.
LEMMA MigrationOfNoUse ==
  ASSUME NEW e, Save(e)
  PROVE  /\ Save(Migrated(e))
         /\ Valid(Migrated(e)) => e.save = SaveVersion /\ Migrated(e) = e
         /\ e.save = SaveVersion => Migrated(e) = e
PROOF
  <1>1. CASE e.save # 12
    BY <1>1 DEF Migrated, Valid, HeaderSound
  <1>2. CASE e.save = 12
    <2>1. Migrated(e) = [e EXCEPT !.save = 13, !.state.lacks = @ \ SuppliedFrom12]
      BY <1>2 DEF Migrated
    <2>2. Save(Migrated(e)) /\ Migrated(e).save = 13
      BY <2>1 DEF Save, State, SaveFields, StateFields
    <2>3. QED BY <1>2, <2>2, FormatAssumption DEF Valid, HeaderSound
  <1>3. QED BY <1>1, <1>2

\* What the game prepares is a save of this build, sound but for what a rule closed.
LEMMA PreparedIsWhole ==
  ASSUME State(game), Whole(game), NEW p
  PROVE  /\ Save(PreparedSave(p)) /\ PreparedSave(p).save = SaveVersion
         /\ ContentKnown(PreparedSave(p))
         /\ ~game.closedByLaw => Valid(PreparedSave(p))
PROOF
  <1> DEFINE s == [game EXCEPT !.lacks = IF game.closedByLaw THEN {"fnb"} ELSE {}]
             e == PreparedSave(p)
  <1>1. /\ State(s) /\ Whole(s) /\ s.streams = game.streams
        /\ ~game.closedByLaw => s.lacks = {}
    BY DEF State, StateFields, Whole, OpeningWithinLedger, CarsWithinHouse, StaysHaveRooms
  <1>2. /\ DOMAIN e = SaveFields /\ e.state = s /\ e.header = game.streams
        /\ e.save = SaveVersion /\ e.content = ContentVersion /\ e.protocol = Protocol
        /\ e.preferences = Normalized(p)
    BY DEF PreparedSave, SaveFields
  <1> HIDE DEF s, e
  <1>3. QED BY <1>1, <1>2, NormalizedOnce
            DEF e, Save, ContentKnown, Whole, Valid, HeaderSound, StreamsAgree

LEMMA FormatStarts == FormatInit => FormatInv
  BY DEF FormatInit, FormatInv, State, StateFields, Whole, OpeningWithinLedger, CarsWithinHouse,
         StaysHaveRooms, SlotIsLoadable, ExportsComeBack

\* Play keeps the figures in step.
LEMMA PlayKeepsWhole ==
  ASSUME FormatInv, Play \/ PlayMonth
  PROVE  State(game)' /\ Whole(game)' /\ UNCHANGED <<shelf, file, source>>
PROOF
  <1>1. State(game) /\ Whole(game)
    BY DEF FormatInv
  <1>2. DOMAIN game = StateFields
        /\ game.ledger \in Int /\ game.opening \in Int /\ game.topFloor \in Int /\ game.car \in Int
        /\ game.opening <= game.ledger /\ game.car <= game.topFloor /\ game.stays \subseteq game.rooms
        /\ game.refers \subseteq Definitions
    BY <1>1 DEF State, Whole, OpeningWithinLedger, CarsWithinHouse, StaysHaveRooms
  <1> DEFINE Goes(s) ==
        /\ DOMAIN s = StateFields
        /\ s.ledger \in Int /\ s.opening \in Int /\ s.topFloor \in Int /\ s.car \in Int
        /\ s.opening <= s.ledger /\ s.car <= s.topFloor /\ s.stays \subseteq s.rooms
        /\ s.refers \subseteq Definitions
  <1>3. Goes([game EXCEPT !.streams = @ + 1])
    BY <1>2 DEF StateFields
  <1>4. \A n \in 1 .. 2 : Goes([game EXCEPT !.ledger = @ + n])
    BY <1>2 DEF StateFields
  <1>5. \A r \in game.rooms : Goes([game EXCEPT !.stays = @ \cup {r}])
    BY <1>2 DEF StateFields
  <1>6. \A r : Goes([game EXCEPT !.rooms = @ \cup {r}, !.topFloor = @ + 1])
    BY <1>2 DEF StateFields
  <1>7. \A f \in 0 .. game.topFloor : Goes([game EXCEPT !.car = f])
    BY <1>2 DEF StateFields
  <1>8. \A b : Goes([game EXCEPT !.closedByLaw = b])
    BY <1>2 DEF StateFields
  <1>9. \A n \in 1 .. game.ledger : Goes([game EXCEPT !.ledger = n, !.opening = n])
    BY <1>2 DEF StateFields
  <1> HIDE DEF Goes
  <1>10. CASE Play
    <2>1. Goes(game')
      BY <1>3, <1>4, <1>5, <1>6, <1>7, <1>8, <1>10 DEF Play
    <2>2. QED
      BY <1>10, <2>1 DEF Goes, Play, Playing, State, Whole, OpeningWithinLedger, CarsWithinHouse,
                         StaysHaveRooms
  <1>11. CASE PlayMonth
    <2>1. Goes(game')
      BY <1>9, <1>11 DEF PlayMonth
    <2>2. QED
      BY <1>11, <2>1 DEF Goes, PlayMonth, Playing, State, Whole, OpeningWithinLedger,
                         CarsWithinHouse, StaysHaveRooms
  <1>12. QED BY <1>10, <1>11

LEMMA EditKeepsFiles ==
  ASSUME FormatInv, EditFile
  PROVE  file' # NoSave => File(file)'
PROOF
  <1>0. File(file)
    BY DEF EditFile, FormatInv
  <1>1. PICK e : Save(e) /\ file' \in {SignedFile(e), [file EXCEPT !.payload = e]}
    <2> DEFINE Edits ==
      {[file.payload EXCEPT !.header = @ + 1],
       [file.payload EXCEPT !.state.lacks = {"loans"}],
       [file.payload EXCEPT !.state.opening = file.payload.state.ledger + 1],
       [file.payload EXCEPT !.state.stays = SealedRooms],
       [file.payload EXCEPT !.state.refers = @ \cup {Foreign}],
       [file.payload EXCEPT !.preferences.done = {Len(Steps)}]}
      \cup {[file.payload EXCEPT !.save = v, !.state.lacks = SuppliedFrom12] : v \in OldVersions}
    <2>1. \E e \in Edits : file' \in {SignedFile(e), [file EXCEPT !.payload = e]}
      BY DEF EditFile, Carry
    <2>2. \A e \in Edits : Save(e)
      <3>1. Save(file.payload)
        BY <1>0 DEF File
      <3> DEFINE q == file.payload
      <3>2. Save([q EXCEPT !.header = @ + 1])
        BY <3>1 DEF Save, State, SaveFields, StateFields
      <3>3. Save([q EXCEPT !.state.lacks = {"loans"}])
        BY <3>1 DEF Save, State, SaveFields, StateFields
      <3>4. Save([q EXCEPT !.state.opening = q.state.ledger + 1])
        BY <3>1 DEF Save, State, SaveFields, StateFields
      <3>5. Save([q EXCEPT !.state.stays = SealedRooms])
        BY <3>1 DEF Save, State, SaveFields, StateFields
      <3>6. Save([q EXCEPT !.state.refers = @ \cup {Foreign}])
        BY <3>1 DEF Save, State, SaveFields, StateFields
      <3>7. Save([q EXCEPT !.preferences.done = {Len(Steps)}])
        BY <3>1 DEF Save, State, SaveFields, StateFields
      <3>8. \A v : Save([q EXCEPT !.save = v, !.state.lacks = SuppliedFrom12])
        BY <3>1 DEF Save, State, SaveFields, StateFields
      <3> HIDE DEF q
      <3>9. QED BY <3>2, <3>3, <3>4, <3>5, <3>6, <3>7, <3>8 DEF q
    <2> HIDE DEF Edits
    <2>3. QED BY <2>1, <2>2
  <1>2. QED BY <1>0, <1>1 DEF SignedFile, File

LEMMA FormatStays == FormatInv /\ [FormatNext]_formatVars => FormatInv'
PROOF
  <1> SUFFICES ASSUME FormatInv, [FormatNext]_formatVars PROVE FormatInv'
    OBVIOUS
  <1>1. CASE Play \/ PlayMonth
    BY <1>1, PlayKeepsWhole DEF FormatInv, SlotIsLoadable, ExportsComeBack
  <1>2. ASSUME NEW p \in Preferences, SaveGame(p) PROVE FormatInv'
    <2> DEFINE e == PreparedSave(p)
    <2>1. Save(e) /\ e.save = SaveVersion /\ ContentKnown(e)
      BY PreparedIsWhole DEF FormatInv
    <2>2. /\ (shelf' = e /\ Valid(e)) \/ shelf' = shelf
          /\ UNCHANGED <<game, file, source>>
      BY <1>2 DEF SaveGame
    <2> HIDE DEF e
    <2>3. QED BY <2>1, <2>2 DEF FormatInv, SlotIsLoadable, ExportsComeBack
  <1>3. CASE ExportFile
    <2>1. /\ Save(shelf) /\ Migrated(shelf) = shelf /\ UNCHANGED <<game, shelf>>
      BY <1>3, MigrationOfNoUse DEF ExportFile, FormatInv, SlotIsLoadable
    <2>2. CASE UNCHANGED <<file, source>>
      BY <2>1, <2>2 DEF FormatInv, SlotIsLoadable, ExportsComeBack
    <2>3. CASE /\ file' = SignedFile(shelf) /\ source' = shelf
               /\ Valid(shelf) /\ ContentKnown(shelf) /\ Bytes(shelf) + Wrapping <= MaxBytes
      <3>1. File(file)' /\ file'.payload = shelf
        BY <2>1, <2>3 DEF File, SignedFile
      <3>2. Parses(file)'
        BY <2>1, <2>3 DEF Parses, SignedFile
      <3>3. QED BY <2>1, <2>3, <3>1, <3>2 DEF FormatInv, SlotIsLoadable, ExportsComeBack
    <2>4. QED BY <1>3, <2>1, <2>2, <2>3 DEF ExportFile
  <1>4. CASE EditFile
    <2>1. source' = NoSave /\ UNCHANGED <<game, shelf>>
      BY <1>4 DEF EditFile, Carry
    <2>2. QED BY <1>4, <2>1, EditKeepsFiles DEF FormatInv, SlotIsLoadable, ExportsComeBack
  <1>5. CASE ImportFile
    <2>1. File(file)
      BY <1>5 DEF ImportFile, FormatInv
    <2>2. /\ UNCHANGED <<game, file, source>>
          /\ shelf' = shelf \/ (shelf' = Migrated(file.payload) /\ Parses(file))
      BY ONLY <1>5 DEF ImportFile
    <2>3. Parses(file) => /\ Save(Migrated(file.payload)) /\ Valid(Migrated(file.payload))
                          /\ Migrated(file.payload).save = SaveVersion
                          /\ ContentKnown(Migrated(file.payload))
      BY <2>1, MigrationOfNoUse DEF File, Parses
    <2>4. QED BY <2>2, <2>3 DEF FormatInv, SlotIsLoadable, ExportsComeBack
  <1>6. CASE LoadGame
    <2>1. Save(shelf) /\ Valid(shelf) /\ ContentKnown(shelf) /\ Migrated(shelf) = shelf
      BY <1>6, MigrationOfNoUse DEF LoadGame, FormatInv, SlotIsLoadable
    <2>2. UNCHANGED <<shelf, file, source>> /\ game' = shelf.state
      BY <1>6, <2>1 DEF LoadGame
    <2>3. State(game)' /\ Whole(game)'
      BY <2>1, <2>2 DEF Save, Valid, ContentKnown, Whole, State
    <2>4. QED BY <2>2, <2>3 DEF FormatInv, SlotIsLoadable, ExportsComeBack
  <1>7. CASE UNCHANGED formatVars
    BY <1>7 DEF formatVars, FormatInv, SlotIsLoadable, ExportsComeBack
  <1>8. QED BY <1>1, <1>2, <1>3, <1>4, <1>5, <1>6, <1>7 DEF FormatNext

LEMMA FormatInvHolds == FormatInv => FormatHolds
PROOF
  <1> SUFFICES ASSUME FormatInv PROVE FormatHolds
    OBVIOUS
  <1>1. SlotIsLoadable /\ ExportsComeBack
    BY DEF FormatInv
  <1>2. ChangesAreNoticed
    <2> SUFFICES ASSUME file # NoSave, Parses(file)
                 PROVE  file = SignedFile(file.payload) /\ file.payload.save = SaveVersion
      BY DEF ChangesAreNoticed
    <2>1. File(file)
      BY DEF FormatInv
    <2>2. file.payload.save = SaveVersion
      BY <2>1, MigrationOfNoUse DEF Parses, File
    <2>3. file = SignedFile(file.payload)
      BY <2>1 DEF Parses, File, SignedFile
    <2>4. QED BY <2>2, <2>3
  <1>3. GameCanBeSaved
    BY PreparedIsWhole DEF FormatInv, GameCanBeSaved
  <1>4. QED BY <1>1, <1>2, <1>3 DEF FormatHolds

\* What is in the slot can be loaded, a file comes back as the save it was made of, a
\* changed one is refused, and a running game can be saved unless a rule has closed an
\* outlet or it has grown too large (saveSchema.ts, saveTransfer.ts, simulation.worker.ts).
THEOREM SavesAreBelieved == FormatSpec => []FormatHolds
  <1>1. QED BY FormatStarts, FormatStays, FormatInvHolds, PTL DEF FormatSpec

-----------------------------------------------------------------------------
(* Orders and linen.                                                       *)

Orders == [sku : Skus, quantity : Nat, due : Nat, by : {"house", "player"}]

LEMMA SupplyNumbers == LeadTime \in Nat /\ Minimum \in Nat
  BY SupplyAssumption

\* Of a ware there is one order of the house, on the way or waiting.
OneOrder(orders, waits) ==
  /\ \A i, j \in DOMAIN orders :
       orders[i].by = "house" /\ orders[j].by = "house" /\ orders[i].sku = orders[j].sku => i = j
  /\ NoneTwice(waits)
  /\ \A i \in DOMAIN orders, k \in DOMAIN waits :
       orders[i].by = "house" => orders[i].sku # waits[k]

OrdersKept ==
  /\ moment \in Nat /\ coming \in Seq(Orders) /\ standing \in Seq(Skus)
  /\ OneOrder(coming, standing)

LinenKept ==
  /\ linen \in [clean : Nat, dirty : Nat] /\ made \subseteq Beds /\ DOMAIN rooms = Beds
  /\ LinenIsNotMultiplied

SupplyInv == OrdersKept /\ LinenKept

LEMMA SupplyStarts == SupplyInit => SupplyInv
PROOF
  <1> SUFFICES ASSUME SupplyInit PROVE SupplyInv
    OBVIOUS
  <1>1. OrdersKept
    BY DEF SupplyInit, OrdersKept, OneOrder, NoneTwice
  <1>2. Cardinality(Beds) \in Nat
    BY SupplyAssumption, FS_CardinalityType
  <1>3. LinenKept
    BY <1>2, SupplyAssumption
    DEF SupplyInit, LinenKept, LinenIsNotMultiplied, PiecesInHouse, In
  <1>4. QED BY <1>1, <1>3 DEF SupplyInv

\* What was affordable of what waits is on the way, once.
LEMMA DecidedIs ==
  ASSUME OrdersKept, NEW paid
  PROVE  LET orders == Decided(Sifted(standing, paid))
         IN  orders \in Seq(Orders) /\ OneOrder(orders, <<>>)
PROOF
  <1> DEFINE placed == Sifted(standing, paid)
             put == [i \in DOMAIN placed |-> PlaceOrder(placed[i], Minimum, "house")]
             orders == coming \o put
  <1>1. placed \in Seq(Skus) /\ NoneTwice(placed) /\ ElementsOf(placed) \subseteq ElementsOf(standing)
    BY SiftedIs DEF OrdersKept, OneOrder
  <1> HIDE DEF placed
  <1>2. DOMAIN placed = 1 .. Len(placed) /\ Len(placed) \in Nat
        /\ \A i \in DOMAIN placed : placed[i] \in Skus
    BY <1>1
  <1>c. moment \in Nat
    BY DEF OrdersKept
  <1>a. moment + LeadTime \in Nat /\ Minimum \in Nat
    BY <1>c, SupplyNumbers
  <1>b. ASSUME NEW sku \in Skus PROVE PlaceOrder(sku, Minimum, "house") \in Orders
    BY <1>a DEF PlaceOrder, Orders
  <1>3. \A i \in DOMAIN placed : put[i] \in Orders
    BY <1>2, <1>b
  <1>4. \A i \in DOMAIN placed : put[i].sku = placed[i] /\ put[i].by = "house"
    BY DEF PlaceOrder
  <1>5. put \in [1 .. Len(placed) -> Orders]
    BY <1>2, <1>3
  <1> HIDE DEF put
  <1>6. put \in Seq(Orders) /\ Len(put) = Len(placed)
    BY <1>2, <1>5
  <1>d. coming \in Seq(Orders)
    BY DEF OrdersKept
  <1>8. Len(coming) \in Nat /\ DOMAIN coming = 1 .. Len(coming) /\ coming \in Seq(Orders)
    BY <1>d
  <1>7. /\ orders \in Seq(Orders) /\ DOMAIN orders = 1 .. Len(coming) + Len(put)
        /\ \A i \in 1 .. Len(coming) : orders[i] = coming[i]
        /\ \A i \in 1 .. Len(put) : orders[Len(coming) + i] = put[i]
    BY <1>6, <1>d
  <1>9. \A i \in DOMAIN orders :
          \/ i \in DOMAIN coming /\ orders[i] = coming[i]
          \/ \E k \in DOMAIN placed : i = Len(coming) + k /\ orders[i] = put[k]
    <2>1. SUFFICES ASSUME NEW i \in DOMAIN orders, i \notin DOMAIN coming
                   PROVE  \E k \in DOMAIN placed : i = Len(coming) + k /\ orders[i] = put[k]
      BY <1>7, <1>8
    <2>2. i - Len(coming) \in 1 .. Len(put) /\ i = Len(coming) + (i - Len(coming))
      BY <1>2, <1>6, <1>7, <1>8, <2>1
    <2> HIDE DEF orders
    <2>3. QED BY <1>2, <1>6, <1>7, <2>2
  <1> HIDE DEF orders
  <1>10. \A i, j \in DOMAIN orders :
           orders[i].by = "house" /\ orders[j].by = "house" /\ orders[i].sku = orders[j].sku => i = j
    <2>1. SUFFICES ASSUME NEW i \in DOMAIN orders, NEW j \in DOMAIN orders,
                          orders[i].by = "house", orders[j].by = "house",
                          orders[i].sku = orders[j].sku
                   PROVE  i = j
      OBVIOUS
    <2>2. \A a \in DOMAIN coming, k \in DOMAIN placed :
            coming[a].by = "house" => coming[a].sku # placed[k]
      BY <1>1 DEF OrdersKept, OneOrder, ElementsOf
    <2>3. CASE i \in DOMAIN coming /\ orders[i] = coming[i] /\ j \in DOMAIN coming
               /\ orders[j] = coming[j]
      BY <2>1, <2>3 DEF OrdersKept, OneOrder
    <2>4. CASE i \in DOMAIN coming /\ orders[i] = coming[i]
               /\ \E k \in DOMAIN placed : j = Len(coming) + k /\ orders[j] = put[k]
      BY <1>4, <2>1, <2>2, <2>4
    <2>5. CASE j \in DOMAIN coming /\ orders[j] = coming[j]
               /\ \E k \in DOMAIN placed : i = Len(coming) + k /\ orders[i] = put[k]
      BY <1>4, <2>1, <2>2, <2>5
    <2>6. CASE /\ \E k \in DOMAIN placed : i = Len(coming) + k /\ orders[i] = put[k]
               /\ \E k \in DOMAIN placed : j = Len(coming) + k /\ orders[j] = put[k]
      BY <1>1, <1>4, <2>1, <2>6 DEF NoneTwice
    <2>7. QED BY <1>9, <2>3, <2>4, <2>5, <2>6
  <1>11. OneOrder(orders, <<>>)
    BY <1>10 DEF OneOrder, NoneTwice
  <1>12. Decided(placed) = orders
    BY DEF Decided, orders, put
  <1>13. QED BY <1>7, <1>11, <1>12 DEF placed

\* What is still on the way was on the way before, and what is ordered anew is not.
LEMMA ReceivedIs ==
  ASSUME NEW orders \in Seq(Orders), OneOrder(orders, <<>>), NEW stocked, NEW payable
  PROVE  LET way == OnTheWay(orders)
         IN  /\ way \in Seq(Orders) /\ Reordered(way, stocked, payable) \in Seq(Skus)
             /\ OneOrder(way, Reordered(way, stocked, payable))
PROOF
  <1> DEFINE kept == {o \in ElementsOf(orders) : o.due > moment}
             way == Sifted(orders, kept)
             wares == <<"cleaning-unit", "breakfast-portion">>
             low == LowOn(way, stocked) \cap payable
             waits == Sifted(wares, low)
  <1>1. way \in Seq(Orders)
    BY SiftedIs
  <1>2. wares \in Seq(Skus) /\ NoneTwice(wares)
    BY DEF Skus, NoneTwice
  <1> HIDE DEF kept, wares, low
  <1>3. waits \in Seq(Skus) /\ NoneTwice(waits) /\ ElementsOf(waits) \subseteq low
    BY <1>2, SiftedIs
  <1>4. \A i, j \in DOMAIN way :
          way[i].by = "house" /\ way[j].by = "house" /\ way[i].sku = way[j].sku => i = j
    <2>1. SUFFICES ASSUME NEW i \in DOMAIN way, NEW j \in DOMAIN way,
                          way[i].by = "house", way[j].by = "house", way[i].sku = way[j].sku,
                          i # j
                   PROVE  FALSE
      OBVIOUS
    <2>2. PICK k, l \in DOMAIN orders : k # l /\ orders[k] = way[i] /\ orders[l] = way[j]
      BY <2>1, SiftedApart
    <2>3. QED BY <2>1, <2>2 DEF OneOrder
  <1>5. \A i \in DOMAIN way, k \in DOMAIN waits : way[i].sku # waits[k]
    BY <1>3 DEF low, LowOn, ElementsOf
  <1>6. OneOrder(way, waits)
    BY <1>3, <1>4, <1>5 DEF OneOrder
  <1>7. way = OnTheWay(orders) /\ waits = Reordered(way, stocked, payable)
    BY DEF OnTheWay, Reordered, kept, wares, low
  <1>8. QED BY <1>1, <1>3, <1>6, <1>7

LEMMA OrderKeeps ==
  ASSUME SupplyInv, NEW sku \in Skus, NEW paid, OrderSupplies(sku, Sifted(standing, paid))
  PROVE  SupplyInv'
PROOF
  <1>1. LinenKept'
    BY DEF SupplyInv, OrderSupplies, LinenKept, LinenIsNotMultiplied, PiecesInHouse, In
  <1> DEFINE orders == Decided(Sifted(standing, paid))
             mine == PlaceOrder(sku, Minimum, "player")
  <1>2. orders \in Seq(Orders) /\ OneOrder(orders, <<>>)
    BY DecidedIs DEF SupplyInv
  <1>c. moment \in Nat
    BY DEF SupplyInv, OrdersKept
  <1>a. moment + LeadTime \in Nat /\ Minimum \in Nat
    BY <1>c, SupplyNumbers
  <1>3. mine \in Orders /\ mine.by = "player"
    BY <1>a DEF PlaceOrder, Orders
  <1>4. coming' = Append(orders, mine) /\ standing' = <<>> /\ moment' = moment
    BY DEF OrderSupplies
  <1> HIDE DEF orders, mine
  <1>5. /\ coming' \in Seq(Orders) /\ DOMAIN coming' = 1 .. Len(orders) + 1
        /\ coming'[Len(orders) + 1] = mine
        /\ \A i \in 1 .. Len(orders) : coming'[i] = orders[i]
        /\ DOMAIN orders = 1 .. Len(orders) /\ Len(orders) \in Nat
    BY <1>2, <1>3, <1>4
  <1>6. \A i \in DOMAIN coming' :
          coming'[i].by = "house" => i \in DOMAIN orders /\ coming'[i] = orders[i]
    <2>1. \A i \in DOMAIN coming' : i \in DOMAIN orders \/ i = Len(orders) + 1
      BY <1>5
    <2>2. QED BY <1>3, <1>5, <2>1
  <1>7. OneOrder(coming', standing')
    BY <1>2, <1>4, <1>6 DEF OneOrder, NoneTwice
  <1>8. OrdersKept'
    BY <1>4, <1>5, <1>7 DEF SupplyInv, OrdersKept
  <1>9. QED BY <1>1, <1>8 DEF SupplyInv

\* The linen of a house: on the shelf, in the laundry and on beds.
Pieces(h) == h.linen.clean + h.linen.dirty + LinenPieces * Cardinality(h.made)
AllLinen == StartingLinen + LinenPieces * Cardinality(Beds)

\* Nothing is lost or made of it, and who sleeps sleeps in a bed that is made.
Linened(h) ==
  /\ h.linen \in [clean : Nat, dirty : Nat] /\ h.made \subseteq Beds /\ DOMAIN h.rooms = Beds
  /\ Pieces(h) <= AllLinen
  /\ \A r \in Beds : h.rooms[r] \in {"Occupied", "VacantClean", "Inspected"} => r \in h.made

LEMMA BedsCount ==
  /\ AllLinen \in Nat
  /\ \A S \in SUBSET Beds : IsFiniteSet(S) /\ Cardinality(S) \in Nat
                            /\ LinenPieces * Cardinality(S) \in Nat
PROOF
  <1>1. ASSUME NEW S \in SUBSET Beds PROVE IsFiniteSet(S) /\ Cardinality(S) \in Nat
    <2>1. IsFiniteSet(S)
      BY SupplyAssumption, FS_Subset
    <2>2. QED BY <2>1, FS_CardinalityType
  <1>2. LinenPieces \in Nat /\ StartingLinen \in Nat
    BY SupplyAssumption
  <1>3. \A a, b \in Nat : a * b \in Nat
    OBVIOUS
  <1>4. Beds \in SUBSET Beds
    OBVIOUS
  <1>5. QED BY <1>1, <1>2, <1>3, <1>4 DEF AllLinen

LEMMA LeavingStripsBeds ==
  ASSUME LinenKept, NEW leaving \in SUBSET In("Occupied")
  PROVE  Linened(CheckOut(leaving))
PROOF
  <1> DEFINE h == CheckOut(leaving)
  <1>1. /\ DOMAIN h.rooms = Beds /\ h.made = made \ leaving
        /\ h.linen = [linen EXCEPT !.dirty = @ + LinenPieces * Cardinality(leaving)]
        /\ \A r \in Beds : h.rooms[r] = IF r \in leaving THEN "VacantDirty" ELSE rooms[r]
    BY DEF CheckOut
  <1> HIDE DEF h
  <1>2. leaving \subseteq made /\ made \subseteq Beds /\ leaving \in SUBSET Beds
    BY DEF LinenKept, LinenIsNotMultiplied, In
  <1>3. Cardinality(made) = Cardinality(leaving) + Cardinality(made \ leaving)
    <2>1. IsFiniteSet(made) /\ made \ leaving \in SUBSET Beds
      BY <1>2, BedsCount
    <2>2. made \cap leaving = leaving
      BY <1>2
    <2>3. Cardinality(made \ leaving) = Cardinality(made) - Cardinality(made \cap leaving)
      BY <1>2, <2>1, BedsCount, FS_Difference
    <2>4. Cardinality(made) \in Nat /\ Cardinality(leaving) \in Nat
      BY <1>2, BedsCount
    <2>5. QED BY <2>2, <2>3, <2>4
  <1>4. h.linen.clean = linen.clean
        /\ h.linen.dirty = linen.dirty + LinenPieces * Cardinality(leaving)
        /\ linen.clean \in Nat /\ linen.dirty \in Nat
    BY <1>1 DEF LinenKept
  <1> DEFINE p == LinenPieces
             a == Cardinality(leaving)
             b == Cardinality(made \ leaving)
  <1>5. a \in Nat /\ b \in Nat /\ p \in Nat /\ p * a \in Nat /\ p * b \in Nat
    <2>1. made \ leaving \in SUBSET Beds
      BY <1>2
    <2>2. QED BY <1>2, <2>1, BedsCount, SupplyAssumption
  <1>6. p * (a + b) = p * a + p * b
    BY <1>5
  <1>7. PiecesInHouse = linen.clean + linen.dirty + p * (a + b)
    BY <1>3 DEF PiecesInHouse
  <1> HIDE DEF a, b, p
  <1>8. Pieces(h) = PiecesInHouse
    BY <1>1, <1>4, <1>5, <1>6, <1>7 DEF Pieces, a, b, p
  <1>9. PiecesInHouse <= AllLinen
    BY DEF LinenKept, LinenIsNotMultiplied, AllLinen
  <1>10. h.linen \in [clean : Nat, dirty : Nat]
    BY <1>1, <1>5 DEF LinenKept, a, p
  <1>11. \A r \in Beds : h.rooms[r] \in {"Occupied", "VacantClean", "Inspected"} => r \in h.made
    BY <1>1 DEF LinenKept, LinenIsNotMultiplied, In
  <1>12. Linened(h)
    BY <1>1, <1>2, <1>8, <1>9, <1>10, <1>11 DEF Linened
  <1>13. QED BY <1>12 DEF h

LEMMA TurningMakesBeds ==
  ASSUME NEW g, Linened(g), NEW cleaners, NEW minutes, NEW h \in TurnRooms(g, cleaners, minutes)
  PROVE  Linened(h) /\ DOMAIN h = {"rooms", "linen", "made", "units"}
PROOF
  <1> DEFINE opened == [r \in Beds |-> IF g.rooms[r] = "Inspected" THEN "VacantClean"
                                                                   ELSE g.rooms[r]]
             dirty == {r \in Beds : opened[r] = "VacantDirty"}
  <1>1. PICK turned \in SUBSET dirty :
          /\ Cardinality(turned) * LinenPieces <= g.linen.clean
          /\ h = [rooms |-> [r \in Beds |-> IF r \in turned THEN "Inspected" ELSE opened[r]],
                  linen |-> [g.linen EXCEPT !.clean = @ - LinenPieces * Cardinality(turned)],
                  made |-> g.made \cup turned, units |-> cleaners - Cardinality(turned)]
    BY DEF TurnRooms
  <1> DEFINE p == LinenPieces
             a == Cardinality(turned)
             b == Cardinality(g.made)
             c == Cardinality(g.made \cup turned)
  <1>2. turned \in SUBSET Beds /\ g.made \in SUBSET Beds /\ g.made \cup turned \in SUBSET Beds
    BY DEF Linened
  <1>3. /\ IsFiniteSet(turned) /\ IsFiniteSet(g.made)
        /\ a \in Nat /\ b \in Nat /\ c \in Nat /\ p \in Nat
        /\ p * a \in Nat /\ p * b \in Nat /\ p * c \in Nat
    BY <1>2, BedsCount, SupplyAssumption
  <1>4. c <= a + b
    <2>1. c = b + a - Cardinality(g.made \cap turned)
      BY <1>3, FS_Union
    <2>2. g.made \cap turned \in SUBSET Beds
      BY <1>2
    <2>3. Cardinality(g.made \cap turned) \in Nat
      BY <2>2, BedsCount
    <2>4. QED BY <1>3, <2>1, <2>3
  <1>5. h.linen = [g.linen EXCEPT !.clean = @ - LinenPieces * Cardinality(turned)]
        /\ h.made = g.made \cup turned
        /\ h.rooms = [r \in Beds |-> IF r \in turned THEN "Inspected" ELSE opened[r]]
        /\ DOMAIN h = {"rooms", "linen", "made", "units"}
    BY <1>1
  <1>6. g.linen \in [clean : Nat, dirty : Nat]
    BY DEF Linened
  <1>7. h.linen.clean = g.linen.clean - p * a /\ h.linen.dirty = g.linen.dirty
        /\ a * p <= g.linen.clean
    BY <1>1, <1>5, <1>6
  <1>8. p * c <= p * a + p * b
    <2>1. p * c <= p * (a + b)
      <3>1. \A x, y, z \in Nat : y <= z => x * y <= x * z
        OBVIOUS
      <3>2. a + b \in Nat
        BY <1>3
      <3> HIDE DEF a, b, c, p
      <3>3. QED BY <1>3, <1>4, <3>1, <3>2
    <2>2. p * (a + b) = p * a + p * b
      BY <1>3
    <2>3. QED BY <2>1, <2>2
  <1>9. a * p = p * a
    BY <1>3
  <1>10. Pieces(h) = h.linen.clean + h.linen.dirty + p * c
         /\ Pieces(g) = g.linen.clean + g.linen.dirty + p * b
    BY <1>5 DEF Pieces
  <1>11. Pieces(g) <= AllLinen /\ AllLinen \in Nat
    BY BedsCount DEF Linened
  <1>12. \A r \in Beds : h.rooms[r] \in {"Occupied", "VacantClean", "Inspected"} => r \in h.made
    BY <1>5 DEF Linened
  <1>13. DOMAIN h.rooms = Beds
    BY <1>5
  <1> HIDE DEF a, b, c, p
  <1>14. Pieces(h) <= AllLinen
    BY <1>3, <1>6, <1>7, <1>8, <1>9, <1>10, <1>11
  <1>15. h.linen.clean \in Nat /\ h.linen.dirty \in Nat
    BY <1>3, <1>6, <1>7, <1>9
  <1>16. h.linen \in [clean : Nat, dirty : Nat]
    BY <1>5, <1>6, <1>15
  <1>17. QED BY <1>2, <1>5, <1>12, <1>13, <1>14, <1>16 DEF Linened

LEMMA RestOfTheQuantum ==
  ASSUME NEW h, Linened(h), DOMAIN h = {"rooms", "linen", "made", "units"},
         NEW arriving \in SUBSET {r \in Beds : h.rooms[r] = "VacantClean"},
         NEW washed \in Nat, washed <= h.linen.dirty, NEW fails \in BOOLEAN
  PROVE  Linened(RunMaintenance(RunLaundry(CheckIn(h, arriving), washed), fails))
PROOF
  <1> DEFINE in == CheckIn(h, arriving)
             clean == RunLaundry(in, washed)
             mended == IF outage = 1 THEN EndOutage(clean) ELSE clean
             last == RunMaintenance(clean, fails)
             Fields == {"rooms", "linen", "made", "units"}
  <1>1. /\ DOMAIN in = Fields /\ in.linen = h.linen /\ in.made = h.made
        /\ in.rooms = [r \in Beds |-> IF r \in arriving THEN "Occupied" ELSE h.rooms[r]]
    BY DEF CheckIn
  <1>2. /\ DOMAIN clean = Fields /\ clean.rooms = in.rooms /\ clean.made = h.made
        /\ clean.linen = [clean |-> h.linen.clean + washed, dirty |-> h.linen.dirty - washed]
    BY <1>1 DEF RunLaundry
  <1> HIDE DEF in
  <1>3. Linened(clean)
    <2>1. h.linen \in [clean : Nat, dirty : Nat] /\ h.made \in SUBSET Beds
      BY DEF Linened
    <2>2. clean.linen.clean = h.linen.clean + washed /\ clean.linen.dirty = h.linen.dirty - washed
          /\ h.linen.clean \in Nat /\ h.linen.dirty \in Nat
      BY <1>2, <2>1
    <2>3. clean.linen \in [clean : Nat, dirty : Nat]
      BY <1>2, <2>2
    <2>4. LinenPieces * Cardinality(h.made) \in Nat
      BY <2>1, BedsCount
    <2> HIDE DEF clean
    <2>5. Pieces(clean) = Pieces(h)
      BY <1>2, <2>2, <2>4 DEF Pieces
    <2>6. \A r \in Beds : clean.rooms[r] \in {"Occupied", "VacantClean", "Inspected"} => r \in h.made
      BY <1>1, <1>2 DEF Linened
    <2>7. QED BY <1>1, <1>2, <2>3, <2>5, <2>6 DEF Linened
  <1> HIDE DEF clean
  <1>4. /\ mended.linen = clean.linen /\ mended.made = clean.made /\ DOMAIN mended.rooms = Beds
        /\ DOMAIN mended = Fields
        /\ \A r \in Beds : mended.rooms[r] \in {clean.rooms[r], "VacantDirty"}
    BY <1>2, <1>3 DEF EndOutage, Linened
  <1> HIDE DEF mended
  <1>5. /\ last.linen = clean.linen /\ last.made = clean.made /\ DOMAIN last.rooms = Beds
        /\ \A r \in Beds : last.rooms[r] \in {mended.rooms[r], "OutOfOrder"}
    <2>1. last = IF fails THEN StartOutage(mended) ELSE mended
      BY DEF RunMaintenance, mended
    <2>2. QED BY <1>4, <2>1 DEF StartOutage
  <1> HIDE DEF last
  <1>6. \A r \in Beds : last.rooms[r] \in {clean.rooms[r], "VacantDirty", "OutOfOrder"}
    BY <1>4, <1>5
  <1>7. Pieces(last) = Pieces(clean)
    BY <1>5 DEF Pieces
  <1>8. Linened(last)
    BY <1>3, <1>5, <1>6, <1>7 DEF Linened
  <1>9. QED BY <1>8 DEF last, clean, in

LEMMA QuantumKeeps ==
  ASSUME SupplyInv, NEW paid, NEW minutes,
         NEW leaving \in SUBSET IF At(CheckOutTime) THEN In("Occupied") ELSE {},
         NEW portions, NEW pieces \in IF At(LaundryTime) THEN {0, linen.dirty} ELSE {0},
         NEW fails \in BOOLEAN, NEW length,
         AdvanceQuantum(Sifted(standing, paid), minutes, leaving, portions, pieces,
                        fails, length)
  PROVE  SupplyInv'
PROOF
  <1> DEFINE placed == Decided(Sifted(standing, paid))
             left == CheckOut(IF At(CheckOutTime) THEN leaving ELSE {})
             washed == IF At(LaundryTime) THEN pieces ELSE 0
  <1>1. PICK h \in TurnRooms(left, stock["cleaning-unit"], minutes) :
        \E arriving \in SUBSET {r \in Beds : h.rooms[r] = "VacantClean"} :
          LET way == OnTheWay(placed)
              kept == RunMaintenance(RunLaundry(CheckIn(h, arriving), washed), fails)
          IN  /\ washed <= h.linen.dirty
              /\ coming' = way
              /\ \E payable : standing' = Reordered(way, stock', payable)
              /\ rooms' = kept.rooms /\ linen' = kept.linen /\ made' = kept.made
    BY DEF AdvanceQuantum
  <1>2. PICK arriving \in SUBSET {r \in Beds : h.rooms[r] = "VacantClean"} :
          LET way == OnTheWay(placed)
              kept == RunMaintenance(RunLaundry(CheckIn(h, arriving), washed), fails)
          IN  /\ washed <= h.linen.dirty
              /\ coming' = way
              /\ \E payable : standing' = Reordered(way, stock', payable)
              /\ rooms' = kept.rooms /\ linen' = kept.linen /\ made' = kept.made
    BY <1>1
  <1> DEFINE kept == RunMaintenance(RunLaundry(CheckIn(h, arriving), washed), fails)
  <1>3. Linened(left)
    <2>1. (IF At(CheckOutTime) THEN leaving ELSE {}) \in SUBSET In("Occupied")
      OBVIOUS
    <2>2. QED BY <2>1, LeavingStripsBeds DEF SupplyInv
  <1> HIDE DEF left
  <1>4. Linened(h) /\ DOMAIN h = {"rooms", "linen", "made", "units"}
    BY <1>3, TurningMakesBeds
  <1>5. washed \in Nat
    BY DEF SupplyInv, LinenKept
  <1> HIDE DEF washed
  <1>6. Linened(kept)
    BY <1>2, <1>4, <1>5, RestOfTheQuantum
  <1>7. linen' = kept.linen /\ made' = kept.made /\ rooms' = kept.rooms
    BY <1>2
  <1> HIDE DEF kept
  <1>8. LinenKept'
    <2>1. PiecesInHouse' = Pieces(kept)
      BY <1>7 DEF PiecesInHouse, Pieces
    <2>2. PiecesInHouse' <= AllLinen
      BY <1>6, <2>1 DEF Linened
    <2>3. \A r \in Beds : rooms'[r] \in {"Occupied", "VacantClean", "Inspected"} => r \in made'
      BY <1>6, <1>7 DEF Linened
    <2>4. QED BY <1>6, <1>7, <2>2, <2>3 DEF Linened, LinenKept, LinenIsNotMultiplied, AllLinen, In
  <1>9. placed \in Seq(Orders) /\ OneOrder(placed, <<>>)
    BY DecidedIs DEF SupplyInv
  <1>10. PICK payable : /\ coming' = OnTheWay(placed)
                        /\ standing' = Reordered(OnTheWay(placed), stock', payable)
    BY <1>2
  <1> HIDE DEF placed
  <1>11. coming' \in Seq(Orders) /\ standing' \in Seq(Skus) /\ OneOrder(coming', standing')
    BY <1>9, <1>10, ReceivedIs
  <1>12. moment' \in Nat
    BY DEF AdvanceQuantum, SupplyInv, OrdersKept
  <1>13. QED BY <1>8, <1>11, <1>12 DEF SupplyInv, OrdersKept

LEMMA SupplyStays == SupplyInv /\ [SupplyNext]_supplyVars => SupplyInv'
PROOF
  <1> SUFFICES ASSUME SupplyInv, [SupplyNext]_supplyVars PROVE SupplyInv'
    OBVIOUS
  <1>1. CASE UNCHANGED supplyVars
    BY <1>1 DEF supplyVars, SupplyInv, OrdersKept, LinenKept, LinenIsNotMultiplied,
                PiecesInHouse, In
  <1>2. ASSUME NEW sku \in Skus, NEW paid, OrderSupplies(sku, Sifted(standing, paid))
        PROVE  SupplyInv'
    BY <1>2, OrderKeeps
  <1>3. ASSUME NEW paid, NEW minutes,
               NEW leaving \in SUBSET IF At(CheckOutTime) THEN In("Occupied") ELSE {},
               NEW portions, NEW pieces \in IF At(LaundryTime) THEN {0, linen.dirty} ELSE {0},
               NEW fails \in BOOLEAN, NEW length,
               AdvanceQuantum(Sifted(standing, paid), minutes, leaving, portions,
                              pieces, fails, length)
        PROVE  SupplyInv'
    BY <1>3, QuantumKeeps
  <1>4. CASE SupplyNext
    BY <1>2, <1>3, <1>4 DEF SupplyNext
  <1>5. QED BY <1>1, <1>4

LEMMA OneOrderCounted == OrdersKept => OneStandingOrderAtATime
PROOF
  <1> SUFFICES ASSUME OrdersKept, NEW sku \in Skus
               PROVE  Cardinality({i \in DOMAIN coming : coming[i].sku = sku /\ coming[i].by = "house"})
                        + Cardinality({i \in DOMAIN standing : standing[i] = sku}) <= 1
    BY DEF OneStandingOrderAtATime
  <1> DEFINE A == {i \in DOMAIN coming : coming[i].sku = sku /\ coming[i].by = "house"}
             B == {i \in DOMAIN standing : standing[i] = sku}
  <1>1. A = {} \/ \E i : A = {i}
    BY DEF OrdersKept, OneOrder
  <1>2. B = {} \/ \E i : B = {i}
    BY DEF OrdersKept, OneOrder, NoneTwice
  <1>3. A = {} \/ B = {}
    BY DEF OrdersKept, OneOrder
  <1> HIDE DEF A, B
  <1>4. Cardinality({}) = 0
    BY FS_EmptySet
  <1>5. \A i : Cardinality({i}) = 1
    BY FS_Singleton
  <1>6. Cardinality(A) \in {0, 1}
    BY <1>1, <1>4, <1>5, Zenon
  <1>7. Cardinality(B) \in {0, 1}
    BY <1>2, <1>4, <1>5, Zenon
  <1>8. Cardinality(A) = 0 \/ Cardinality(B) = 0
    BY <1>3, <1>4
  <1>9. Cardinality(A) + Cardinality(B) <= 1
    BY <1>6, <1>7, <1>8
  <1>10. QED BY <1>9 DEF A, B

\* Linen is never in two places, a bed that is slept in is made up, and of each ware the
\* house has one order of its own out, whatever is left, turned, washed, closed and
\* ordered (GameSimulation.runHousekeeping, receiveOrders).
THEOREM SupplyIsCountedOnce == SupplySpec => []SupplyHolds
  <1>1. SupplyInv => SupplyHolds
    BY OneOrderCounted DEF SupplyInv, LinenKept, SupplyHolds
  <1>2. QED BY <1>1, SupplyStarts, SupplyStays, PTL DEF SupplySpec

-----------------------------------------------------------------------------
(* Contracts, projects and the power that stands by.                       *)

TariffFields == {"supplier", "price", "base", "lock", "until", "efficiency"}

\* A contract on the books: what is installed under it is a number of steps.
Tariff(c) == DOMAIN c = TariffFields /\ c.efficiency \in Nat

ProjectFields == {"kind", "started", "saving", "months"}

\* A project being built has months to go and is of a saving on offer.
Building(p) ==
  /\ DOMAIN p = ProjectFields
  /\ p.kind \in Kinds /\ p.saving \in 1 .. MaxEfficiency /\ p.months \in Nat \ {0}

OfKind(ps, k) == {p \in ps : p.kind = k}

\* One project of a kind at a time.
OneOfAKind(ps) == \A p, q \in ps : p.kind = q.kind => p = q

\* The books under which the three promises follow from one month to the next.
UtilitiesInv ==
  /\ DOMAIN tariffs = Kinds /\ \A k \in Kinds : Tariff(tariffs[k])
  /\ \A p \in projects : Building(p)
  /\ OneOfAKind(projects)
  /\ DOMAIN bought = Kinds /\ \A k \in Kinds : bought[k] \in Nat
  /\ standby \in BOOLEAN
  /\ UtilitiesAgree

LEMMA SavingOfNone == SumSavings({}) = 0
<1> DEFINE w == [p \in {} |-> p.saving]
<1>1. SumFunction(w) = SumFunctionOnSet(w, {})
  BY DEF SumFunction
<1>2. QED BY <1>1, SumOfNothing DEF SumSavings

LEMMA SavingOfOne ==
  ASSUME NEW p, p.saving \in Int
  PROVE  SumSavings({p}) = p.saving
<1> DEFINE w == [q \in {p} |-> q.saving]
<1>1. SumFunction(w) = SumFunctionOnSet(w, {p})
  BY DEF SumFunction
<1>2. w[p] = p.saving
  OBVIOUS
<1>3. \A y \in {p} : w[y] \in Int
  BY <1>2
<1>4. IsFiniteSet({p}) /\ {p} \ {p} = {}
  BY FS_Singleton
<1> HIDE DEF w
<1>5. SumFunctionOnSet(w, {p}) = w[p] + SumFunctionOnSet(w, {p} \ {p})
  BY <1>3, <1>4, SumTakesOut
<1>6. SumFunctionOnSet(w, {p}) = w[p]
  BY <1>2, <1>4, <1>5, SumOfNothing
<1>7. QED BY <1>1, <1>2, <1>6 DEF SumSavings, w

\* Of a kind there is one project or none.
LEMMA OneOrNone ==
  ASSUME NEW ps, OneOfAKind(ps), NEW k
  PROVE  \/ OfKind(ps, k) = {}
         \/ \E p \in ps : p.kind = k /\ OfKind(ps, k) = {p}
BY DEF OneOfAKind, OfKind

\* A project a month on.
Aged(p) == [p EXCEPT !.months = @ - 1]

LEMMA AgedIs ==
  ASSUME NEW p, Building(p)
  PROVE  /\ DOMAIN Aged(p) = ProjectFields
         /\ Aged(p).kind = p.kind /\ Aged(p).saving = p.saving
         /\ Aged(p).months = p.months - 1 /\ Aged(p).months \in Nat
BY DEF Building, ProjectFields, Aged

\* A month splits what is being built of a kind into what is done and what is not.
LEMMA AMonthOn ==
  ASSUME UtilitiesInv,
         NEW done, done = {p \in Advanced : p.months = 0}
  PROVE  /\ OneOfAKind(Advanced \ done) /\ \A p \in Advanced \ done : Building(p)
         /\ \A k \in Kinds :
              /\ SumSavings(OfKind(done, k)) \in Nat
              /\ SumSavings(OfKind(Advanced \ done, k)) \in Nat
              /\ SumSavings(OfKind(done, k)) + SumSavings(OfKind(Advanced \ done, k)) =
                   SumSavings(OfKind(projects, k))
              /\ (\E p \in done : p.kind = k) <=> SumSavings(OfKind(done, k)) > 0
<1>1. /\ \A p \in projects : Building(p)
      /\ OneOfAKind(projects)
  BY DEF UtilitiesInv
<1>2. \A a : a \in Advanced <=> \E p \in projects : a = Aged(p)
  BY DEF Advanced, Aged
<1>3. \A p \in projects : /\ DOMAIN Aged(p) = ProjectFields
                          /\ Aged(p).kind = p.kind /\ Aged(p).saving = p.saving
                          /\ Aged(p).months \in Nat
  BY <1>1, AgedIs
<1>4. OneOfAKind(Advanced \ done) /\ OneOfAKind(done)
  <2>1. \A a, b \in Advanced : a.kind = b.kind => a = b
    BY <1>1, <1>2, <1>3 DEF OneOfAKind
  <2>2. QED BY <2>1 DEF OneOfAKind
<1>5. \A p \in Advanced \ done : Building(p)
  <2>1. SUFFICES ASSUME NEW a \in Advanced \ done PROVE Building(a)
    OBVIOUS
  <2>2. PICK p \in projects : a = Aged(p)
    BY <1>2
  <2>3. a.months # 0
    BY <2>1
  <2>4. Building(p)
    BY <1>1
  <2>5. QED BY <1>3, <2>2, <2>3, <2>4 DEF Building
<1>6. ASSUME NEW k \in Kinds
      PROVE  /\ SumSavings(OfKind(done, k)) \in Nat
             /\ SumSavings(OfKind(Advanced \ done, k)) \in Nat
             /\ SumSavings(OfKind(done, k)) + SumSavings(OfKind(Advanced \ done, k)) =
                  SumSavings(OfKind(projects, k))
             /\ (\E p \in done : p.kind = k) <=> SumSavings(OfKind(done, k)) > 0
  <2>1. CASE OfKind(projects, k) = {}
    <3>1. OfKind(done, k) = {} /\ OfKind(Advanced \ done, k) = {}
      BY <1>2, <1>3, <2>1 DEF OfKind
    <3>2. ~ \E p \in done : p.kind = k
      BY <3>1 DEF OfKind
    <3>3. /\ SumSavings(OfKind(done, k)) = 0
          /\ SumSavings(OfKind(Advanced \ done, k)) = 0
          /\ SumSavings(OfKind(projects, k)) = 0
      BY <2>1, <3>1, SavingOfNone
    <3>4. QED BY <3>2, <3>3
  <2>2. CASE \E p \in projects : p.kind = k /\ OfKind(projects, k) = {p}
    <3>1. PICK p \in projects : p.kind = k /\ OfKind(projects, k) = {p}
      BY <2>2
    <3> DEFINE a == Aged(p)
    <3>2. a \in Advanced /\ a.kind = k /\ a.saving = p.saving
      BY <1>2, <1>3, <3>1
    <3>3. \A b \in Advanced : b.kind = k => b = a
      <4>1. SUFFICES ASSUME NEW b \in Advanced, b.kind = k PROVE b = a
        OBVIOUS
      <4>2. PICK q \in projects : b = Aged(q)
        BY <1>2
      <4>3. q.kind = k
        BY <1>3, <4>1, <4>2
      <4>4. q = p
        BY <3>1, <4>3 DEF OfKind
      <4>5. QED BY <4>2, <4>4
    <3>4. p.saving \in Int /\ p.saving \in Nat /\ p.saving > 0
      BY <1>1, UtilitiesAssumption DEF Building
    <3>5. SumSavings({p}) = p.saving
      BY <3>4, SavingOfOne
    <3> HIDE DEF a
    <3>6. SumSavings({a}) = p.saving
      BY <3>2, <3>4, SavingOfOne
    <3>7. CASE a \in done
      <4>1. OfKind(done, k) = {a} /\ OfKind(Advanced \ done, k) = {}
        BY <3>2, <3>3, <3>7 DEF OfKind
      <4>2. \E b \in done : b.kind = k
        BY <3>2, <3>7
      <4>3. /\ SumSavings(OfKind(done, k)) = p.saving
            /\ SumSavings(OfKind(Advanced \ done, k)) = 0
            /\ SumSavings(OfKind(projects, k)) = p.saving
        BY <3>1, <3>5, <3>6, <4>1, SavingOfNone
      <4>4. QED BY <3>4, <4>2, <4>3
    <3>8. CASE a \notin done
      <4>1. OfKind(done, k) = {} /\ OfKind(Advanced \ done, k) = {a}
        BY <3>2, <3>3, <3>8 DEF OfKind
      <4>2. ~ \E b \in done : b.kind = k
        BY <4>1 DEF OfKind
      <4>3. /\ SumSavings(OfKind(done, k)) = 0
            /\ SumSavings(OfKind(Advanced \ done, k)) = p.saving
            /\ SumSavings(OfKind(projects, k)) = p.saving
        BY <3>1, <3>5, <3>6, <4>1, SavingOfNone
      <4>4. QED BY <3>4, <4>2, <4>3
    <3>9. QED BY <3>7, <3>8
  <2>3. QED BY <1>1, <2>1, <2>2, OneOrNone
<1>7. QED BY <1>4, <1>5, <1>6

LEMMA UtilitiesBegin == UtilitiesInit => UtilitiesInv
<1> SUFFICES ASSUME UtilitiesInit PROVE UtilitiesInv
  OBVIOUS
<1>1. /\ tariffs = [k \in Kinds |-> Municipal]
      /\ projects = {} /\ standby = FALSE
      /\ bought = [k \in Kinds |-> 0] /\ indexNow = 1
  BY DEF UtilitiesInit
<1>2. /\ DOMAIN Municipal = TariffFields /\ Municipal.efficiency = 0
      /\ Municipal.price = Municipal.base
  BY DEF Municipal, TariffFields
<1>3. \A k \in Kinds : tariffs[k] = Municipal /\ bought[k] = 0
  BY <1>1
<1>4. \A k \in Kinds : OfKind(projects, k) = {}
  BY <1>1 DEF OfKind
<1>5. EfficiencyIsPaidFor
  <2>1. \A k \in Kinds : SumSavings(OfKind(projects, k)) = 0
    BY <1>4, SavingOfNone
  <2>2. MaxEfficiency \in Nat
    BY UtilitiesAssumption
  <2> HIDE DEF OfKind
  <2>3. \A k \in Kinds : /\ tariffs[k].efficiency + SumSavings(OfKind(projects, k)) = bought[k]
                         /\ bought[k] <= MaxEfficiency
    BY <1>2, <1>3, <2>1, <2>2
  <2>4. QED BY <2>3 DEF EfficiencyIsPaidFor, OfKind
<1>6. PricesFollowTheIndex
  <2>1. \A k \in Kinds : tariffs[k].price = tariffs[k].base
    BY <1>2, <1>3
  <2>2. QED BY <2>1 DEF PricesFollowTheIndex
<1>7. standby <=> tariffs["energy"].efficiency > 0
  BY <1>1, <1>2, <1>3, UtilitiesAssumption
<1>8. DOMAIN tariffs = Kinds /\ DOMAIN bought = Kinds
  BY <1>1
<1>9. \A k \in Kinds : Tariff(tariffs[k]) /\ bought[k] \in Nat
  BY <1>2, <1>3 DEF Tariff
<1>10. QED BY <1>1, <1>5, <1>6, <1>7, <1>8, <1>9 DEF UtilitiesInv, UtilitiesAgree, OneOfAKind

LEMMA SigningKeeps ==
  ASSUME UtilitiesInv, NEW k \in Kinds, NEW cost, NEW lock, NEW days,
         SignUtilityContract(k, cost, lock, days)
  PROVE  UtilitiesInv'
<1> DEFINE c == Signed(k, cost, lock, utilityDay + days)
<1>1. /\ DOMAIN c = TariffFields /\ c.efficiency = tariffs[k].efficiency
      /\ c.price = c.base
  BY DEF Signed, TariffFields
<1> HIDE DEF c
<1>2. /\ tariffs' = [tariffs EXCEPT ![k] = c]
      /\ projects' = projects /\ standby' = standby /\ bought' = bought /\ indexNow' = indexNow
  BY DEF SignUtilityContract, c
<1>3. DOMAIN tariffs = Kinds /\ \A j \in Kinds : Tariff(tariffs[j])
  BY DEF UtilitiesInv
<1>4. /\ DOMAIN tariffs' = Kinds /\ tariffs'[k] = c
      /\ \A j \in Kinds : j # k => tariffs'[j] = tariffs[j]
  BY <1>2, <1>3
<1>5. \A j \in Kinds : tariffs'[j].efficiency = tariffs[j].efficiency /\ Tariff(tariffs'[j])
  BY <1>1, <1>3, <1>4 DEF Tariff
<1>6. EfficiencyIsPaidFor'
  BY <1>2, <1>5 DEF UtilitiesInv, UtilitiesAgree, EfficiencyIsPaidFor
<1>7. PricesFollowTheIndex'
  <2>1. SUFFICES ASSUME NEW j \in Kinds
                 PROVE  tariffs'[j].price \in {tariffs'[j].base} \cup
                          (IF tariffs'[j].lock = "floating"
                             THEN {tariffs'[j].base * indexNow'} ELSE {})
    BY DEF PricesFollowTheIndex
  <2>2. CASE j = k
    BY <1>1, <1>4, <2>2
  <2>3. CASE j # k
    BY <1>2, <1>4, <2>3 DEF UtilitiesInv, UtilitiesAgree, PricesFollowTheIndex
  <2>4. QED BY <2>2, <2>3
<1>8. standby' <=> tariffs'["energy"].efficiency > 0
  BY <1>2, <1>5, UtilitiesAssumption DEF UtilitiesInv, UtilitiesAgree
<1>9. QED BY <1>2, <1>4, <1>5, <1>6, <1>7, <1>8 DEF UtilitiesInv, UtilitiesAgree

LEMMA InvestingKeeps ==
  ASSUME UtilitiesInv, NEW k \in Kinds, NEW saving \in Savings, InvestInEfficiency(k, saving)
  PROVE  UtilitiesInv'
<1> DEFINE p == [kind |-> k, started |-> utilityDay, saving |-> saving, months |-> ProjectLength]
<1>1. Building(p) /\ p.kind = k /\ p.saving = saving
  BY UtilitiesAssumption DEF Building, ProjectFields
<1> HIDE DEF p
<1>2. /\ tariffs[k].efficiency + saving <= MaxEfficiency
      /\ ~ \E q \in projects : q.kind = k
      /\ projects' = projects \cup {p} /\ bought' = [bought EXCEPT ![k] = @ + saving]
      /\ tariffs' = tariffs /\ standby' = standby /\ indexNow' = indexNow
  BY DEF InvestInEfficiency, MayInvest, p
<1>3. saving \in Nat /\ p.saving \in Int
  BY <1>1, UtilitiesAssumption
<1>4. /\ \A q \in projects : Building(q)
      /\ OneOfAKind(projects) /\ DOMAIN bought = Kinds
      /\ \A j \in Kinds : bought[j] \in Nat /\ Tariff(tariffs[j])
      /\ EfficiencyIsPaidFor
  BY DEF UtilitiesInv, UtilitiesAgree
<1>5. (\A q \in projects' : Building(q)) /\ OneOfAKind(projects')
  BY <1>1, <1>2, <1>4 DEF OneOfAKind
<1>6. /\ OfKind(projects', k) = {p} /\ OfKind(projects, k) = {}
      /\ \A j \in Kinds : j # k => OfKind(projects', j) = OfKind(projects, j)
  BY <1>1, <1>2 DEF OfKind
<1>7. SumSavings(OfKind(projects', k)) = saving /\ SumSavings(OfKind(projects, k)) = 0
  BY <1>1, <1>3, <1>6, SavingOfOne, SavingOfNone
<1>8. \A j \in Kinds : bought'[j] = IF j = k THEN bought[k] + saving ELSE bought[j]
  BY <1>2, <1>4
<1>9. \A j \in Kinds : /\ tariffs[j].efficiency + SumSavings(OfKind(projects, j)) = bought[j]
                       /\ bought[j] <= MaxEfficiency /\ tariffs[j].efficiency \in Nat
  BY <1>4 DEF EfficiencyIsPaidFor, OfKind, Tariff
<1>10. EfficiencyIsPaidFor'
  <2>1. ASSUME NEW j \in Kinds
        PROVE  /\ tariffs'[j].efficiency + SumSavings(OfKind(projects', j)) = bought'[j]
               /\ bought'[j] <= MaxEfficiency
    <3>1. CASE j = k
      BY <1>2, <1>3, <1>7, <1>8, <1>9, <3>1
    <3>2. CASE j # k
      BY <1>2, <1>6, <1>8, <1>9, <3>2
    <3>3. QED BY <3>1, <3>2
  <2>2. QED BY <2>1 DEF EfficiencyIsPaidFor, OfKind
<1>11. PricesFollowTheIndex' /\ (standby' <=> tariffs'["energy"].efficiency > 0)
  BY <1>2 DEF UtilitiesInv, UtilitiesAgree, PricesFollowTheIndex
<1>12. DOMAIN bought' = Kinds /\ \A j \in Kinds : bought'[j] \in Nat
  BY <1>2, <1>3, <1>4, <1>8
<1>13. QED BY <1>2, <1>5, <1>10, <1>11, <1>12 DEF UtilitiesInv, UtilitiesAgree

\* The month's close: new prices, and what is done is installed.
LEMMA ClosingKeeps ==
  ASSUME UtilitiesInv, NEW cash, NEW index, CloseUtilities(cash, index), bought' = bought
  PROVE  UtilitiesInv'
<1> DEFINE done == {p \in Advanced : p.months = 0}
           c(k) == PricedAt(tariffs[k], index)
           sum(k) == c(k).efficiency + SumSavings(OfKind(done, k))
<1>1. /\ tariffs' = [k \in Kinds |-> Installed(c(k), OfKind(done, k))]
      /\ projects' = Advanced \ done
      /\ standby' = (standby \/ \E p \in done : p.kind = "energy")
      /\ indexNow' = index
  BY DEF CloseUtilities, OfKind
<1> HIDE DEF done
<1>2. /\ OneOfAKind(Advanced \ done) /\ \A p \in Advanced \ done : Building(p)
      /\ \A k \in Kinds :
           /\ SumSavings(OfKind(done, k)) \in Nat
           /\ SumSavings(OfKind(Advanced \ done, k)) \in Nat
           /\ SumSavings(OfKind(done, k)) + SumSavings(OfKind(Advanced \ done, k)) =
                SumSavings(OfKind(projects, k))
           /\ (\E p \in done : p.kind = k) <=> SumSavings(OfKind(done, k)) > 0
  BY AMonthOn DEF done
<1>3. /\ \A k \in Kinds : Tariff(tariffs[k]) /\ bought[k] \in Nat
      /\ EfficiencyIsPaidFor
      /\ DOMAIN bought = Kinds /\ standby \in BOOLEAN
      /\ standby <=> tariffs["energy"].efficiency > 0
      /\ PricesFollowTheIndex
  BY DEF UtilitiesInv, UtilitiesAgree
<1>4. \A k \in Kinds : /\ tariffs[k].efficiency + SumSavings(OfKind(projects, k)) = bought[k]
                       /\ bought[k] <= MaxEfficiency /\ tariffs[k].efficiency \in Nat
  BY <1>3 DEF EfficiencyIsPaidFor, OfKind, Tariff
<1>5. ASSUME NEW k \in Kinds
      PROVE  /\ DOMAIN c(k) = TariffFields /\ c(k).efficiency = tariffs[k].efficiency
             /\ c(k).base = tariffs[k].base /\ c(k).lock = tariffs[k].lock
             /\ c(k).price = IF tariffs[k].lock = "floating" THEN tariffs[k].base * index
                             ELSE tariffs[k].price
  <2>1. DOMAIN tariffs[k] = TariffFields
    BY <1>3 DEF Tariff
  <2>2. QED BY <2>1 DEF PricedAt, TariffFields
<1> HIDE DEF c
<1>6. MaxEfficiency \in Nat
  BY UtilitiesAssumption
<1>7. ASSUME NEW k \in Kinds
      PROVE  sum(k) \in Nat /\ sum(k) <= MaxEfficiency
             /\ sum(k) = tariffs[k].efficiency + SumSavings(OfKind(done, k))
             /\ sum(k) + SumSavings(OfKind(Advanced \ done, k)) = bought[k]
  <2>1. /\ SumSavings(OfKind(done, k)) \in Nat
        /\ SumSavings(OfKind(Advanced \ done, k)) \in Nat
        /\ SumSavings(OfKind(done, k)) + SumSavings(OfKind(Advanced \ done, k)) =
             SumSavings(OfKind(projects, k))
    BY <1>2
  <2>2. /\ tariffs[k].efficiency + SumSavings(OfKind(projects, k)) = bought[k]
        /\ bought[k] <= MaxEfficiency /\ tariffs[k].efficiency \in Nat /\ bought[k] \in Nat
    BY <1>3, <1>4
  <2>3. c(k).efficiency = tariffs[k].efficiency
    BY <1>5
  <2>4. QED BY <1>6, <2>1, <2>2, <2>3
<1>8. ASSUME NEW k \in Kinds
      PROVE  /\ DOMAIN tariffs'[k] = TariffFields /\ tariffs'[k].efficiency = sum(k)
             /\ tariffs'[k].base = tariffs[k].base /\ tariffs'[k].lock = tariffs[k].lock
             /\ tariffs'[k].price = IF tariffs[k].lock = "floating" THEN tariffs[k].base * index
                                    ELSE tariffs[k].price
  <2>1. tariffs'[k] = Installed(c(k), OfKind(done, k))
    BY <1>1
  <2>2. tariffs'[k] = [c(k) EXCEPT !.efficiency = IF sum(k) > MaxEfficiency THEN MaxEfficiency
                                                  ELSE sum(k)]
    BY <2>1 DEF Installed
  <2>3. tariffs'[k] = [c(k) EXCEPT !.efficiency = sum(k)]
    BY <1>6, <1>7, <2>2
  <2> HIDE DEF sum
  <2>4. QED BY <1>5, <2>3 DEF TariffFields
<1> HIDE DEF sum
<1>9. EfficiencyIsPaidFor'
  <2>1. ASSUME NEW k \in Kinds
        PROVE  /\ tariffs'[k].efficiency + SumSavings(OfKind(projects', k)) = bought'[k]
               /\ bought'[k] <= MaxEfficiency
    BY <1>1, <1>4, <1>7, <1>8
  <2>2. QED BY <2>1 DEF EfficiencyIsPaidFor, OfKind
<1>10. PricesFollowTheIndex'
  <2>1. SUFFICES ASSUME NEW k \in Kinds
                 PROVE  tariffs'[k].price \in {tariffs'[k].base} \cup
                          (IF tariffs'[k].lock = "floating"
                             THEN {tariffs'[k].base * indexNow'} ELSE {})
    BY DEF PricesFollowTheIndex
  <2>2. tariffs[k].lock # "floating" => tariffs[k].price = tariffs[k].base
    BY <1>3 DEF PricesFollowTheIndex
  <2>3. QED BY <1>1, <1>8, <2>2
<1>11. standby' <=> tariffs'["energy"].efficiency > 0
  <2> DEFINE e == "energy"
  <2>1. e \in Kinds
    BY UtilitiesAssumption
  <2>2. standby' <=> standby \/ SumSavings(OfKind(done, e)) > 0
    BY <1>1, <1>2, <2>1
  <2>3. standby <=> tariffs[e].efficiency > 0
    BY <1>3
  <2> HIDE DEF e
  <2>4. /\ tariffs'[e].efficiency = tariffs[e].efficiency + SumSavings(OfKind(done, e))
        /\ tariffs[e].efficiency \in Nat /\ SumSavings(OfKind(done, e)) \in Nat
    BY <1>2, <1>4, <1>7, <1>8, <2>1
  <2>5. standby' <=> tariffs'[e].efficiency > 0
    BY <2>2, <2>3, <2>4
  <2>6. QED BY <2>5 DEF e
<1>12. \A k \in Kinds : Tariff(tariffs'[k])
  BY <1>7, <1>8 DEF Tariff
<1>13. DOMAIN tariffs' = Kinds /\ standby' \in BOOLEAN
  BY <1>1, <1>3
<1>14. QED BY <1>1, <1>2, <1>3, <1>9, <1>10, <1>11, <1>12, <1>13 DEF UtilitiesInv, UtilitiesAgree

LEMMA UtilitiesStep == UtilitiesInv /\ [UtilitiesNext]_utilityVars => UtilitiesInv'
<1> SUFFICES ASSUME UtilitiesInv, [UtilitiesNext]_utilityVars PROVE UtilitiesInv'
  OBVIOUS
<1>1. ASSUME NEW k \in Kinds, NEW cost \in Offers, NEW lock \in {"fixed", "floating"},
             NEW days \in Lengths, SignUtilityContract(k, cost, lock, days)
      PROVE  UtilitiesInv'
  BY <1>1, SigningKeeps
<1>2. ASSUME NEW k \in Kinds, NEW saving \in Savings, InvestInEfficiency(k, saving)
      PROVE  UtilitiesInv'
  BY <1>2, InvestingKeeps
<1>3. ASSUME NEW k \in Kinds, NEW volume \in Draws, NEW index \in Indexes,
             UtilityDay(k, volume, index)
      PROVE  UtilitiesInv'
  <2>1. CASE (utilityDay + 1) % DaysOfUtilityMonth = 0
    <3>1. CloseUtilities(Paid(till, UsageCost(k, volume)), index) /\ bought' = bought
      BY <1>3, <2>1 DEF UtilityDay
    <3>2. QED BY <3>1, ClosingKeeps
  <2>2. CASE (utilityDay + 1) % DaysOfUtilityMonth # 0
    <3>1. UNCHANGED <<tariffs, projects, standby, indexNow, bought>>
      BY <1>3, <2>2 DEF UtilityDay
    <3>2. QED BY <3>1 DEF UtilitiesInv, UtilitiesAgree, EfficiencyIsPaidFor,
                          PricesFollowTheIndex, Tariff, Building, OneOfAKind
  <2>3. QED BY <2>1, <2>2
<1>4. CASE UNCHANGED utilityVars
  BY <1>4 DEF utilityVars, UtilitiesInv, UtilitiesAgree, EfficiencyIsPaidFor,
              PricesFollowTheIndex, Tariff, Building, OneOfAKind
<1>5. QED BY <1>1, <1>2, <1>3, <1>4 DEF UtilitiesNext

\* Contracts and efficiency (consumption.ts, utilityCommands.ts): what was paid for is
\* installed or being built, whoever supplies the house; a price is the signed one or the
\* last index's, and the generators run where an energy project has been finished.
THEOREM EfficiencyStaysInTheHouse == UtilitiesSpec => []UtilitiesAgree
<1>1. UtilitiesInv => UtilitiesAgree
  BY DEF UtilitiesInv
<1>2. QED BY <1>1, UtilitiesBegin, UtilitiesStep, PTL DEF UtilitiesSpec

-----------------------------------------------------------------------------
(* The larder, the outlets, the spa and the board.                         *)

LimitNames ==
  {"regulatory closure", "compliance restriction", "facility.cause.demand",
   "facility.cause.kitchenLine", "facility.cause.serviceStaff", "facility.cause.transport",
   "facility.cause.elevator", "facility.cause.stock", "facility.cause.miseEnPlace",
   "facility.cause.seating"}

Limited == [label : LimitNames, value : Nat]

\* The tightest limit is one of the list and at most each of it.
LEMMA BindingIsTightest ==
  ASSUME NEW ls \in Seq(Limited), ls # <<>>
  PROVE  /\ Binding(ls) \in Limited
         /\ \A i \in DOMAIN ls : Binding(ls).value <= ls[i].value
<1> DEFINE T == {ls[i].value : i \in DOMAIN ls}
           Tight(i) == \A j \in DOMAIN ls : ls[i].value <= ls[j].value
           I == {i \in DOMAIN ls : Tight(i)}
           Ties(i) == \A j \in 1 .. (i - 1) : ls[i].value < ls[j].value
<1>1. DOMAIN ls = 1 .. Len(ls) /\ Len(ls) \in Nat \ {0} /\ \A i \in DOMAIN ls : ls[i] \in Limited
  OBVIOUS
<1>2. \A i \in DOMAIN ls : ls[i].value \in Nat
  BY <1>1 DEF Limited
<1>3. I # {}
  <2>1. T \subseteq Nat /\ T # {}
    BY <1>1, <1>2
  <2> HIDE DEF T
  <2>2. PICK x \in T : \A y \in T : x <= y
    BY <2>1, LeastNumber
  <2>3. PICK i \in DOMAIN ls : ls[i].value = x
    BY <2>2 DEF T
  <2>4. Tight(i)
    BY <2>2, <2>3 DEF T
  <2>5. QED BY <2>4
<1>4. PICK i \in I : \A j \in I : i <= j
  <2>1. I \subseteq Nat
    BY <1>1
  <2> HIDE DEF I
  <2>2. QED BY <1>3, <2>1, LeastNumber
<1>5. i \in DOMAIN ls /\ Tight(i)
  BY <1>4
<1>6. Ties(i)
  <2>1. SUFFICES ASSUME NEW j \in 1 .. (i - 1) PROVE ls[i].value < ls[j].value
    OBVIOUS
  <2>2. j \in DOMAIN ls /\ j < i
    BY <1>1, <1>5
  <2>3. ~ Tight(j)
    BY <1>1, <1>4, <1>5, <2>2
  <2>4. PICK m \in DOMAIN ls : ~(ls[j].value <= ls[m].value)
    BY <2>3
  <2>5. ls[i].value <= ls[m].value
    BY <1>5
  <2>6. ls[i].value \in Nat /\ ls[j].value \in Nat /\ ls[m].value \in Nat
    BY <1>2, <1>5, <2>2
  <2>7. QED BY <2>4, <2>5, <2>6
<1> DEFINE c == CHOOSE n \in DOMAIN ls : Tight(n) /\ Ties(n)
<1>7. c \in DOMAIN ls /\ Tight(c)
  <2> HIDE DEF Tight, Ties
  <2>1. QED BY <1>5, <1>6
<1>8. Binding(ls) = ls[c]
  BY DEF Binding
<1> HIDE DEF c
<1>9. QED BY <1>1, <1>7, <1>8

LEMMA RestrictionIs ==
  ASSUME NEW l, NEW base \in Nat
  PROVE  Restriction(l, base) \in Seq(Limited)
<1> DEFINE a == IF l.closed THEN <<Limit("regulatory closure", 0)>> ELSE <<>>
           b == IF l.halved THEN <<Limit("compliance restriction", base \div 2)>> ELSE <<>>
<1>1. base \div 2 \in Nat
  OBVIOUS
<1>2. a \in Seq(Limited)
  <2> DEFINE x == Limit("regulatory closure", 0)
  <2>1. x \in Limited
    BY DEF Limit, Limited, LimitNames
  <2> HIDE DEF x
  <2>2. <<x>> \in Seq(Limited) /\ <<>> \in Seq(Limited)
    BY <2>1
  <2>3. QED BY <2>2 DEF x
<1>3. b \in Seq(Limited)
  <2> DEFINE x == Limit("compliance restriction", base \div 2)
  <2>1. x \in Limited
    BY <1>1 DEF Limit, Limited, LimitNames
  <2> HIDE DEF x
  <2>2. <<x>> \in Seq(Limited) /\ <<>> \in Seq(Limited)
    BY <2>1
  <2>3. QED BY <2>2 DEF x
<1> HIDE DEF a, b
<1>4. a \o b \in Seq(Limited)
  BY <1>2, <1>3
<1>5. QED BY <1>4 DEF Restriction, a, b

\* Products and quotients of what is not negative are not negative.
LEMMA NotNegative ==
  /\ \A a, b \in Nat : a * b \in Nat
  /\ \A a \in Nat, d \in Nat \ {0} : a \div d \in Nat
<1>1. \A a, b \in Nat : a * b \in Nat
  OBVIOUS
<1>2. \A a \in Nat, d \in Nat \ {0} : a \div d \in Nat
  OBVIOUS
<1>3. QED BY <1>1, <1>2

LEMMA ShareIs ==
  ASSUME NEW n \in Nat, NEW part \in Nat
  PROVE  Share(n, part) \in Nat
<1>1. n * part \in Nat
  BY NotNegative
<1> DEFINE m == n * part
<1> HIDE DEF m
<1>2. m \in Nat /\ Full \in Nat \ {0}
  BY <1>1, FacilitiesAssumption DEF m
<1>3. m \div Full \in Nat
  BY <1>2, NotNegative
<1>4. QED BY <1>3 DEF Share, m

LEMMA PreparedIs ==
  ASSUME NEW wanted \in Nat
  PROVE  Prepared(wanted) \in Nat
<1> DEFINE m == wanted * Buffer
           d == (m + Full - 1) \div Full
<1>1. m \in Nat /\ Full \in Nat \ {0} /\ KitchenLine \in Nat
  BY NotNegative, FacilitiesAssumption
<1>2. d \in Nat
  <2> HIDE DEF m
  <2>1. m + Full - 1 \in Nat
    BY <1>1
  <2>2. QED BY <1>1, <2>1, NotNegative
<1>3. Prepared(wanted) = Least(KitchenLine, wanted + d)
  BY DEF Prepared
<1> HIDE DEF m, d
<1>4. QED BY <1>1, <1>2, <1>3 DEF Least

LEMMA RoundedIs ==
  ASSUME NEW n \in Nat, NEW d \in Nat \ {0}
  PROVE  Rounded(n, d) \in Nat
<1>1. 2 * n + d \in Nat /\ 2 * d \in Nat \ {0}
  OBVIOUS
<1>2. QED BY <1>1, NotNegative DEF Rounded

\* What a service takes is not more than was made, nor that more than there is.
LEMMA KitchenTakes ==
  ASSUME NEW covers \in Nat, NEW wanted \in Nat, larder \in Nat
  PROVE  LET k == Kitchen(covers, wanted)
         IN  /\ k.served \in Nat /\ k.wasted \in Nat
             /\ k.served <= covers /\ k.served + k.wasted <= larder
<1> DEFINE plated == Least(Prepared(wanted), larder)
           served == Least(covers, plated)
           r == Rounded(plated * WasteShare, Full)
<1>1. plated \in Nat /\ plated <= larder
  BY PreparedIs DEF Least
<1> HIDE DEF plated
<1>2. served \in Nat /\ served <= plated /\ served <= covers
  BY <1>1 DEF Least
<1>3. r \in Nat
  <2>1. plated * WasteShare \in Nat /\ Full \in Nat \ {0}
    BY <1>1, NotNegative, FacilitiesAssumption
  <2>2. QED BY <2>1, RoundedIs
<1>4. Kitchen(covers, wanted) = [served |-> served, wasted |-> Least(plated - served, r)]
  BY DEF Kitchen, plated
<1> HIDE DEF served, r
<1>5. /\ Kitchen(covers, wanted).served = served
      /\ Kitchen(covers, wanted).wasted = Least(plated - served, r)
  BY <1>4
<1>6. Least(plated - served, r) \in Nat /\ Least(plated - served, r) <= plated - served
  BY <1>1, <1>2, <1>3 DEF Least
<1>7. QED BY <1>1, <1>2, <1>5, <1>6

\* The limits of a service are limits, and the first of them is the demand.
LEMMA LimitsAre ==
  ASSUME NEW o \in Outlets, NEW wanted \in Nat, NEW hands \in Nat,
         larder \in Nat, duty.lifts \in Nat
  PROVE  LET ls == Limits(o, wanted, hands)
         IN  ls \in Seq(Limited) /\ ls # <<>> /\ ls[1].value = wanted
<1> DEFINE a == Limit("facility.cause.demand", wanted)
           b == Limit("facility.cause.kitchenLine", KitchenLine)
           c == Limit("facility.cause.serviceStaff", hands * PerHand)
           d == Limit("facility.cause.transport", hands * PerHand)
           e == Limit("facility.cause.elevator", duty.lifts * KitchenLine)
           f == Limit("facility.cause.stock", larder)
           g == Limit("facility.cause.miseEnPlace", Prepared(wanted))
           h == Limit("facility.cause.seating", Seating[o])
           l == law[Premises[o]]
<1>1. /\ KitchenLine \in Nat /\ Seating[o] \in Nat /\ Prepared(wanted) \in Nat
      /\ hands * PerHand \in Nat /\ duty.lifts * KitchenLine \in Nat
  BY NotNegative, PreparedIs, FacilitiesAssumption
<1>2. {a, b, c, d, e, f, g, h} \subseteq Limited /\ a.value = wanted
  BY <1>1 DEF Limit, Limited, LimitNames
<1>3. Restriction(l, KitchenLine) \in Seq(Limited) /\ Restriction(l, Seating[o]) \in Seq(Limited)
  BY <1>1, RestrictionIs
<1>4. Limits(o, wanted, hands) =
        <<a>> \o (IF o = "roomService"
                    THEN <<b, c, d, e>> \o <<f, g>> \o Restriction(l, KitchenLine)
                    ELSE <<h, c, b>> \o <<f, g>> \o Restriction(l, Seating[o]))
  BY DEF Limits
<1> HIDE DEF a, b, c, d, e, f, g, h, l
<1>5. /\ <<b, c, d, e>> \in Seq(Limited) /\ <<f, g>> \in Seq(Limited)
      /\ <<h, c, b>> \in Seq(Limited) /\ <<a>> \in Seq(Limited)
  BY <1>2
<1>6. \A s, t \in Seq(Limited) : s \o t \in Seq(Limited)
  OBVIOUS
<1>7. \A s \in Seq(Limited) :
        LET u == <<a>> \o s IN u \in Seq(Limited) /\ u # <<>> /\ u[1] = a
  BY <1>5
<1>8. \E s \in Seq(Limited) : Limits(o, wanted, hands) = <<a>> \o s
  <2>1. CASE o = "roomService"
    BY <1>3, <1>4, <1>5, <1>6, <2>1
  <2>2. CASE o # "roomService"
    BY <1>3, <1>4, <1>5, <1>6, <2>2
  <2>3. QED BY <2>1, <2>2
<1>9. QED BY <1>2, <1>7, <1>8

ServiceFields == {"demand", "capacity", "served", "wasted", "cause", "waiting", "late"}

\* What an outlet records of a service.
LEMMA ServiceIs ==
  ASSUME NEW o \in Outlets, NEW wanted \in Nat, NEW d, duty.hands[d] \in Nat,
         larder \in Nat, duty.lifts \in Nat
  PROVE  LET r == Service(o, wanted, d)
         IN  /\ DOMAIN r = ServiceFields
             /\ r.served \in Nat /\ r.wasted \in Nat
             /\ r.served + r.wasted <= larder
             /\ r.served <= r.demand /\ r.served <= r.capacity
<1> DEFINE ls == Limits(o, wanted, duty.hands[d])
           row == Binding(ls)
           covers == CoversOrdered(o, wanted, row.value)
           k == Kitchen(covers, wanted)
<1>1. ls \in Seq(Limited) /\ ls # <<>> /\ ls[1].value = wanted
  BY LimitsAre
<1> HIDE DEF ls
<1>2. row \in Limited /\ row.value <= ls[1].value
  <2>1. 1 \in DOMAIN ls
    BY <1>1
  <2>2. QED BY <1>1, <2>1, BindingIsTightest
<1> HIDE DEF row
<1>3. row.value \in Nat /\ row.value <= wanted /\ Seating[o] \in Nat
  BY <1>1, <1>2, FacilitiesAssumption DEF Limited
<1>4. covers \in Nat /\ covers <= row.value
  BY <1>3 DEF CoversOrdered, Least
<1> HIDE DEF covers
<1>5. /\ k.served \in Nat /\ k.wasted \in Nat
      /\ k.served <= covers /\ k.served + k.wasted <= larder
  BY <1>4, KitchenTakes
<1>6. Service(o, wanted, d) =
        [demand |-> wanted, capacity |-> row.value, served |-> k.served, wasted |-> k.wasted,
         cause |-> row.label, waiting |-> wanted - k.served,
         late |-> o = "roomService" /\ k.served > 0 /\ Minutes > Promise]
  BY DEF Service, ls, row, covers
<1> HIDE DEF k
<1>7. /\ DOMAIN Service(o, wanted, d) = ServiceFields
      /\ Service(o, wanted, d).served = k.served /\ Service(o, wanted, d).wasted = k.wasted
      /\ Service(o, wanted, d).demand = wanted /\ Service(o, wanted, d).capacity = row.value
  BY <1>6 DEF ServiceFields
<1>8. QED BY <1>3, <1>4, <1>5, <1>7

\* The state under which every quantum of the day keeps the five promises.
FacilitiesInv ==
  /\ hour \in 1 .. 7 /\ guests \in Nat /\ larder \in Nat
  /\ DOMAIN outlets = Outlets
  /\ spa.booked \in Nat /\ duty \in Duties
  /\ DOMAIN tally = {"delivered", "gone", "unmetered", "quiet"}
  /\ {tally.delivered, tally.gone, tally.unmetered, tally.quiet} \subseteq Int
  /\ FacilitiesHold

LEMMA TheMoments ==
  /\ Moments[1] = "breakfast" /\ Moments[2] = "laundry" /\ Moments[3] = "spa"
  /\ Moments[4] = "evening" /\ Moments[5] = "bar" /\ Moments[6] = "late"
  /\ Moments[7] = "midnight"
BY DEF Moments

LEMMA OnDutyAre ==
  ASSUME duty \in Duties
  PROVE  duty.lifts \in Nat /\ \A d \in Departments : duty.hands[d] \in Nat
BY FacilitiesAssumption

LEMMA WantedIs ==
  ASSUME NEW o \in Outlets, NEW outside \in Nat, guests \in Nat
  PROVE  Wanted(o, outside) \in Nat
<1>1. TakeUp[o] \in Nat
  BY FacilitiesAssumption
<1>2. Share(guests, TakeUp[o]) \in Nat
  BY <1>1, ShareIs
<1>3. QED BY <1>2 DEF Wanted

\* The news of a quantum leave whoever hears them with what binds each area.
LEMMA RefreshTells ==
  ASSUME CausesAreNews, Refresh, DOMAIN outlets = Outlets
  PROVE  CausesAreNews'
<1> DEFINE rows == Rows(larder', outlets', duty', law')
<1>1. facilityBoard' = rows /\ announced' = News(rows, outlets')
  BY DEF Refresh
<1>2. DOMAIN announced = Facilities \cup Outlets
  BY DEF CausesAreNews
<1> HIDE DEF rows
<1>3. announced' =
        [f \in Facilities \cup Outlets |->
           IF f \in Facilities
             THEN IF rows[f].label # facilityBoard[f].label THEN rows[f].label ELSE announced[f]
             ELSE IF outlets'[f].cause # outlets[f].cause THEN outlets'[f].cause ELSE announced[f]]
  BY <1>1, <1>2 DEF News
<1>4. \A f \in Facilities \cup Outlets :
        announced[f] = IF f \in Facilities THEN facilityBoard[f].label ELSE outlets[f].cause
  BY DEF CausesAreNews
<1>5. announced' = [f \in Facilities \cup Outlets |->
                      IF f \in Facilities THEN rows[f].label ELSE outlets'[f].cause]
  BY <1>3, <1>4
<1>6. QED BY <1>1, <1>5 DEF CausesAreNews

\* A service, whichever outlet's it is.
LEMMA ServingKeeps ==
  ASSUME FacilitiesInv, NEW o \in Outlets, NEW wanted \in Nat, NEW d \in Departments,
         NEW r, r = Service(o, wanted, d), Serve(o, r), tally' = Gone(r),
         \A q \in Outlets : q \in shown' <=> q \in Delayed(o, r)
  PROVE  /\ larder' \in Nat /\ DOMAIN outlets' = Outlets
         /\ DOMAIN tally' = {"delivered", "gone", "unmetered", "quiet"}
         /\ {tally'.delivered, tally'.gone, tally'.unmetered, tally'.quiet} \subseteq Int
         /\ tally'.unmetered = tally.unmetered
         /\ LarderIsShared' /\ OutletsAreSavable' /\ WaitsAreTold'
<1>1. /\ larder \in Nat /\ DOMAIN outlets = Outlets /\ duty \in Duties
      /\ DOMAIN tally = {"delivered", "gone", "unmetered", "quiet"}
      /\ {tally.delivered, tally.gone, tally.unmetered, tally.quiet} \subseteq Int
      /\ larder + tally.gone = Larder + tally.delivered
      /\ OutletsAreSavable /\ WaitsAreTold /\ Larder \in Nat
  BY FacilitiesAssumption DEF FacilitiesInv, FacilitiesHold, LarderIsShared
<1>2. duty.lifts \in Nat /\ duty.hands[d] \in Nat
  BY <1>1, OnDutyAre
<1>3. /\ DOMAIN r = ServiceFields
      /\ r.served \in Nat /\ r.wasted \in Nat /\ r.served + r.wasted <= larder
      /\ r.served <= r.demand /\ r.served <= r.capacity
  BY <1>1, <1>2, ServiceIs
<1>4. /\ outlets' = [outlets EXCEPT ![o] = r] /\ larder' = larder - r.served - r.wasted
      /\ tally' = [tally EXCEPT !.gone = @ + r.served + r.wasted]
  BY DEF Serve, Gone
<1>5. /\ DOMAIN tally' = {"delivered", "gone", "unmetered", "quiet"}
      /\ tally'.gone = tally.gone + r.served + r.wasted
      /\ tally'.delivered = tally.delivered /\ tally'.unmetered = tally.unmetered
      /\ tally'.quiet = tally.quiet
  BY <1>1, <1>4
<1>6. larder' \in Nat /\ LarderIsShared'
  BY <1>1, <1>3, <1>4, <1>5 DEF LarderIsShared
<1>7. /\ DOMAIN outlets' = Outlets /\ outlets'[o] = r
      /\ \A q \in Outlets : q # o => outlets'[q] = outlets[q]
  BY <1>1, <1>4
<1>8. OutletsAreSavable'
  BY <1>1, <1>3, <1>7 DEF OutletsAreSavable
<1>9. WaitsAreTold'
  <2>1. \A q \in Outlets : q # o => (q \in shown' <=> q \in shown)
    BY DEF Delayed
  <2>2. o \in shown' <=> (r.waiting > 0 \/ r.late)
    BY DEF Delayed
  <2>3. ASSUME NEW q \in Outlets
        PROVE  q \in shown' <=> (outlets'[q].waiting > 0 \/ outlets'[q].late)
    <3>1. CASE q = o
      BY <1>7, <2>2, <3>1
    <3>2. CASE q # o
      <4>1. q \in shown <=> (outlets[q].waiting > 0 \/ outlets[q].late)
        BY <1>1 DEF WaitsAreTold
      <4>2. (q \in shown' <=> q \in shown) /\ outlets'[q] = outlets[q]
        BY <1>7, <2>1, <3>2
      <4>3. QED BY <4>1, <4>2
    <3>3. QED BY <3>1, <3>2
  <2>4. QED BY <2>3 DEF WaitsAreTold
<1>10. {tally'.delivered, tally'.gone, tally'.unmetered, tally'.quiet} \subseteq Int
  BY <1>1, <1>3, <1>5
<1>11. QED BY <1>5, <1>6, <1>7, <1>8, <1>9, <1>10

\* The hours at which nothing is booked or metered.
LEMMA HourPasses ==
  ASSUME FacilitiesInv, Passes, ~ Comes("laundry"), ~ Comes("spa"), ~ Comes("midnight"),
         spa' = spa, tally'.unmetered = tally.unmetered
  PROVE  hour' \in 1 .. 7 /\ TreatmentsAreMetered'
<1>1. /\ hour \in 1 .. 7 /\ hour' = hour + 1
      /\ tally.unmetered = IF Moments[hour] = "spa" THEN 0 ELSE spa.booked
      /\ Moments[hour] # "laundry" /\ Moments[hour] # "spa" /\ Moments[hour] # "midnight"
  BY DEF FacilitiesInv, FacilitiesHold, TreatmentsAreMetered, Passes, Comes
<1>2. hour \in {1, 4, 5, 6}
  BY <1>1, TheMoments
<1>3. hour' \in {2, 5, 6, 7}
  BY <1>1, <1>2
<1>4. Moments[hour'] # "spa"
  BY <1>3, TheMoments
<1>5. QED BY <1>1, <1>3, <1>4 DEF TreatmentsAreMetered

\* An hour at which an outlet serves.
LEMMA ServiceHour ==
  ASSUME FacilitiesInv, NEW o \in Outlets, NEW wanted \in Nat, NEW d \in Departments,
         NEW r, r = Service(o, wanted, d), Serve(o, r), tally' = Gone(r),
         \A q \in Outlets : q \in shown' <=> q \in Delayed(o, r),
         Passes, ~ Comes("laundry"), ~ Comes("spa"), ~ Comes("midnight"),
         spa' = spa, guests' = guests, duty' = duty, Refresh
  PROVE  FacilitiesInv'
<1>1. /\ larder' \in Nat /\ DOMAIN outlets' = Outlets
      /\ DOMAIN tally' = {"delivered", "gone", "unmetered", "quiet"}
      /\ {tally'.delivered, tally'.gone, tally'.unmetered, tally'.quiet} \subseteq Int
      /\ tally'.unmetered = tally.unmetered
      /\ LarderIsShared' /\ OutletsAreSavable' /\ WaitsAreTold'
  BY ServingKeeps
<1>2. hour' \in 1 .. 7 /\ TreatmentsAreMetered'
  BY <1>1, HourPasses
<1>3. CausesAreNews'
  BY RefreshTells DEF FacilitiesInv, FacilitiesHold
<1>4. guests' \in Nat /\ spa'.booked \in Nat /\ duty' \in Duties
  BY DEF FacilitiesInv
<1>5. QED BY <1>1, <1>2, <1>3, <1>4 DEF FacilitiesInv, FacilitiesHold

LEMMA FacilitiesBegin == FacilitiesInit => FacilitiesInv
<1> SUFFICES ASSUME FacilitiesInit PROVE FacilitiesInv
  OBVIOUS
<1>1. /\ hour = 1 /\ guests = MaxGuests /\ larder = Larder
      /\ outlets = [o \in Outlets |-> ClosedYet]
      /\ spa = [booked |-> 0, therapists |-> 0] /\ shown = {}
      /\ tally = [delivered |-> 0, gone |-> 0, unmetered |-> 0, quiet |-> 0]
      /\ duty \in Duties /\ MaxGuests \in Nat /\ Larder \in Nat
  BY FacilitiesAssumption DEF FacilitiesInit
<1>2. CausesAreNews
  BY DEF FacilitiesInit, CausesAreNews
<1>3. LarderIsShared
  BY <1>1 DEF LarderIsShared
<1>4. /\ ClosedYet.demand = 0 /\ ClosedYet.capacity = 0 /\ ClosedYet.served = 0
      /\ ClosedYet.waiting = 0 /\ ClosedYet.late = FALSE
  BY DEF ClosedYet
<1>5. \A o \in Outlets : outlets[o] = ClosedYet
  BY <1>1
<1>6. OutletsAreSavable
  BY <1>4, <1>5 DEF OutletsAreSavable
<1>7. WaitsAreTold
  <2>1. \A o \in Outlets : o \notin shown /\ ~(outlets[o].waiting > 0) /\ ~ outlets[o].late
    BY <1>1, <1>4, <1>5
  <2>2. QED BY <2>1 DEF WaitsAreTold
<1>8. TreatmentsAreMetered
  BY <1>1 DEF TreatmentsAreMetered
<1>9. QED BY <1>1, <1>2, <1>3, <1>6, <1>7, <1>8 DEF FacilitiesInv, FacilitiesHold

\* What an outlet does not do leaves what the outlets keep.
LEMMA OutletsRest ==
  ASSUME FacilitiesInv, outlets' = outlets, \A q \in Outlets : q \in shown' <=> q \in shown
  PROVE  DOMAIN outlets' = Outlets /\ OutletsAreSavable' /\ WaitsAreTold'
BY DEF FacilitiesInv, FacilitiesHold, OutletsAreSavable, WaitsAreTold

LEMMA MeteringKeeps ==
  ASSUME FacilitiesInv, NEW outside, NEW dirty, MeterDay(outside, dirty)
  PROVE  FacilitiesInv'
<1>1. /\ Comes("laundry") /\ hour' = hour + 1
      /\ tally' = [tally EXCEPT !.unmetered = @ - spa.booked]
      /\ UNCHANGED <<guests, larder, outlets, spa, duty, shown>> /\ Refresh
  BY DEF MeterDay, Passes
<1>2. /\ hour \in 1 .. 7 /\ Moments[hour] = "laundry" /\ spa.booked \in Nat
      /\ DOMAIN tally = {"delivered", "gone", "unmetered", "quiet"}
      /\ {tally.delivered, tally.gone, tally.unmetered, tally.quiet} \subseteq Int
      /\ TreatmentsAreMetered /\ LarderIsShared
  BY <1>1 DEF Comes, FacilitiesInv, FacilitiesHold
<1>3. hour' = 3 /\ Moments[hour'] = "spa" /\ tally.unmetered = spa.booked
  BY <1>1, <1>2, TheMoments DEF TreatmentsAreMetered
<1>4. /\ DOMAIN tally' = {"delivered", "gone", "unmetered", "quiet"}
      /\ tally'.gone = tally.gone /\ tally'.delivered = tally.delivered
      /\ tally'.quiet = tally.quiet /\ tally'.unmetered = tally.unmetered - spa.booked
  BY <1>1, <1>2
<1>5. tally'.unmetered = 0
  BY <1>2, <1>3, <1>4
<1>6. TreatmentsAreMetered' /\ LarderIsShared'
  BY <1>1, <1>2, <1>3, <1>4, <1>5 DEF TreatmentsAreMetered, LarderIsShared
<1>7. DOMAIN outlets' = Outlets /\ OutletsAreSavable' /\ WaitsAreTold'
  BY <1>1, OutletsRest
<1>8. CausesAreNews'
  BY <1>1, RefreshTells DEF FacilitiesInv, FacilitiesHold
<1>9. {tally'.delivered, tally'.gone, tally'.unmetered, tally'.quiet} \subseteq Int
  BY <1>2, <1>4, <1>5
<1>10. guests' \in Nat /\ larder' \in Nat /\ spa'.booked \in Nat /\ duty' \in Duties
  BY <1>1 DEF FacilitiesInv
<1>11. QED BY <1>3, <1>4, <1>6, <1>7, <1>8, <1>9, <1>10 DEF FacilitiesInv, FacilitiesHold

LEMMA SpaKeeps ==
  ASSUME FacilitiesInv, OpenSpa
  PROVE  FacilitiesInv'
<1> DEFINE wanted == Share(guests, SpaTakeUp)
           sold == Least(wanted, Slots(duty.hands["wellness"]))
<1>1. /\ Comes("spa") /\ hour' = hour + 1
      /\ spa' = [booked |-> sold, therapists |-> duty.hands["wellness"]]
      /\ tally' = [tally EXCEPT !.unmetered = @ + sold]
      /\ UNCHANGED <<guests, larder, outlets, duty>> /\ Refresh
  BY DEF OpenSpa, Passes, BookTreatments
<1>2. \A q \in Outlets : q \in shown' <=> q \in shown
  BY DEF OpenSpa, Outlets
<1>3. /\ hour \in 1 .. 7 /\ Moments[hour] = "spa" /\ guests \in Nat /\ duty \in Duties
      /\ DOMAIN tally = {"delivered", "gone", "unmetered", "quiet"}
      /\ {tally.delivered, tally.gone, tally.unmetered, tally.quiet} \subseteq Int
      /\ TreatmentsAreMetered /\ LarderIsShared
  BY <1>1 DEF Comes, FacilitiesInv, FacilitiesHold
<1>4. hour' = 4 /\ Moments[hour'] = "evening" /\ tally.unmetered = 0
  BY <1>1, <1>3, TheMoments DEF TreatmentsAreMetered
<1>5. sold \in Nat
  <2>1. wanted \in Nat
    BY <1>3, ShareIs, FacilitiesAssumption
  <2>2. duty.hands["wellness"] \in Nat
    BY <1>3, OnDutyAre DEF Departments
  <2>3. Least(TreatmentRooms, duty.hands["wellness"]) \in Nat /\ SlotsPerRoom \in Nat
    BY <2>2, FacilitiesAssumption DEF Least
  <2>4. Slots(duty.hands["wellness"]) \in Nat
    BY <2>3, NotNegative DEF Slots
  <2> HIDE DEF wanted
  <2>5. QED BY <2>1, <2>4 DEF Least
<1> HIDE DEF sold, wanted
<1>6. /\ DOMAIN tally' = {"delivered", "gone", "unmetered", "quiet"}
      /\ tally'.gone = tally.gone /\ tally'.delivered = tally.delivered
      /\ tally'.quiet = tally.quiet /\ tally'.unmetered = tally.unmetered + sold
      /\ spa'.booked = sold
  BY <1>1, <1>3
<1>7. TreatmentsAreMetered' /\ LarderIsShared'
  BY <1>1, <1>3, <1>4, <1>5, <1>6 DEF TreatmentsAreMetered, LarderIsShared
<1>8. DOMAIN outlets' = Outlets /\ OutletsAreSavable' /\ WaitsAreTold'
  BY <1>1, <1>2, OutletsRest
<1>9. CausesAreNews'
  BY <1>1, RefreshTells DEF FacilitiesInv, FacilitiesHold
<1>10. {tally'.delivered, tally'.gone, tally'.unmetered, tally'.quiet} \subseteq Int
  BY <1>3, <1>4, <1>5, <1>6
<1>11. guests' \in Nat /\ larder' \in Nat /\ spa'.booked \in Nat /\ duty' \in Duties
  BY <1>1, <1>5, <1>6 DEF FacilitiesInv
<1>12. QED BY <1>4, <1>6, <1>7, <1>8, <1>9, <1>10, <1>11 DEF FacilitiesInv, FacilitiesHold

LEMMA MidnightKeeps ==
  ASSUME FacilitiesInv, NEW f, NEW l, NEW on \in Duties, RollDay(f, l, on)
  PROVE  FacilitiesInv'
<1>1. /\ Comes("midnight") /\ hour' = 1 /\ duty' = on
      /\ UNCHANGED <<guests, larder, outlets, spa, shown, tally>> /\ Refresh
  BY DEF RollDay
<1>2. Moments[hour] # "spa" /\ Moments[hour'] # "spa"
  BY <1>1, TheMoments DEF Comes
<1>3. TreatmentsAreMetered' /\ LarderIsShared'
  BY <1>1, <1>2 DEF FacilitiesInv, FacilitiesHold, TreatmentsAreMetered, LarderIsShared
<1>4. DOMAIN outlets' = Outlets /\ OutletsAreSavable' /\ WaitsAreTold'
  BY <1>1, OutletsRest
<1>5. CausesAreNews'
  BY <1>1, RefreshTells DEF FacilitiesInv, FacilitiesHold
<1>6. QED BY <1>1, <1>3, <1>4, <1>5 DEF FacilitiesInv, FacilitiesHold

LEMMA QuietKeeps ==
  ASSUME FacilitiesInv, NEW n \in Nat, NEW portions \in Nat, QuietQuantum(n, portions)
  PROVE  FacilitiesInv'
<1>1. /\ tally' = [tally EXCEPT !.quiet = @ + 1, !.delivered = @ + portions]
      /\ guests' = n /\ larder' = larder + portions
      /\ UNCHANGED <<hour, outlets, spa, duty, shown>> /\ Refresh
  BY DEF QuietQuantum
<1>2. /\ DOMAIN tally = {"delivered", "gone", "unmetered", "quiet"}
      /\ {tally.delivered, tally.gone, tally.unmetered, tally.quiet} \subseteq Int
      /\ TreatmentsAreMetered /\ larder \in Nat /\ Larder \in Nat
      /\ larder + tally.gone = Larder + tally.delivered
  BY FacilitiesAssumption DEF FacilitiesInv, FacilitiesHold, LarderIsShared
<1>3. /\ DOMAIN tally' = {"delivered", "gone", "unmetered", "quiet"}
      /\ tally'.gone = tally.gone /\ tally'.delivered = tally.delivered + portions
      /\ tally'.quiet = tally.quiet + 1 /\ tally'.unmetered = tally.unmetered
  BY <1>1, <1>2
<1>4. LarderIsShared' /\ TreatmentsAreMetered'
  BY <1>1, <1>2, <1>3 DEF LarderIsShared, TreatmentsAreMetered
<1>5. DOMAIN outlets' = Outlets /\ OutletsAreSavable' /\ WaitsAreTold'
  BY <1>1, OutletsRest
<1>6. CausesAreNews'
  BY <1>1, RefreshTells DEF FacilitiesInv, FacilitiesHold
<1>7. {tally'.delivered, tally'.gone, tally'.unmetered, tally'.quiet} \subseteq Int
  BY <1>2, <1>3
<1>8. hour' \in 1 .. 7 /\ guests' \in Nat /\ larder' \in Nat /\ spa'.booked \in Nat /\ duty' \in Duties
  BY <1>1 DEF FacilitiesInv
<1>9. QED BY <1>3, <1>4, <1>5, <1>6, <1>7, <1>8 DEF FacilitiesInv, FacilitiesHold

LEMMA FacilitiesStep == FacilitiesInv /\ [FacilitiesNext]_facilityVars => FacilitiesInv'
<1> SUFFICES ASSUME FacilitiesInv, [FacilitiesNext]_facilityVars PROVE FacilitiesInv'
  OBVIOUS
<1>1. guests \in Nat /\ Outside \subseteq Nat /\ Departments = {"kitchen", "fnb", "wellness", "reception"}
  BY FacilitiesAssumption DEF FacilitiesInv, Departments
<1>2. \A m \in {"breakfast", "evening", "bar", "late"} :
        Comes(m) => ~ Comes("laundry") /\ ~ Comes("spa") /\ ~ Comes("midnight")
  BY DEF Comes
<1>3. ASSUME NEW outside \in Outside, Breakfast(outside) PROVE FacilitiesInv'
  <2> DEFINE wanted == Wanted("breakfastRoom", outside)
             r == Service("breakfastRoom", wanted, "kitchen")
  <2>1. "breakfastRoom" \in Outlets
    BY DEF Outlets
  <2>2. wanted \in Nat
    BY <1>1, <2>1, WantedIs
  <2>3. /\ Comes("breakfast") /\ Passes /\ Serve("breakfastRoom", r)
        /\ shown' = Delayed("breakfastRoom", r) /\ tally' = Gone(r)
        /\ UNCHANGED <<guests, spa, duty>> /\ Refresh
    BY <1>3 DEF Breakfast
  <2> HIDE DEF wanted
  <2>4. QED BY <1>1, <1>2, <2>1, <2>2, <2>3, ServiceHour
<1>4. ASSUME NEW outside \in Outside, Evening(outside) PROVE FacilitiesInv'
  <2> DEFINE wanted == Wanted("restaurant", outside)
             r == Service("restaurant", wanted, "fnb")
  <2>1. "restaurant" \in Outlets
    BY DEF Outlets
  <2>2. wanted \in Nat
    BY <1>1, <2>1, WantedIs
  <2>3. /\ Comes("evening") /\ Passes /\ Serve("restaurant", r)
        /\ shown' \in {Delayed("restaurant", r) \cup {"space"}, Delayed("restaurant", r) \ {"space"}}
        /\ tally' = Gone(r)
        /\ UNCHANGED <<guests, spa, duty>> /\ Refresh
    BY <1>4 DEF Evening
  <2>4. \A q \in Outlets : q \in shown' <=> q \in Delayed("restaurant", r)
    BY <2>3 DEF Outlets
  <2> HIDE DEF wanted
  <2>5. QED BY <1>1, <1>2, <2>1, <2>2, <2>3, <2>4, ServiceHour
<1>5. ASSUME NEW outside \in Outside, BarService(outside) PROVE FacilitiesInv'
  <2> DEFINE wanted == Wanted("bar", outside)
             r == Service("bar", wanted, "fnb")
  <2>1. "bar" \in Outlets
    BY DEF Outlets
  <2>2. wanted \in Nat
    BY <1>1, <2>1, WantedIs
  <2>3. /\ Comes("bar") /\ Passes /\ Serve("bar", r)
        /\ shown' = Delayed("bar", r) /\ tally' = Gone(r)
        /\ UNCHANGED <<guests, spa, duty>> /\ Refresh
    BY <1>5 DEF BarService
  <2> HIDE DEF wanted
  <2>4. QED BY <1>1, <1>2, <2>1, <2>2, <2>3, ServiceHour
<1>6. ASSUME RoomService PROVE FacilitiesInv'
  <2> DEFINE wanted == Wanted("roomService", 0)
             r == Service("roomService", wanted, "fnb")
  <2>1. "roomService" \in Outlets
    BY DEF Outlets
  <2>2. wanted \in Nat
    BY <1>1, <2>1, WantedIs
  <2>3. /\ Comes("late") /\ Passes /\ Serve("roomService", r)
        /\ shown' = Delayed("roomService", r) /\ tally' = Gone(r)
        /\ UNCHANGED <<guests, spa, duty>> /\ Refresh
    BY <1>6 DEF RoomService
  <2> HIDE DEF wanted
  <2>4. QED BY <1>1, <1>2, <2>1, <2>2, <2>3, ServiceHour
<1>7. ASSUME NEW outside \in Outside, NEW dirty \in {0, MeterCapacity}, MeterDay(outside, dirty)
      PROVE  FacilitiesInv'
  BY <1>7, MeteringKeeps
<1>8. ASSUME OpenSpa PROVE FacilitiesInv'
  BY <1>8, SpaKeeps
<1>9. ASSUME NEW f \in Regulated, NEW l \in Laws, NEW on \in Duties, RollDay(f, l, on)
      PROVE  FacilitiesInv'
  BY <1>9, MidnightKeeps
<1>10. ASSUME NEW n \in 0 .. MaxGuests, NEW portions \in {0, Delivery}, QuietQuantum(n, portions)
       PROVE  FacilitiesInv'
  <2>1. n \in Nat /\ portions \in Nat
    BY FacilitiesAssumption
  <2>2. QED BY <1>10, <2>1, QuietKeeps
<1>11. CASE UNCHANGED facilityVars
  BY <1>11 DEF facilityVars, FacilitiesInv, FacilitiesHold, LarderIsShared, OutletsAreSavable,
               WaitsAreTold, TreatmentsAreMetered, CausesAreNews
<1>12. QED BY <1>3, <1>4, <1>5, <1>6, <1>7, <1>8, <1>9, <1>10, <1>11 DEF FacilitiesNext

\* The day of the house's outlets (GameSimulation.ts, runFacilities): the larder is shared
\* without a portion lost or taken twice, no outlet serves what it cannot, whoever waited is
\* told of, treatments are metered once and the news keep up with the board.
THEOREM FacilitiesAreShared == FacilitiesSpec => []FacilitiesHold
<1>1. FacilitiesInv => FacilitiesHold
  BY DEF FacilitiesInv
<1>2. QED BY <1>1, FacilitiesBegin, FacilitiesStep, PTL DEF FacilitiesSpec

-----------------------------------------------------------------------------
(* The picture of the house.                                               *)

SceneStages == {"importing", "attaching", "live", "gone", "failed", "orphaned"}
SceneRecord == [mount : Nat, at : SceneStages, cancelled : BOOLEAN]

CameraFields == {"x", "zoom", "floor", "cutaway", "focused", "service", "followed"}

\* Where the camera is is a floor, and who it follows is a person; what was last gone to,
\* and has a place, is on its floor.
CameraKept ==
  /\ DOMAIN camera = CameraFields /\ camera.floor \in Int
  /\ camera.followed # Nothing =>
       camera.focused = camera.followed /\ \E w : camera.followed = <<"person", w>>
  /\ ~moved /\ HasPlace(camera.focused) => camera.floor = PlaceIn(camera.focused).floor
  /\ ~moved /\ camera.followed # Nothing /\ followedFor = Followed =>
       LET w == camera.followed[2]
       IN  w \in DOMAIN news.walkers /\ HasPlace(news.walkers[w]) =>
             /\ camera.floor = PlaceIn(news.walkers[w]).floor
             /\ camera.x = PlaceIn(news.walkers[w]).x

NewsFields == {"states", "works", "walkers", "load", "car", "night"}
NewsKept ==
  /\ DOMAIN news = NewsFields /\ news.car \in Int
  /\ DOMAIN news.states = PicturedRooms

\* One scene is wanted at a time, that of the view that is open, and the one that draws is it.
ScenesKept ==
  /\ scenes \in Seq(SceneRecord) /\ mounts \in Nat /\ mounted \in BOOLEAN
  /\ current \in Nat /\ (ready <=> current # 0)
  /\ \A i \in DOMAIN scenes : ~scenes[i].cancelled => mounted /\ scenes[i].mount = mounts
  /\ \A i, j \in DOMAIN scenes : ~scenes[i].cancelled /\ ~scenes[j].cancelled => i = j
  /\ \A i \in DOMAIN scenes : scenes[i].at = "live" <=> i = current
  /\ current # 0 => current \in DOMAIN scenes /\ ~scenes[current].cancelled

\* What the drawing effect last ran for is what the picture is of, once there is a scene.
PaintKept ==
  mounted /\ drawnFor # <<>> /\ drawnFor.ready =>
    current # 0 /\ painted = Picture(drawnFor)

PictureInv == ScenesKept /\ PaintKept /\ CameraKept /\ NewsKept

LEMMA PictureSequences ==
  /\ \A f, n : n \in Nat /\ f \in [1 .. n -> SceneRecord] => f \in Seq(SceneRecord) /\ Len(f) = n
  /\ \A f \in Seq(SceneRecord) :
       Len(f) \in Nat /\ f \in [1 .. Len(f) -> SceneRecord] /\ DOMAIN f = 1 .. Len(f)
PROOF
  <1>1. ASSUME NEW f, NEW n \in Nat, f \in [1 .. n -> SceneRecord]
        PROVE  f \in Seq(SceneRecord) /\ Len(f) = n
    BY <1>1
  <1>2. ASSUME NEW f \in Seq(SceneRecord)
        PROVE  Len(f) \in Nat /\ f \in [1 .. Len(f) -> SceneRecord] /\ DOMAIN f = 1 .. Len(f)
    BY <1>2
  <1>3. QED BY <1>1, <1>2

LEMMA PictureStarts == PictureInit => PictureInv
PROOF
  <1> SUFFICES ASSUME PictureInit PROVE PictureInv
    OBVIOUS
  <1>1. ScenesKept
    <2>1. scenes = <<>> /\ scenes \in Seq(SceneRecord) /\ DOMAIN scenes = {}
      BY DEF PictureInit
    <2>2. mounts = 0 /\ mounted = FALSE /\ current = 0 /\ ready = FALSE
      BY DEF PictureInit
    <2>3. QED BY <2>1, <2>2 DEF ScenesKept
  <1>2. PaintKept
    BY DEF PictureInit, PaintKept
  <1>3. CameraKept
    <2>1. /\ camera = [x |-> 0, zoom |-> TilesFrom, floor |-> 0, cutaway |-> FALSE,
                       focused |-> Nothing, service |-> FALSE, followed |-> Nothing]
      BY DEF PictureInit
    <2>2. DOMAIN camera = CameraFields /\ camera.floor = 0 /\ camera.followed = Nothing
          /\ camera.focused = Nothing
      BY <2>1 DEF CameraFields
    <2>3. ~HasPlace(Nothing)
      BY DEF HasPlace, Nothing, RoomAt, AreaAt
    <2>4. QED BY <2>2, <2>3 DEF CameraKept
  <1>4. NewsKept
    BY DEF PictureInit, NewsKept, NewsFields
  <1>5. QED BY <1>1, <1>2, <1>3, <1>4 DEF PictureInv

\* A step that touches neither the scenes nor who looks leaves what is said of them.
LEMMA ScenesStay ==
  ScenesKept /\ UNCHANGED <<scenes, mounts, mounted, current, ready>> => ScenesKept'
  BY DEF ScenesKept
LEMMA PaintStays ==
  PaintKept /\ UNCHANGED <<mounted, drawnFor, painted, current>> => PaintKept'
  BY DEF PaintKept
LEMMA NewsStays == NewsKept /\ news' = news => NewsKept'
  BY DEF NewsKept
LEMMA CameraStays ==
  CameraKept /\ UNCHANGED <<camera, moved, news, followedFor>> => CameraKept'
  BY DEF CameraKept, Followed

LEMMA OpenViewKeeps == PictureInv /\ OpenView => PictureInv'
PROOF
  <1> SUFFICES ASSUME PictureInv, OpenView PROVE PictureInv'
    OBVIOUS
  <1>1. CameraKept' /\ NewsKept'
    BY CameraStays, NewsStays DEF PictureInv, OpenView
  <1>2. PaintKept'
    BY DEF OpenView, PaintKept
  <1>3. ScenesKept'
    <2>1. /\ scenes \in Seq(SceneRecord) /\ mounts \in Nat /\ ~mounted
          /\ \A i \in DOMAIN scenes : scenes[i].cancelled
          /\ \A i \in DOMAIN scenes : scenes[i].at = "live" <=> i = current
          /\ current = 0 /\ current' = 0 /\ ready' = FALSE
          /\ mounts' = mounts + 1 /\ mounted' = TRUE
      BY DEF PictureInv, ScenesKept, OpenView
    <2>2. PICK twice \in BOOLEAN :
            scenes' = scenes \o (IF twice THEN <<NewScene(mounts + 1, TRUE)>> ELSE <<>>)
                             \o <<NewScene(mounts + 1, FALSE)>>
      BY DEF OpenView
    <2> DEFINE first == NewScene(mounts + 1, TRUE)
               second == NewScene(mounts + 1, FALSE)
    <2>3. /\ first \in SceneRecord /\ first.at = "importing" /\ first.cancelled
          /\ second \in SceneRecord /\ second.at = "importing" /\ ~second.cancelled
          /\ second.mount = mounts + 1
      BY <2>1 DEF SceneRecord, SceneStages, NewScene
    <2> HIDE DEF first, second
    <2> DEFINE n == Len(scenes')
    <2>4. /\ scenes' \in Seq(SceneRecord) /\ n \in Nat /\ n > 0 /\ DOMAIN scenes' = 1 .. n
          /\ scenes'[n] = second
          /\ \A i \in 1 .. n - 1 :
               (i \in DOMAIN scenes /\ scenes'[i] = scenes[i]) \/ scenes'[i] = first
      <3>1. CASE twice
        <4>1. scenes' = scenes \o <<first>> \o <<second>>
          BY <2>2, <3>1 DEF first, second
        <4> DEFINE opened == scenes \o <<first>>
        <4>2. /\ opened \in Seq(SceneRecord) /\ Len(opened) = Len(scenes) + 1
              /\ \A i \in 1 .. Len(scenes) : opened[i] = scenes[i]
              /\ opened[Len(scenes) + 1] = first
          BY <2>1, <2>3
        <4> HIDE DEF opened
        <4>3. scenes' = opened \o <<second>>
          BY <4>1 DEF opened
        <4>4. /\ scenes' \in Seq(SceneRecord) /\ Len(scenes') = Len(opened) + 1
              /\ \A i \in 1 .. Len(opened) : scenes'[i] = opened[i]
              /\ scenes'[Len(opened) + 1] = second
          BY <2>3, <4>2, <4>3
        <4>5. QED BY <2>1, <4>2, <4>4
      <3>2. CASE ~twice
        <4>1. scenes' = scenes \o <<>> \o <<second>>
          BY <2>2, <3>2 DEF second
        <4>2. scenes \o <<>> = scenes
          BY <2>1
        <4>3. scenes' = scenes \o <<second>>
          BY <4>1, <4>2
        <4>4. /\ scenes' \in Seq(SceneRecord) /\ Len(scenes') = Len(scenes) + 1
              /\ \A i \in 1 .. Len(scenes) : scenes'[i] = scenes[i]
              /\ scenes'[Len(scenes) + 1] = second
          BY <2>1, <2>3, <4>3
        <4>5. QED BY <2>1, <4>4
      <3>3. QED BY <3>1, <3>2
    <2>5. \A i \in DOMAIN scenes' : (i # n => scenes'[i].cancelled) /\ scenes'[i].at # "live" /\ i # 0
      <3>1. SUFFICES ASSUME NEW i \in DOMAIN scenes'
                     PROVE (i # n => scenes'[i].cancelled) /\ scenes'[i].at # "live" /\ i # 0
        OBVIOUS
      <3>2. CASE i = n
        BY <2>3, <2>4, <3>2
      <3>3. CASE i # n
        <4>1. i \in 1 .. n - 1
          BY <2>4, <3>3
        <4>2. \A j \in DOMAIN scenes : scenes[j].at # "live"
          BY <2>1
        <4>3. QED BY <2>1, <2>3, <2>4, <4>1, <4>2
      <3>4. QED BY <3>2, <3>3
    <2> HIDE DEF n
    <2>6. QED BY <2>1, <2>3, <2>4, <2>5 DEF ScenesKept
  <1>4. QED BY <1>1, <1>2, <1>3 DEF PictureInv

LEMMA CloseViewKeeps == PictureInv /\ CloseView => PictureInv'
PROOF
  <1> SUFFICES ASSUME PictureInv, CloseView PROVE PictureInv'
    OBVIOUS
  <1>1. CameraKept' /\ NewsKept'
    BY CameraStays, NewsStays DEF PictureInv, CloseView
  <1>2. PaintKept'
    BY DEF CloseView, PaintKept
  <1>3. ScenesKept'
    <2> DEFINE given(i) == IF scenes[i].mount # mounts THEN scenes[i]
                           ELSE [scenes[i] EXCEPT !.cancelled = TRUE,
                                                  !.at = IF i = current THEN "gone" ELSE @]
    <2>1. /\ scenes' = [i \in DOMAIN scenes |-> given(i)]
          /\ mounts' = mounts /\ mounted' = FALSE /\ current' = 0 /\ ready' = FALSE
      BY DEF CloseView
    <2>2. /\ scenes \in Seq(SceneRecord) /\ mounts \in Nat
          /\ \A i \in DOMAIN scenes : ~scenes[i].cancelled => scenes[i].mount = mounts
          /\ \A i \in DOMAIN scenes : scenes[i].at = "live" <=> i = current
          /\ current # 0 => current \in DOMAIN scenes /\ ~scenes[current].cancelled
      BY DEF PictureInv, ScenesKept
    <2>3. DOMAIN scenes = 1 .. Len(scenes) /\ Len(scenes) \in Nat
          /\ \A i \in DOMAIN scenes : scenes[i] \in SceneRecord
      BY <2>2
    <2>4. \A i \in DOMAIN scenes : given(i) \in SceneRecord /\ given(i).cancelled
                                   /\ given(i).at # "live" /\ i # 0
      <3>1. SUFFICES ASSUME NEW i \in DOMAIN scenes
                     PROVE given(i) \in SceneRecord /\ given(i).cancelled
                           /\ given(i).at # "live" /\ i # 0
        OBVIOUS
      <3>2. CASE scenes[i].mount # mounts
        <4>1. given(i) = scenes[i] /\ i # 0
          BY <2>3, <3>2
        <4>2. scenes[i].cancelled /\ i # current
          BY <2>2, <2>3, <3>2 DEF SceneRecord
        <4> HIDE DEF given
        <4>3. QED BY <2>2, <2>3, <4>1, <4>2
      <3>3. CASE scenes[i].mount = mounts
        <4>1. given(i) = [scenes[i] EXCEPT !.cancelled = TRUE,
                            !.at = IF i = current THEN "gone" ELSE @]
          BY <3>3
        <4>2. scenes[i] \in SceneRecord /\ i # 0 /\ (scenes[i].at = "live" => i = current)
          BY <2>2, <2>3
        <4> HIDE DEF given
        <4>3. QED BY <4>1, <4>2 DEF SceneRecord, SceneStages
      <3>4. QED BY <3>2, <3>3
    <2> HIDE DEF given
    <2>5. scenes' \in [1 .. Len(scenes) -> SceneRecord] /\ DOMAIN scenes' = DOMAIN scenes
          /\ \A i \in DOMAIN scenes' : scenes'[i] = given(i)
      BY <2>1, <2>3, <2>4
    <2>6. scenes' \in Seq(SceneRecord)
      BY <2>3, <2>5, PictureSequences
    <2>7. QED BY <2>1, <2>2, <2>4, <2>5, <2>6 DEF ScenesKept
  <1>4. QED BY <1>1, <1>2, <1>3 DEF PictureInv

\* A scene that is not yet there comes to be something else.
LEMMA SceneBecomes ==
  ASSUME ScenesKept, NEW i \in DOMAIN scenes, scenes[i].at # "live", NEW s \in SceneStages,
         s # "live", scenes' = [scenes EXCEPT ![i].at = s],
         UNCHANGED <<mounts, mounted, current, ready>>
  PROVE  ScenesKept'
PROOF
  <1>1. scenes \in Seq(SceneRecord) /\ DOMAIN scenes = 1 .. Len(scenes) /\ Len(scenes) \in Nat
        /\ \A j \in DOMAIN scenes : scenes[j] \in SceneRecord
    BY DEF ScenesKept
  <1>2. [scenes[i] EXCEPT !.at = s] \in SceneRecord
        /\ [scenes[i] EXCEPT !.at = s].at = s
        /\ [scenes[i] EXCEPT !.at = s].cancelled = scenes[i].cancelled
        /\ [scenes[i] EXCEPT !.at = s].mount = scenes[i].mount
    <2>1. scenes[i] \in SceneRecord
      BY <1>1
    <2>2. QED BY <2>1 DEF SceneRecord
  <1>3. DOMAIN scenes' = DOMAIN scenes /\ scenes'[i] = [scenes[i] EXCEPT !.at = s]
        /\ \A j \in DOMAIN scenes : j # i => scenes'[j] = scenes[j]
    OBVIOUS
  <1>4. scenes' \in [1 .. Len(scenes) -> SceneRecord]
    <2>1. \A j \in DOMAIN scenes : scenes'[j] \in SceneRecord
      BY <1>1, <1>2, <1>3
    <2>2. QED BY <1>1, <1>3, <2>1
  <1>5. scenes' \in Seq(SceneRecord)
    BY <1>1, <1>4, PictureSequences
  <1>6. \A j \in DOMAIN scenes : scenes'[j].cancelled = scenes[j].cancelled
          /\ scenes'[j].mount = scenes[j].mount
          /\ (scenes'[j].at = "live" <=> scenes[j].at = "live")
    BY <1>2, <1>3
  <1>7. QED BY <1>3, <1>5, <1>6 DEF ScenesKept

LEMMA ImportedKeeps ==
  ASSUME PictureInv, NEW i \in DOMAIN scenes, Imported(i) PROVE PictureInv'
PROOF
  <1>1. CameraKept' /\ NewsKept' /\ PaintKept'
    BY CameraStays, NewsStays, PaintStays DEF PictureInv, Imported
  <1>2. scenes[i].at # "live" /\ UNCHANGED <<mounts, mounted, current, ready>> /\ ScenesKept
    BY DEF PictureInv, Imported
  <1>3. PICK s \in SceneStages : s # "live" /\ scenes' = [scenes EXCEPT ![i].at = s]
    <2>1. CASE mounted /\ scenes[i].mount = mounts
      <3>1. scenes' = [scenes EXCEPT ![i].at = "attaching"]
        BY <2>1 DEF Imported
      <3>2. QED BY <3>1 DEF SceneStages
    <2>2. CASE ~(mounted /\ scenes[i].mount = mounts)
      <3>1. scenes' = [scenes EXCEPT ![i].at = "orphaned"]
        BY <2>2 DEF Imported
      <3>2. QED BY <3>1 DEF SceneStages
    <2>3. QED BY <2>1, <2>2
  <1>4. ScenesKept'
    BY <1>2, <1>3, SceneBecomes
  <1>5. QED BY <1>1, <1>4 DEF PictureInv

LEMMA NotAttachedKeeps ==
  ASSUME PictureInv, NEW i \in DOMAIN scenes, NotAttached(i) PROVE PictureInv'
PROOF
  <1>1. CameraKept' /\ NewsKept' /\ PaintKept'
    BY CameraStays, NewsStays, PaintStays DEF PictureInv, NotAttached
  <1>2. scenes[i].at # "live" /\ UNCHANGED <<mounts, mounted, current, ready>> /\ ScenesKept
        /\ scenes' = [scenes EXCEPT ![i].at = "failed"]
    BY DEF PictureInv, NotAttached
  <1>3. "failed" \in SceneStages
    BY DEF SceneStages
  <1>4. ScenesKept'
    BY <1>2, <1>3, SceneBecomes
  <1>5. QED BY <1>1, <1>4 DEF PictureInv

\* A scene that was given up is destroyed when it comes; the other is the only one.
LEMMA AttachedKeeps ==
  ASSUME PictureInv, NEW i \in DOMAIN scenes, Attached(i) PROVE PictureInv'
PROOF
  <1>1. CameraKept' /\ NewsKept'
    BY CameraStays, NewsStays DEF PictureInv, Attached
  <1>2. scenes[i].at = "attaching" /\ ScenesKept /\ PaintKept
    BY DEF PictureInv, Attached
  <1>3. CASE scenes[i].cancelled
    <2>1. PaintKept'
      BY <1>2, <1>3, PaintStays DEF Attached
    <2>2. UNCHANGED <<mounts, mounted, current, ready>> /\ "gone" \in SceneStages
          /\ scenes' = [scenes EXCEPT ![i].at = "gone"]
      BY <1>3 DEF Attached, SceneStages
    <2>3. ScenesKept'
      BY <1>2, <2>2, SceneBecomes
    <2>4. QED BY <1>1, <2>1, <2>3 DEF PictureInv
  <1>4. CASE ~scenes[i].cancelled
    <2>1. /\ scenes' = [scenes EXCEPT ![i].at = "live"] /\ current' = i /\ ready' = TRUE
          /\ UNCHANGED <<mounts, mounted, painted, drawnFor>>
      BY <1>4 DEF Attached
    <2>2. /\ scenes \in Seq(SceneRecord) /\ DOMAIN scenes = 1 .. Len(scenes)
          /\ Len(scenes) \in Nat /\ \A j \in DOMAIN scenes : scenes[j] \in SceneRecord
      BY <1>2 DEF ScenesKept
    <2>3. current = 0 /\ \A j \in DOMAIN scenes : j # i => scenes[j].at # "live"
      <3>1. current # 0 => current = i
        BY <1>2, <1>4 DEF ScenesKept
      <3>2. current # 0 => scenes[current].at = "live"
        BY <1>2 DEF ScenesKept
      <3>3. current = 0
        BY <1>2, <3>1, <3>2
      <3>4. \A j \in DOMAIN scenes : scenes[j].at # "live"
        BY <1>2, <2>2, <3>3 DEF ScenesKept
      <3>5. QED BY <3>3, <3>4
    <2>4. PaintKept'
      <3>1. ~(mounted /\ drawnFor # <<>> /\ drawnFor.ready)
        BY <1>2, <2>3 DEF PaintKept
      <3>2. QED BY <2>1, <3>1 DEF PaintKept
    <2>5. LET s == [scenes[i] EXCEPT !.at = "live"]
          IN  s \in SceneRecord /\ s.at = "live" /\ s.cancelled = scenes[i].cancelled
              /\ s.mount = scenes[i].mount
      <3>1. scenes[i] \in SceneRecord
        BY <2>2
      <3>2. QED BY <3>1 DEF SceneRecord, SceneStages
    <2>6. DOMAIN scenes' = DOMAIN scenes /\ scenes'[i] = [scenes[i] EXCEPT !.at = "live"]
          /\ \A j \in DOMAIN scenes : j # i => scenes'[j] = scenes[j]
      BY <2>1
    <2>7. scenes' \in Seq(SceneRecord)
      <3>1. \A j \in DOMAIN scenes : scenes'[j] \in SceneRecord
        BY <2>2, <2>5, <2>6
      <3>2. scenes' \in [1 .. Len(scenes) -> SceneRecord]
        BY <2>1, <2>2, <2>6, <3>1
      <3>3. QED BY <2>2, <3>2, PictureSequences
    <2>8. \A j \in DOMAIN scenes : scenes'[j].cancelled = scenes[j].cancelled
            /\ scenes'[j].mount = scenes[j].mount
            /\ (scenes'[j].at = "live" <=> j = i)
      BY <2>3, <2>5, <2>6
    <2>9. i \in Nat /\ i # 0
      BY <2>2
    <2>10. ScenesKept'
      <3>1. mounts' \in Nat /\ mounted' \in BOOLEAN /\ current' \in Nat /\ (ready' <=> current' # 0)
        BY <1>2, <2>1, <2>9 DEF ScenesKept
      <3>2. \A j \in DOMAIN scenes' : ~scenes'[j].cancelled => mounted' /\ scenes'[j].mount = mounts'
        BY <1>2, <2>1, <2>6, <2>8 DEF ScenesKept
      <3>3. \A j, k \in DOMAIN scenes' : ~scenes'[j].cancelled /\ ~scenes'[k].cancelled => j = k
        BY <1>2, <2>6, <2>8 DEF ScenesKept
      <3>4. \A j \in DOMAIN scenes' : scenes'[j].at = "live" <=> j = current'
        BY <2>1, <2>6, <2>8
      <3>5. current' \in DOMAIN scenes' /\ ~scenes'[current'].cancelled
        BY <1>4, <2>1, <2>6, <2>8
      <3>6. QED BY <2>7, <3>1, <3>2, <3>3, <3>4, <3>5 DEF ScenesKept
    <2>11. QED BY <1>1, <2>4, <2>10 DEF PictureInv
  <1>5. QED BY <1>3, <1>4

\* What is drawn of is a record, and so not the nothing that no effect has run for.
LEMMA NowIsSomething == Now # <<>> /\ Now.ready = ready
PROOF
  <1>1. "ready" \in DOMAIN Now /\ Now.ready = ready
    BY DEF Now
  <1>2. DOMAIN <<>> = {}
    OBVIOUS
  <1>3. QED BY <1>1, <1>2

\* Who is followed is not a place, so that nothing is said of the floor of a place.
LEMMA PersonIsNoPlace == \A w : ~HasPlace(<<"person", w>>)
  BY DEF HasPlace, RoomAt, AreaAt

LEMMA PlaceOnAFloor ==
  \A e : HasPlace(e) => PlaceIn(e).floor \in Int
PROOF
  <1> SUFFICES ASSUME NEW e, HasPlace(e) PROVE PlaceIn(e).floor \in Int
    OBVIOUS
  <1>1. CASE \E r \in PicturedRooms : e = RoomAt(r)
    <2>1. PICK r \in PicturedRooms : e = RoomAt(r)
      BY <1>1
    <2>2. e[1] = "room" /\ e[2] = r /\ RoomFloor[r] \in Nat
      BY <2>1, PictureAssumption DEF RoomAt
    <2>3. QED BY <2>2 DEF PlaceIn
  <1>2. CASE \E a \in HouseAreas : e = AreaAt(a)
    <2>1. e[1] = "area"
      BY <1>2 DEF AreaAt
    <2>2. QED BY <2>1 DEF PlaceIn
  <1>3. QED BY <1>1, <1>2 DEF HasPlace

LEMMA RunEffectsKeeps == PictureInv /\ RunEffects => PictureInv'
PROOF
  <1> SUFFICES ASSUME PictureInv, RunEffects PROVE PictureInv'
    OBVIOUS
  <1>1. ScenesKept' /\ NewsKept'
    BY ScenesStay, NewsStays DEF PictureInv, RunEffects
  <1>2. PaintKept'
    <2>1. CASE mounted /\ drawnFor # Dependencies
      <3>1. /\ drawnFor' = Now /\ mounted' = mounted /\ current' = current
            /\ (ready /\ current # 0 => painted' = Picture(Now))
        BY <2>1 DEF RunEffects, Dependencies
      <3>2. ready <=> current # 0
        BY DEF PictureInv, ScenesKept
      <3>3. drawnFor'.ready = ready
        BY <3>1, NowIsSomething
      <3>4. PaintKept' <=> (mounted' /\ drawnFor' # <<>> /\ drawnFor'.ready =>
                              current' # 0 /\ painted' = Picture(Now))
        BY <3>1 DEF PaintKept
      <3>5. QED BY <3>1, <3>2, <3>3, <3>4
    <2>2. CASE ~(mounted /\ drawnFor # Dependencies)
      <3>1. painted' = painted /\ mounted' = mounted /\ current' = current
        BY <2>2 DEF RunEffects
      <3>2. mounted => drawnFor' = drawnFor
        BY <2>2 DEF RunEffects
      <3>3. CASE mounted
        BY <3>1, <3>2, <3>3 DEF PictureInv, PaintKept
      <3>4. CASE ~mounted
        BY <3>1, <3>4 DEF PaintKept
      <3>5. QED BY <3>3, <3>4
    <2>3. QED BY <2>1, <2>2
  <1>3. CameraKept'
    <2>1. CASE followedFor = Followed
      <3>1. UNCHANGED <<camera, moved, news, followedFor>>
        BY <2>1 DEF RunEffects
      <3>2. QED BY <3>1, CameraStays DEF PictureInv
    <2>2. CASE followedFor # Followed
      <3>1. camera' = Following /\ moved' = (moved /\ camera.followed = Nothing)
            /\ news' = news /\ CameraKept
        BY <2>2 DEF RunEffects, PictureInv
      <3>2. CASE camera.followed = Nothing
        <4>1. camera' = camera /\ (moved' <=> moved)
          BY <3>1, <3>2 DEF Following
        <4>2. QED BY <3>1, <3>2, <4>1 DEF CameraKept
      <3>3. CASE camera.followed # Nothing
        <4> DEFINE w == camera.followed[2]
                   seen == w \in DOMAIN news.walkers /\ HasPlace(news.walkers[w])
                   where == PlaceIn(news.walkers[w])
        <4>1. /\ ~moved' /\ camera.focused = camera.followed
              /\ ~HasPlace(camera.focused) /\ DOMAIN camera = CameraFields
              /\ camera.floor \in Int /\ \E v : camera.followed = <<"person", v>>
          BY <3>1, <3>3, PersonIsNoPlace DEF CameraKept
        <4>2. CASE ~seen
          <5>1. camera' = camera
            BY <3>1, <3>3, <4>2 DEF Following
          <5>2. QED BY <3>1, <3>3, <4>1, <4>2, <5>1 DEF CameraKept
        <4>3. CASE seen
          <5>1. camera' = [camera EXCEPT !.x = where.x, !.floor = where.floor,
                                         !.focused = camera.followed]
            BY <3>1, <3>3, <4>3 DEF Following, Follows
          <5>2. where.floor \in Int
            BY <4>3, PlaceOnAFloor
          <5> HIDE DEF seen, where
          <5>3. /\ DOMAIN camera' = CameraFields /\ camera'.floor = where.floor
                /\ camera'.x = where.x /\ camera'.followed = camera.followed
                /\ camera'.focused = camera.followed
            BY <4>1, <5>1 DEF CameraFields
          <5> USE DEF seen, where
          <5>4. QED BY <3>1, <3>3, <4>1, <5>2, <5>3 DEF CameraKept
        <4>4. QED BY <4>2, <4>3
      <3>4. QED BY <3>2, <3>3
    <2>3. QED BY <2>1, <2>2
  <1>4. QED BY <1>1, <1>2, <1>3 DEF PictureInv

\* A snapshot is published between the effects of one render and the next.
LEMMA PublishedKeeps ==
  ASSUME PictureInv, NEW snapshot, Published(snapshot),
         DOMAIN snapshot = NewsFields, snapshot.car \in Int,
         DOMAIN snapshot.states = PicturedRooms
  PROVE  PictureInv'
PROOF
  <1>1. ScenesKept' /\ PaintKept'
    BY ScenesStay, PaintStays DEF PictureInv, Published
  <1>2. NewsKept'
    BY DEF NewsKept, Published
  <1>3. CameraKept'
    <2>1. /\ UNCHANGED <<camera, moved, followedFor>> /\ CameraKept
          /\ followedFor = Followed /\ news' # news
      BY DEF Published, EffectsDone, PictureInv
    <2>2. followedFor' # Followed'
      BY <2>1 DEF Followed
    <2>3. QED BY <2>1, <2>2 DEF CameraKept
  <1>4. QED BY <1>1, <1>2, <1>3 DEF PictureInv

LEMMA NewsKeeps ==
  ASSUME PictureInv,
         \/ \E r \in PicturedRooms : RoomBecomes(r) \/ WorksReach(r, "construction")
         \/ \E w \in Walkers : \/ WalkerLeaves(w) \/ WalkerIsAt(w, Street)
                               \/ \E r \in PicturedRooms : WalkerIsAt(w, RoomAt(r))
         \/ HouseIs(110, 3, TRUE)
  PROVE  PictureInv'
PROOF
  <1>1. DOMAIN news = NewsFields /\ news.car \in Int /\ DOMAIN news.states = PicturedRooms
    BY DEF PictureInv, NewsKept
  <1>2. ASSUME NEW r \in PicturedRooms, RoomBecomes(r) PROVE PictureInv'
    <2> DEFINE snapshot ==
          [news EXCEPT !.states[r] = CASE @ = "VacantClean" -> "Occupied"
                                       [] @ = "Occupied" -> "VacantDirty"
                                       [] OTHER -> "VacantClean"]
    <2>1. Published(snapshot)
      BY <1>2 DEF RoomBecomes
    <2>2. DOMAIN snapshot = NewsFields /\ snapshot.car \in Int
          /\ DOMAIN snapshot.states = PicturedRooms
      BY <1>1 DEF NewsFields
    <2> HIDE DEF snapshot
    <2>3. QED BY <2>1, <2>2, PublishedKeeps
  <1>3. ASSUME NEW r \in PicturedRooms, WorksReach(r, "construction") PROVE PictureInv'
    <2> DEFINE snapshot ==
          [news EXCEPT !.works = [q \in {r} |-> "construction"], !.states[r] = "OutOfOrder"]
    <2>1. Published(snapshot)
      BY <1>3 DEF WorksReach
    <2>2. DOMAIN snapshot = NewsFields /\ snapshot.car \in Int
          /\ DOMAIN snapshot.states = PicturedRooms
      BY <1>1 DEF NewsFields
    <2> HIDE DEF snapshot
    <2>3. QED BY <2>1, <2>2, PublishedKeeps
  <1>4. ASSUME NEW w, NEW at, WalkerIsAt(w, at) PROVE PictureInv'
    <2> DEFINE snapshot ==
          [news EXCEPT !.walkers = [v \in DOMAIN @ \cup {w} |-> IF v = w THEN at ELSE @[v]]]
    <2>1. Published(snapshot)
      BY <1>4 DEF WalkerIsAt
    <2>2. DOMAIN snapshot = NewsFields /\ snapshot.car \in Int
          /\ DOMAIN snapshot.states = PicturedRooms
      BY <1>1 DEF NewsFields
    <2> HIDE DEF snapshot
    <2>3. QED BY <2>1, <2>2, PublishedKeeps
  <1>5. ASSUME NEW w, WalkerLeaves(w) PROVE PictureInv'
    <2> DEFINE snapshot == [news EXCEPT !.walkers = [v \in DOMAIN @ \ {w} |-> @[v]]]
    <2>1. Published(snapshot)
      BY <1>5 DEF WalkerLeaves
    <2>2. DOMAIN snapshot = NewsFields /\ snapshot.car \in Int
          /\ DOMAIN snapshot.states = PicturedRooms
      BY <1>1 DEF NewsFields
    <2> HIDE DEF snapshot
    <2>3. QED BY <2>1, <2>2, PublishedKeeps
  <1>6. ASSUME HouseIs(110, 3, TRUE) PROVE PictureInv'
    <2> DEFINE snapshot == [news EXCEPT !.load = 110, !.car = 3, !.night = TRUE]
    <2>1. Published(snapshot)
      BY <1>6 DEF HouseIs
    <2>2. DOMAIN snapshot = NewsFields /\ snapshot.car \in Int
          /\ DOMAIN snapshot.states = PicturedRooms
      BY <1>1 DEF NewsFields
    <2> HIDE DEF snapshot
    <2>3. QED BY <2>1, <2>2, PublishedKeeps
  <1>7. QED BY <1>2, <1>3, <1>4, <1>5, <1>6

\* What the player does with the view alone keeps the floor, or says that it was moved.
LEMMA ViewKeeps ==
  ASSUME PictureInv, NEW view, NEW away, Moves(view, away),
         DOMAIN view = CameraFields, view.floor \in Int,
         view.followed = camera.followed, view.focused = camera.focused,
         away \/ ((away <=> moved) /\ view.floor = camera.floor /\ view.x = camera.x)
  PROVE  PictureInv'
PROOF
  <1>1. ScenesKept' /\ PaintKept' /\ NewsKept'
    BY ScenesStay, PaintStays, NewsStays DEF PictureInv, Moves
  <1>2. /\ camera' = view /\ (moved' <=> away) /\ UNCHANGED <<news, followedFor>> /\ CameraKept
    BY DEF Moves, PictureInv
  <1>3. camera'.followed = camera.followed /\ camera'.focused = camera.focused
        /\ DOMAIN camera' = CameraFields /\ camera'.floor \in Int
    BY <1>2
  <1>4. ~moved' => ~moved /\ camera'.floor = camera.floor /\ camera'.x = camera.x
    BY <1>2
  <1>5. CameraKept'
    BY <1>2, <1>3, <1>4 DEF CameraKept, Followed
  <1>6. QED BY <1>1, <1>5 DEF PictureInv

\* Whatever the player goes to is where the camera is from then on.
LEMMA GoingKeeps ==
  ASSUME PictureInv, NEW entity, NEW place, NEW kind, HasPlace(place),
         Moves(Focused(camera, entity, kind, PlaceIn(place)), FALSE),
         \/ entity = place /\ kind # "person"
         \/ kind = "person" /\ \E w \in DOMAIN news.walkers :
              entity = <<"person", w>> /\ place = news.walkers[w]
  PROVE  PictureInv'
PROOF
  <1>1. ScenesKept' /\ PaintKept' /\ NewsKept'
    BY ScenesStay, PaintStays, NewsStays DEF PictureInv, Moves
  <1> DEFINE where == PlaceIn(place)
  <1>2. /\ camera' = Focused(camera, entity, kind, where)
        /\ moved' = FALSE /\ news' = news /\ DOMAIN camera = CameraFields
    BY DEF Moves, PictureInv, CameraKept
  <1>3. where.floor \in Int
    BY PlaceOnAFloor
  <1> HIDE DEF where
  <1>4. /\ DOMAIN camera' = CameraFields /\ camera'.floor = where.floor
        /\ camera'.x = where.x /\ camera'.focused = entity
        /\ camera'.followed = IF kind = "person" THEN entity ELSE Nothing
    BY <1>2 DEF Focused, CameraFields
  <1>5. CASE entity = place /\ kind # "person"
    <2>1. camera'.followed = Nothing /\ camera'.focused = place
      BY <1>4, <1>5
    <2>2. QED BY <1>1, <1>2, <1>3, <1>4, <2>1 DEF CameraKept, PictureInv, where
  <1>6. CASE kind = "person" /\ \E w \in DOMAIN news.walkers :
               entity = <<"person", w>> /\ place = news.walkers[w]
    <2>1. PICK w \in DOMAIN news.walkers : entity = <<"person", w>> /\ place = news.walkers[w]
      BY <1>6
    <2>2. ~HasPlace(entity) /\ camera'.followed = entity /\ camera'.focused = entity
          /\ entity[2] = w
      BY <1>4, <1>6, <2>1, PersonIsNoPlace
    <2>3. QED BY <1>1, <1>2, <1>3, <1>4, <2>1, <2>2 DEF CameraKept, PictureInv, where
  <1>7. QED BY <1>5, <1>6

LEMMA MovesKeep ==
  ASSUME PictureInv,
         \/ \E up \in BOOLEAN : Wheel(up) \/ PressZoom(up)
         \/ Pan(1)
         \/ \E f \in HouseFloors : ShowFloor(f)
         \/ ToggleCutaway \/ ToggleService
         \/ \E r \in PicturedRooms : ChooseRoom(r)
         \/ \E w \in Walkers : FollowPerson(w)
         \/ \E e \in AlertTargets : GoToProblem(e)
  PROVE  PictureInv'
PROOF
  <1>1. DOMAIN camera = CameraFields /\ camera.floor \in Int
    BY DEF PictureInv, CameraKept
  <1>2. ASSUME NEW zoom, Moves(Zoomed(camera, zoom), moved) PROVE PictureInv'
    <2> DEFINE view == Zoomed(camera, zoom)
    <2>1. DOMAIN view = CameraFields /\ view.floor = camera.floor /\ view.x = camera.x
          /\ view.followed = camera.followed /\ view.focused = camera.focused
      BY <1>1 DEF Zoomed, CameraFields
    <2> HIDE DEF view
    <2>2. Moves(view, moved)
      BY <1>2 DEF view
    <2>3. QED BY <1>1, <2>1, <2>2, ViewKeeps
  <1>4. ASSUME NEW up \in BOOLEAN, Wheel(up) \/ PressZoom(up) PROVE PictureInv'
    BY <1>2, <1>4 DEF Wheel, PressZoom
  <1>5. ASSUME Pan(1) PROVE PictureInv'
    <2> DEFINE view == Panned(camera, 1)
    <2>1. DOMAIN view = CameraFields /\ view.floor = camera.floor
          /\ view.followed = camera.followed /\ view.focused = camera.focused
      BY <1>1 DEF Panned, CameraFields
    <2>2. Moves(view, TRUE)
      BY <1>5 DEF Pan
    <2> HIDE DEF view
    <2>3. QED BY <1>1, <2>1, <2>2, ViewKeeps
  <1>6. ASSUME NEW f \in HouseFloors, ShowFloor(f) PROVE PictureInv'
    <2> DEFINE view == [camera EXCEPT !.floor = f]
    <2>1. DOMAIN view = CameraFields /\ view.floor = f
          /\ view.followed = camera.followed /\ view.focused = camera.focused
      BY <1>1 DEF CameraFields
    <2>2. Moves(view, TRUE) /\ f \in Int
      <3>1. Moves(view, TRUE)
        BY <1>6 DEF ShowFloor
      <3>2. \A r \in PicturedRooms : RoomFloor[r] \in Int
        BY PictureAssumption
      <3>3. f \in Int
        BY <3>2 DEF HouseFloors
      <3>4. QED BY <3>1, <3>3
    <2> HIDE DEF view
    <2>3. QED BY <1>1, <2>1, <2>2, ViewKeeps
  <1>7. ASSUME ToggleCutaway PROVE PictureInv'
    <2> DEFINE view == [camera EXCEPT !.cutaway = ~@]
    <2>1. DOMAIN view = CameraFields /\ view.floor = camera.floor /\ view.x = camera.x
          /\ view.followed = camera.followed /\ view.focused = camera.focused
      BY <1>1 DEF CameraFields
    <2>2. Moves(view, moved)
      BY <1>7 DEF ToggleCutaway
    <2> HIDE DEF view
    <2>3. QED BY <1>1, <2>1, <2>2, ViewKeeps
  <1>8. ASSUME ToggleService PROVE PictureInv'
    <2> DEFINE view == [camera EXCEPT !.service = ~@]
    <2>1. DOMAIN view = CameraFields /\ view.floor = camera.floor /\ view.x = camera.x
          /\ view.followed = camera.followed /\ view.focused = camera.focused
      BY <1>1 DEF CameraFields
    <2>2. Moves(view, moved)
      BY <1>8 DEF ToggleService
    <2> HIDE DEF view
    <2>3. QED BY <1>1, <2>1, <2>2, ViewKeeps
  <1>9. ASSUME NEW r \in PicturedRooms, ChooseRoom(r) PROVE PictureInv'
    <2>1. HasPlace(RoomAt(r))
      BY DEF HasPlace
    <2>2. Moves(Focused(camera, RoomAt(r), "room", PlaceIn(RoomAt(r))), FALSE)
      BY <1>9 DEF ChooseRoom
    <2>3. QED BY <2>1, <2>2, GoingKeeps
  <1>10. ASSUME NEW w \in Walkers, FollowPerson(w) PROVE PictureInv'
    <2>1. w \in DOMAIN news.walkers /\ HasPlace(news.walkers[w])
          /\ Moves(Focused(camera, <<"person", w>>, "person", PlaceIn(news.walkers[w])), FALSE)
      BY <1>10 DEF FollowPerson
    <2>2. QED BY <2>1, GoingKeeps
  <1>11. ASSUME NEW e \in AlertTargets, GoToProblem(e) PROVE PictureInv'
    BY <1>11, GoingKeeps DEF GoToProblem
  <1>12. QED BY <1>4, <1>5, <1>6, <1>7, <1>8, <1>9, <1>10, <1>11

LEMMA LookAtHouseKeeps == PictureInv /\ LookAtHouse => PictureInv'
  BY ScenesStay, PaintStays, NewsStays, CameraStays DEF PictureInv, LookAtHouse

LEMMA PictureStep == PictureInv /\ [PictureNext]_pictureVars => PictureInv'
PROOF
  <1> SUFFICES ASSUME PictureInv, [PictureNext]_pictureVars PROVE PictureInv'
    OBVIOUS
  <1>1. CASE UNCHANGED pictureVars
    <2>1. UNCHANGED <<scenes, mounts, mounted, current, ready>>
          /\ UNCHANGED <<mounted, drawnFor, painted, current>>
          /\ UNCHANGED <<camera, moved, news, followedFor>>
      BY <1>1 DEF pictureVars
    <2>2. QED BY <2>1, ScenesStay, PaintStays, NewsStays, CameraStays DEF PictureInv
  <1>2. CASE OpenView \/ CloseView \/ RunEffects \/ LookAtHouse
    BY <1>2, OpenViewKeeps, CloseViewKeeps, RunEffectsKeeps, LookAtHouseKeeps
  <1>3. CASE \E i \in DOMAIN scenes : Imported(i) \/ Attached(i) \/ NotAttached(i)
    BY <1>3, ImportedKeeps, AttachedKeeps, NotAttachedKeeps
  <1>4. CASE \/ \E r \in PicturedRooms : RoomBecomes(r) \/ WorksReach(r, "construction")
             \/ \E w \in Walkers : \/ WalkerLeaves(w) \/ WalkerIsAt(w, Street)
                                   \/ \E r \in PicturedRooms : WalkerIsAt(w, RoomAt(r))
             \/ HouseIs(110, 3, TRUE)
    BY <1>4, NewsKeeps
  <1>5. CASE \/ \E up \in BOOLEAN : Wheel(up) \/ PressZoom(up)
             \/ Pan(1)
             \/ \E f \in HouseFloors : ShowFloor(f)
             \/ ToggleCutaway \/ ToggleService
             \/ \E r \in PicturedRooms : ChooseRoom(r)
             \/ \E w \in Walkers : FollowPerson(w)
             \/ \E e \in AlertTargets : GoToProblem(e)
    BY <1>5, MovesKeep
  <1>6. QED BY <1>1, <1>2, <1>3, <1>4, <1>5 DEF PictureNext

\* From the invariant: the picture is the newest one, once the effects have run.
LEMMA PictureNewest == PictureInv => PictureIsNewest
PROOF
  <1> SUFFICES ASSUME PictureInv, EffectsDone, Shown PROVE painted = Picture(Now)
    BY DEF PictureIsNewest
  <1>1. mounted /\ current # 0 /\ drawnFor = Now
    BY DEF EffectsDone, Shown, Dependencies
  <1>2. ready
    BY <1>1 DEF PictureInv, ScenesKept
  <1>3. drawnFor # <<>> /\ drawnFor.ready
    BY <1>1, <1>2, NowIsSomething
  <1>4. QED BY <1>1, <1>3 DEF PictureInv, PaintKept

LEMMA PictureOneScene == PictureInv => OneSceneDraws
PROOF
  <1> SUFFICES ASSUME PictureInv PROVE OneSceneDraws
    OBVIOUS
  <1>1. /\ \A i \in DOMAIN scenes : scenes[i].at = "live" <=> i = current
        /\ current # 0 => current \in DOMAIN scenes /\ ~scenes[current].cancelled
        /\ (ready <=> current # 0)
        /\ \A i \in DOMAIN scenes : ~scenes[i].cancelled => mounted /\ scenes[i].mount = mounts
        /\ scenes \in Seq(SceneRecord)
    BY DEF PictureInv, ScenesKept
  <1>2. 0 \notin DOMAIN scenes
    BY <1>1
  <1>3. QED BY <1>1, <1>2 DEF OneSceneDraws

LEMMA PictureFollows == PictureInv => FollowedIsInView
PROOF
  <1> SUFFICES ASSUME PictureInv PROVE FollowedIsInView
    OBVIOUS
  <1> DEFINE w == camera.followed[2]
  <1>1. camera.followed # Nothing => camera.focused = camera.followed
    BY DEF PictureInv, CameraKept
  <1>2. ASSUME EffectsDone, ~moved, camera.followed # Nothing,
               w \in DOMAIN news.walkers, HasPlace(news.walkers[w])
        PROVE  [floor |-> camera.floor, x |-> camera.x] = PlaceIn(news.walkers[w])
    <2>1. followedFor = Followed
      BY <1>2 DEF EffectsDone
    <2>2. /\ camera.floor = PlaceIn(news.walkers[w]).floor
          /\ camera.x = PlaceIn(news.walkers[w]).x
      BY <1>2, <2>1 DEF PictureInv, CameraKept
    <2>3. QED BY <2>2 DEF PlaceIn
  <1>3. QED BY <1>1, <1>2 DEF FollowedIsInView

LEMMA PictureMarked == PictureInv => FocusIsMarked
PROOF
  <1> SUFFICES ASSUME PictureInv, EffectsDone, Shown, flagship, ~moved, HasPlace(camera.focused)
               PROVE  <<"focus", camera.focused>> \in painted.marks
    BY DEF FocusIsMarked
  <1> DEFINE e == camera.focused
  <1>1. painted = Picture(Now)
    BY PictureNewest DEF PictureIsNewest
  <1>2. painted.marks = Marks(Now, RoomsShown(Now))
    BY <1>1 DEF Picture
  <1>3. /\ Now.camera = camera /\ Now.selected = selected
        /\ Now.states = news.states /\ Now.areas = HouseAreas
    BY DEF Now
  <1>4. camera.floor = PlaceIn(e).floor /\ camera.floor \in Int
    BY DEF PictureInv, CameraKept
  <1>5. CASE \E r \in PicturedRooms : e = RoomAt(r)
    <2>1. PICK r \in PicturedRooms : e = RoomAt(r)
      BY <1>5
    <2>2. e[1] = "room" /\ e[2] = r /\ RoomFloor[r] \in Int
      BY <2>1, PictureAssumption DEF RoomAt
    <2>3. camera.floor = RoomFloor[r]
      BY <1>4, <2>2 DEF PlaceIn
    <2>4. r \in RoomsShown(Now)
      BY <1>3, <2>2, <2>3 DEF RoomsShown, VisibleFloor, PictureInv, NewsKept
    <2>5. <<"focus", RoomAt(r)>> \in Marks(Now, RoomsShown(Now))
      BY <1>3, <2>1, <2>4 DEF Marks
    <2>6. QED BY <1>2, <2>1, <2>5
  <1>6. CASE \E a \in HouseAreas : e = AreaAt(a)
    <2>1. PICK a \in HouseAreas : e = AreaAt(a)
      BY <1>6
    <2>2. e[1] = "area"
      BY <2>1 DEF AreaAt
    <2>3. VisibleFloor(0, camera)
      BY <1>4, <2>2 DEF PlaceIn, VisibleFloor
    <2>4. <<"focus", AreaAt(a)>> \in Marks(Now, RoomsShown(Now))
      BY <1>3, <2>1, <2>3 DEF Marks
    <2>5. QED BY <1>2, <2>1, <2>4
  <1>7. QED BY <1>5, <1>6 DEF HasPlace

LEMMA HalfFloors == \A c, f \in Int : (c + 1) \div 2 <= f => c <= 2 * f
  OBVIOUS

\* What a tile, a slab, a mark or a car of the picture is of is on a floor that is left.
LEMMA PictureCut == PictureInv => PictureIsCut
PROOF
  <1> SUFFICES ASSUME PictureInv, EffectsDone, Shown PROVE PictureIsCut
    BY DEF PictureIsCut
  <1> DEFINE hidden == {f \in HouseFloors : camera.cutaway /\ f > camera.floor}
             onShow == RoomsShown(Now)
  <1>1. painted = Picture(Now)
    BY PictureNewest DEF PictureIsNewest
  <1>2. Now.camera = camera /\ Now.works = IF flagship THEN news.works ELSE <<>>
    BY DEF Now
  <1>3. Now.states = (IF flagship THEN news.states ELSE <<>>)
        /\ Now.cars = (IF flagship THEN {news.car} ELSE {})
    BY DEF Now
  <1>4. camera.floor \in Int /\ news.car \in Int /\ DOMAIN news.states = PicturedRooms
    BY DEF PictureInv, CameraKept, NewsKept
  <1>5. \A r \in onShow : r \in PicturedRooms /\ RoomFloor[r] \in Int /\ RoomFloor[r] \notin hidden
    <2>1. \A r \in onShow : r \in PicturedRooms
      <3>1. DOMAIN Now.states \subseteq PicturedRooms
        <4>1. DOMAIN <<>> = {}
          OBVIOUS
        <4>2. QED BY <1>3, <1>4, <4>1
      <3>2. QED BY <3>1 DEF RoomsShown
    <2>2. \A r \in PicturedRooms : RoomFloor[r] \in Int
      BY PictureAssumption
    <2>3. \A r \in onShow : camera.cutaway => RoomFloor[r] <= camera.floor
      BY <1>2 DEF RoomsShown, VisibleFloor
    <2> HIDE DEF onShow
    <2>4. QED BY <1>4, <2>1, <2>2, <2>3
  <1>6. 0 \in Int
    OBVIOUS
  <1>7. \A tile \in painted.tiles : tile[1] \in onShow /\ tile[2] = Now.states[tile[1]]
    <2>1. painted.tiles \subseteq Tiles(Now, onShow)
      BY <1>1 DEF Picture
    <2>2. QED BY <2>1 DEF Tiles
  <1>8. \A slab \in painted.slabs : slab[1] \notin hidden
    <2>1. painted.slabs \subseteq Slabs(Now, onShow)
      BY <1>1 DEF Picture
    <2>2. \A slab \in painted.slabs : \E r \in onShow : slab[1] = RoomFloor[r]
      <3> DEFINE at == {RoomFloor[r] : r \in onShow}
                 worst(f) == Worst({Now.states[r] : r \in {q \in onShow : RoomFloor[q] = f}})
      <3>1. painted.slabs \subseteq {<<f, worst(f)>> : f \in at}
        BY <2>1 DEF Slabs
      <3> HIDE DEF worst
      <3>2. QED BY <3>1
    <2> HIDE DEF hidden, onShow
    <2>3. QED BY <1>5, <2>2
  <1>9. \A mark \in painted.marks : PlaceIn(mark[2]).floor \notin hidden
    <2>1. painted.marks = Marks(Now, onShow)
      BY <1>1 DEF Picture
    <2>2. SUFFICES ASSUME NEW mark \in Marks(Now, onShow)
                   PROVE PlaceIn(mark[2]).floor \notin hidden
      BY <2>1
    <2>3. CASE \E r \in onShow : mark[2] = RoomAt(r)
      <3>1. PICK r \in onShow : mark[2] = RoomAt(r)
        BY <2>3
      <3>2. PlaceIn(mark[2]).floor = RoomFloor[r]
        BY <3>1 DEF PlaceIn, RoomAt
      <3> HIDE DEF hidden, onShow
      <3>3. QED BY <1>5, <3>2
    <2>4. CASE VisibleFloor(0, camera) /\ \E a : mark[2] = AreaAt(a)
      <3>1. PlaceIn(mark[2]).floor = 0
        BY <2>4 DEF PlaceIn, AreaAt
      <3>2. 0 \notin hidden
        BY <1>4, <2>4 DEF VisibleFloor
      <3>3. QED BY <3>1, <3>2
    <2>5. QED BY <1>2, <2>3, <2>4 DEF Marks
  <1>10. \A car \in painted.cars : camera.cutaway => car <= 2 * camera.floor
    <2>1. painted.cars = Cars(Now)
      BY <1>1 DEF Picture
    <2>2. \A car \in painted.cars :
            car \in Int /\ (camera.cutaway => (car + 1) \div 2 <= camera.floor)
      BY <1>2, <1>3, <1>4, <2>1 DEF Cars, VisibleFloor
    <2>3. QED BY <1>4, <2>2, HalfFloors
  <1>11. ASSUME camera.zoom >= PeopleFrom, NEW tile \in painted.tiles, Severity(tile[2]) >= 20
         PROVE  \E concern \in painted.concerns : concern[1] = tile[1]
    <2> DEFINE r == tile[1]
    <2>1. r \in onShow /\ tile[2] = Now.states[r]
      BY <1>7
    <2>2. painted.concerns = Concerns(Now, onShow)
      <3>1. painted.tiles # {}
        OBVIOUS
      <3>2. painted.tiles = IF Now.camera.zoom >= TilesFrom THEN Tiles(Now, onShow) ELSE {}
        BY <1>1 DEF Picture
      <3>3. Now.camera.zoom >= TilesFrom
        BY <3>1, <3>2
      <3>4. QED BY <1>1, <3>3 DEF Picture
    <2>3. CASE r \in DOMAIN Now.works
      <3>1. <<r, Now.works[r]>> \in Concerns(Now, onShow)
        BY <2>1, <2>3 DEF Concerns
      <3>2. QED BY <2>2, <3>1
    <2>4. CASE r \notin DOMAIN Now.works
      <3>1. Now.states[r] = "OutOfOrder" \/ Now.states[r] = "VacantDirty"
        BY <1>11, <2>1 DEF Severity
      <3>2. Concern(Now.states[r]) # "none"
        BY <3>1 DEF Concern
      <3>3. <<r, Concern(Now.states[r])>> \in Concerns(Now, onShow)
        BY <1>2, <1>11, <2>1, <2>4, <3>2 DEF Concerns
      <3>4. QED BY <2>2, <3>3
    <2>5. QED BY <2>3, <2>4
  <1>12. \A tile \in painted.tiles : RoomFloor[tile[1]] \notin hidden
    <2> HIDE DEF hidden, onShow
    <2>1. QED BY <1>5, <1>7
  <1>13. QED BY <1>8, <1>9, <1>10, <1>11, <1>12 DEF PictureIsCut

\* What is drawn of the house is what the newest snapshot says of it, drawn by the one scene
\* of the view that is open, wherever the player went last (HotelView.tsx).
THEOREM PictureIsOfTheHouse == PictureSpec => []PictureHolds
PROOF
  <1>1. PictureInv => PictureHolds
    BY PictureNewest, PictureOneScene, PictureFollows, PictureMarked, PictureCut DEF PictureHolds
  <1>2. QED BY <1>1, PictureStarts, PictureStep, PTL DEF PictureSpec

-----------------------------------------------------------------------------
(* Whichever part is followed.                                             *)

\* The part that is followed stays the one that is followed.
LEMMA OtherThan ==
  ASSUME NEW part
  PROVE  ~(focus = part) /\ [focus' = focus]_focus => ~(focus = part)'
  OBVIOUS

\* Nothing of the house's stock, linen, draw or covers is used twice or lost, whatever is
\* ordered, washed, installed and served (GameSimulation.ts, runHousekeeping, runLaundry,
\* runFacilities; consumption.ts).
THEOREM HouseKeeps == HouseSpec => []HouseRuns
<1>1. ~(focus = "supply") /\ [focus' = focus]_focus => ~(focus = "supply")'
  BY OtherThan
<1>2. ~(focus = "utilities") /\ [focus' = focus]_focus => ~(focus = "utilities")'
  BY OtherThan
<1>3. ~(focus = "facilities") /\ [focus' = focus]_focus => ~(focus = "facilities")'
  BY OtherThan
<1>4. HouseSpec => [](focus = "supply" => SupplyHolds)
  BY <1>1, SupplyIsCountedOnce, PTL DEF HouseSpec, FocusStays
<1>5. HouseSpec => [](focus = "utilities" => UtilitiesAgree)
  BY <1>2, EfficiencyStaysInTheHouse, PTL DEF HouseSpec, FocusStays
<1>6. HouseSpec => [](focus = "facilities" => FacilitiesHold)
  BY <1>3, FacilitiesAreShared, PTL DEF HouseSpec, FocusStays
<1>7. (focus = "supply" => SupplyHolds) /\ (focus = "utilities" => UtilitiesAgree)
        /\ (focus = "facilities" => FacilitiesHold) => HouseRuns
  BY DEF HouseRuns
<1>8. QED BY <1>4, <1>5, <1>6, <1>7, PTL
=============================================================================
