---------------------------- MODULE ServerTables ----------------------------
(***************************************************************************)
(* What the views of the backend read and change, by endpoint.  `Serves`:   *)
(* the tables of an answer's own rows, and of the rows it selects by, lists *)
(* or counts; what it repeats of the record such a row refers to (a name, a *)
(* currency, a nested detail) is left out.  `Writes`: the tables a request  *)
(* changes before it is answered, what its deletion cascades to or empties  *)
(* included; not the audit log, nor what a background task does later, nor  *)
(* what the user who sends it has no page for.                              *)
(*                                                                         *)
(* Some tables are told apart by columns, for answers that report only      *)
(* those: "Draft", "StaffDraft" and "RentDraft" are the drafts made by a    *)
(* schedule, "Roster" which students are active, "StudentCare" what a       *)
(* student's portal page shows, "Places" the sport and the location that    *)
(* classes, invoices and receipts lose when these are deleted, "CoachPlace" *)
(* the location of a coach's account, "CoachLogin" which account a coach    *)
(* has.                                                                     *)
(***************************************************************************)
EXTENDS TLC

(* A list reports the rows there are and what is in them, one row only the   *)
(* latter.                                                                   *)
New(tables) == {"new"} \X tables
Old(tables) == {"old"} \X tables
Rows(tables) == {"new", "old"} \X tables

(* Every list of students, and every list of their enrollments, leaves out   *)
(* the inactive ones, and deleting a student only makes it inactive.         *)
StudentServes ==
    ("GET students" :> Rows({"Student"}))
    @@ ("GET student" :> Old({"Student", "StudentCare"}))
    @@ ("GET parents" :> Rows({"Parent"}))
    @@ ("GET parent" :> Old({"Parent"})) @@ ("GET portal student" :> Old({"StudentCare"}))
OfStudent == {"Student", "StudentCare", "Roster"}
StudentWrites ==
    ("POST students" :> New({"Student", "Parent", "ParentUser", "Enrollment"}))
    @@ ("PATCH student" :> Old(OfStudent))
    @@ ("DELETE student" :> Old(OfStudent)) @@ ("PATCH portal student" :> Old({"StudentCare"}))

(* A list of classes counts the students of each, one class lists them.     *)
ClassServes ==
    ("GET classes" :> Rows({"Class", "Enrollment"}) \cup Old({"Places"}))
    @@ ("GET class" :> Old({"Class", "Places", "Roster"}) \cup Rows({"Enrollment"}))
    @@ ("GET enrollments" :> Rows({"Enrollment"}) \cup Old({"Roster"}))
    @@ ("GET enrollment" :> Old({"Enrollment", "Roster"}))
OfClass ==
    {"Enrollment", "Attendance", "CoachAttendance", "Schedule", "ScheduleRun", "Override", "Draft",
     "PaySchedule"}
ClassWrites ==
    ("POST classes" :> New({"Class"})) @@ ("PATCH class" :> Old({"Class"}))
    @@ ("DELETE class" :> Old({"Class"} \cup OfClass))
    @@ ("POST enroll" :> New({"Enrollment"})) @@ ("POST enrollments" :> New({"Enrollment"}))
    @@ ("PATCH enrollment" :> Old({"Enrollment"})) @@ ("DELETE enrollment" :> Old({"Enrollment"}))

AttendanceServes ==
    ("GET attendance" :> Rows({"Attendance"}))
    @@ ("GET coach-attendance" :> Rows({"CoachAttendance"}))
AttendanceWrites ==
    ("POST attendance/mark" :> Rows({"Attendance"}))
    @@ ("POST coach-attendance/mark" :> Rows({"CoachAttendance"}))

(* An invoice reports what has been paid; a receipt brings its status up to  *)
(* date when it is made, not when it is changed or deleted.                  *)
BillingServes ==
    ("GET items" :> Rows({"Item"}))
    @@ ("GET invoices" :> Rows({"Invoice", "Receipt", "NotificationLog"}) \cup Old({"Places"}))
    @@ ("GET invoice" :> Old({"Invoice", "Places"}) \cup Rows({"Receipt", "NotificationLog"}))
    @@ ("GET receipts" :> Rows({"Receipt"}) \cup Old({"Places"}))
    @@ ("GET receipt" :> Old({"Receipt", "Places"}) \cup Rows({"NotificationLog"}))
    @@ ("GET invoice logs" :> Rows({"NotificationLog"}))
    @@ ("GET receipt logs" :> Rows({"NotificationLog"}))
    @@ ("GET invoice pdf" :> {}) @@ ("GET receipt pdf" :> {})
BillingWrites ==
    ("POST items" :> New({"Item"})) @@ ("PATCH item" :> Old({"Item"}))
    @@ ("DELETE item" :> Old({"Item"}))
    @@ ("POST invoices" :> New({"Invoice"})) @@ ("PATCH invoice" :> Old({"Invoice", "Draft"}))
    @@ ("DELETE invoice" :> Old({"Invoice", "Draft", "Receipt"}))
    @@ ("POST receipts" :> New({"Receipt"}) \cup Old({"Invoice", "Draft"}))
    @@ ("PATCH receipt" :> Old({"Receipt"}))
    @@ ("DELETE receipt" :> Old({"Receipt"}))
    @@ ("POST invoice resend" :> {}) @@ ("POST receipt resend" :> {})

(* Deleting a schedule takes its drafts off the list of pending approvals.   *)
ScheduleServes ==
    ("GET schedules" :> Rows({"Schedule"})) @@ ("GET schedule" :> Old({"Schedule"}))
    @@ ("GET schedule runs" :> Rows({"ScheduleRun"})) @@ ("GET overrides" :> Rows({"Override"}))
    @@ ("GET pending" :> Rows({"Draft"}))
ScheduleWrites ==
    ("POST schedules" :> New({"Schedule"})) @@ ("PATCH schedule" :> Old({"Schedule"}))
    @@ ("DELETE schedule" :> Old({"Schedule", "ScheduleRun", "Override", "Draft"}))
    @@ ("POST schedule/toggle" :> Old({"Schedule"}))
    @@ ("POST schedule/run" :> Old({"Schedule"}) \cup New({"ScheduleRun", "Draft", "Invoice"}))
    @@ ("POST overrides" :> New({"Override"})) @@ ("PATCH override" :> Old({"Override"}))
    @@ ("DELETE override" :> Old({"Override"}))
    @@ ("POST pending/issue" :> Old({"Invoice", "Draft"}))

(* A coach reports how many classes they have. *)
StaffServes ==
    ("GET coaches" :> Rows({"Coach", "Class"}))
    @@ ("GET coach" :> Old({"Coach", "CoachLogin"}) \cup Rows({"Class"}))
    @@ ("GET pay-schemes" :> Rows({"PayScheme"}))
    @@ ("GET staff-invoices" :> Rows({"StaffInvoice"}))
    @@ ("GET staff-receipts" :> Rows({"StaffReceipt"}))
    @@ ("GET pay-schedules" :> Rows({"PaySchedule"}))
    @@ ("GET pay-schedule" :> Old({"PaySchedule"}))
    @@ ("GET pay-schedule runs" :> Rows({"PayRun"}))
    @@ ("GET pending-staff" :> Rows({"StaffDraft"}))
StaffWrites ==
    ("POST coaches" :> New({"Coach"})) @@ ("PATCH coach" :> Old({"Coach"}))
    @@ ("DELETE coach" :> Old({"Coach"}))
    @@ ("POST pay-schemes" :> New({"PayScheme"})) @@ ("PATCH pay-scheme" :> Old({"PayScheme"}))
    @@ ("DELETE pay-scheme" :> Old({"PayScheme"}))
    @@ ("POST coach-payments" :> New({"StaffReceipt"}))
    @@ ("POST staff-invoices" :> New({"StaffInvoice"}))
    @@ ("PATCH staff-invoice" :> Old({"StaffInvoice", "StaffDraft"}))
PayScheduleWrites ==
    ("POST pay-schedules" :> New({"PaySchedule"})) @@ ("PATCH pay-schedule" :> Old({"PaySchedule"}))
    @@ ("DELETE pay-schedule" :> Old({"PaySchedule", "PayRun", "StaffDraft"}))
    @@ ("POST pay-schedule/toggle" :> Old({"PaySchedule"}))
    @@ ("POST pay-schedule/run" :> Old({"PaySchedule"}) \cup New({"PayRun", "StaffInvoice", "StaffDraft"}))
    @@ ("POST pending-staff/issue" :> Old({"StaffInvoice", "StaffDraft"}))

RentServes ==
    ("GET rent-configs" :> Rows({"RentConfig"})) @@ ("GET rent-invoices" :> Rows({"RentInvoice"}))
    @@ ("GET rent-receipts" :> Rows({"RentReceipt"}))
    @@ ("GET rent-schedules" :> Rows({"RentSchedule"}))
    @@ ("GET rent-schedule" :> Old({"RentSchedule"}))
    @@ ("GET rent-schedule runs" :> Rows({"RentRun"}))
    @@ ("GET pending-rent" :> Rows({"RentDraft"}))
OfRentInvoice == {"RentInvoice", "RentDraft", "RentReceipt"}
RentPayment == Old({"RentInvoice", "RentDraft"}) \cup New({"RentReceipt"})
RentWrites ==
    ("POST rent-configs" :> New({"RentConfig"})) @@ ("PATCH rent-config" :> Old({"RentConfig"}))
    @@ ("DELETE rent-config" :> Old({"RentConfig"}))
    @@ ("POST rent-invoices" :> New({"RentInvoice"}))
    @@ ("PATCH rent-invoice" :> Old({"RentInvoice", "RentDraft"}))
    @@ ("DELETE rent-invoice" :> Old(OfRentInvoice)) @@ ("POST rent-invoice/paid" :> RentPayment)
    @@ ("POST rent-invoice/payment" :> RentPayment)
RentScheduleWrites ==
    ("POST rent-schedules" :> New({"RentSchedule"}))
    @@ ("PATCH rent-schedule" :> Old({"RentSchedule"}))
    @@ ("DELETE rent-schedule" :> Old({"RentSchedule", "RentRun", "RentDraft"}))
    @@ ("POST rent-schedule/toggle" :> Old({"RentSchedule"}))
    @@ ("POST rent-schedule/run" :> Old({"RentSchedule"}) \cup New({"RentRun", "RentInvoice", "RentDraft"}))
    @@ ("POST pending-rent/issue" :> Old({"RentInvoice", "RentDraft"}))

(* A bill shows its lines; a line moves stock, and loses its item with it.   *)
BillServes ==
    ("GET bills" :> Rows({"Bill", "BillLine"})) @@ ("GET bill-lines" :> Rows({"BillLine"}))
    @@ ("GET inventory" :> Rows({"Inventory"}))
LineMoves == {"BillLine", "Bill", "Inventory"}
BillWrites ==
    ("POST bills" :> New({"Bill"})) @@ ("PATCH bill" :> Old({"Bill"}))
    @@ ("DELETE bill" :> Old({"Bill", "BillLine"}))
    @@ ("POST bill/paid" :> Old({"Bill"}))
    @@ ("POST bill-lines" :> New({"BillLine"}) \cup Old({"Bill", "Inventory"}))
    @@ ("PATCH bill-line" :> Old(LineMoves))
    @@ ("DELETE bill-line" :> Old(LineMoves))
    @@ ("POST inventory" :> New({"Inventory"})) @@ ("PATCH inventory" :> Old({"Inventory"}))
    @@ ("DELETE inventory" :> Old({"Inventory", "BillLine"})) @@ ("POST inventory/adjust" :> Old({"Inventory"}))

(* A location takes its rent with it when it is deleted; what else was at a  *)
(* place keeps none.                                                         *)
MasterServes ==
    ("GET locations" :> Rows({"Location"})) @@ ("GET sports" :> Rows({"Sport"}))
    @@ ("GET ages" :> Rows({"Age"}))
    @@ ("GET terms" :> Rows({"Term"}))
OfLocation == {"RentConfig", "RentSchedule", "RentRun", "Places", "CoachPlace"}
MasterWrites ==
    ("POST locations" :> New({"Location"})) @@ ("PATCH location" :> Old({"Location"}))
    @@ ("DELETE location" :> Old({"Location"} \cup OfLocation))
    @@ ("POST sports" :> New({"Sport"})) @@ ("PATCH sport" :> Old({"Sport"}))
    @@ ("DELETE sport" :> Old({"Sport", "Places"}))
    @@ ("POST ages" :> New({"Age"})) @@ ("PATCH age" :> Old({"Age"}))
    @@ ("DELETE age" :> Old({"Age"}))
    @@ ("POST terms" :> New({"Term"})) @@ ("PATCH term" :> Old({"Term"}))
    @@ ("DELETE term" :> Old({"Term"}))

(* The usage of an academy is counted by a task; an account is a user too.   *)
AcademyServes ==
    ("GET account" :> Old({"Account"})) @@ ("GET academy" :> Old({"Academy"}))
    @@ ("GET tax" :> Old({"Tax"}))
    @@ ("GET subscription" :> Old({"Subscription"})) @@ ("GET usage" :> Old({"Usage"}))
    @@ ("GET import schema" :> {})
AcademyWrites ==
    ("PATCH account" :> Old({"Account", "StaffUser"})) @@ ("POST password" :> {})
    @@ ("PATCH academy" :> Old({"Academy"}))
    @@ ("PATCH tax" :> Old({"Tax"})) @@ ("POST import preview" :> {})
    @@ ("POST import" :> New({"Student", "Parent", "Coach"}))

(* The lists of the user management join users with the coaches and parents  *)
(* that have no account yet; one user lists the children of a parent.        *)
AnyUser == {"StaffUser", "CoachUser", "ParentUser"}
UserServes ==
    ("GET users" :> Rows({"StaffUser"}))
    @@ ("GET user" :> Old(AnyUser \cup {"Parent", "CoachPlace"}) \cup Rows({"Student"}))
    @@ ("GET managed coaches" :> Rows({"CoachUser", "Coach"}))
    @@ ("GET managed parents" :> Rows({"ParentUser", "Parent"}))
UserWrites ==
    ("POST users" :> New(AnyUser)) @@ ("PATCH user" :> Old(AnyUser \cup {"Parent"}))
    @@ ("POST resend" :> Old(AnyUser))
    @@ ("POST invite coach" :> New({"CoachUser"}) \cup Old({"CoachLogin"}))
    @@ ("POST invite parent" :> New({"ParentUser"}))

Serves ==
    StudentServes @@ ClassServes @@ AttendanceServes @@ BillingServes @@ ScheduleServes @@ StaffServes
        @@ RentServes @@ BillServes @@ MasterServes @@ AcademyServes @@ UserServes
Writes ==
    StudentWrites @@ ClassWrites @@ AttendanceWrites @@ BillingWrites @@ ScheduleWrites @@ StaffWrites
        @@ PayScheduleWrites @@ RentWrites @@ RentScheduleWrites @@ BillWrites @@ MasterWrites
        @@ AcademyWrites @@ UserWrites
=============================================================================
