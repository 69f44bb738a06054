------------------------------ MODULE Screens -------------------------------
(***************************************************************************)
(* The pages of the web client as QueryCache sees them: their keys, what    *)
(* each shows, and what each save changes on the server and tells the cache.*)
(***************************************************************************)
EXTENDS QueryCache, StudentsWeb, ClassesWeb, BillingWeb, StaffWeb, FacilitiesWeb, SettingsWeb, ServerTables

(* The counts beside the menu, on every page. *)
SidebarHooks ==
    [pendingApprovalsCount      |-> Query(Pending("count"), "getPendingApprovals"),
     staffPendingApprovalsCount |-> Query(PendingStaff("count"), "getPendingStaffApprovals"),
     rentPendingApprovalsCount  |-> Query(PendingRent("count"), "getPendingRentApprovals")]
SidebarReads == {Use(h, NoId) : h \in DOMAIN SidebarHooks}

Hooks ==
    StudentsHooks @@ ClassesHooks @@ BillingHooks @@ StaffHooks @@ FacilitiesHooks @@ SettingsHooks
        @@ SidebarHooks
Calls ==
    StudentsCalls @@ ClassesCalls @@ BillingCalls @@ StaffCalls @@ FacilitiesCalls @@ SettingsCalls
Screen ==
    StudentsPages @@ ClassesPages @@ BillingPages @@ StaffPages @@ FacilitiesPages @@ SettingsPages

(* The tables are parameters below, so that TLC unfolds each of them once.  *)
KeyOf(u, hooks) == At(hooks[u.hook].key, u.kind)
ReadsOf(screen, hooks) == [p \in DOMAIN screen |-> {KeyOf(u, hooks) : u \in screen[p].reads}]
ScreenReads == ReadsOf(Screen, Hooks) @@ (Elsewhere :> {})
LayoutOf(hooks) == {KeyOf(u, hooks) : u \in SidebarReads}
ScreenLayout == LayoutOf(Hooks)
ScreenPages == DOMAIN Screen \cup {Elsewhere}

(* The tables behind every answer; its domain are the keys. *)
UsesOf(screen) == UNION {screen[p].reads : p \in DOMAIN screen} \cup SidebarReads
AnswersTo(uses, hooks, calls) ==
    {<<KeyOf(u, hooks), Serves[calls[hooks[u.hook].call]]>> : u \in uses}
ByKey(answers) ==
    [k \in {a[1] : a \in answers} |-> UNION {a[2] : a \in {b \in answers : b[1] = k}}]
Behinds == ByKey(AnswersTo(UsesOf(Screen), Hooks, Calls))
ScreenKeys == DOMAIN Behinds

Matching(marks, kind, keys) == {k \in keys : \E m \in marks : IsPrefix(At(m, kind), k)}

StepOf(u, m, written, behinds) ==
    LET keys == DOMAIN behinds
    IN  [hook |-> u.hook, call |-> m.call,
         changes |-> {k \in keys : behinds[k] \cap written # {}},
         marks |-> Matching(m.marks \cup u.also, u.kind, keys),
         drops |-> Matching(m.drops, u.kind, keys),
         puts |-> Matching(m.puts, u.kind, keys)]

SavesOf(screen, hooks, calls, behinds) ==
    LET Named(p, n) == CHOOSE v \in screen[p].saves : v.name = n
        Chain(v) == [i \in DOMAIN v.steps |->
                        LET u == v.steps[i] IN
                        StepOf(u, hooks[u.hook], Writes[calls[hooks[u.hook].call]], behinds)]
        AsSave(v) == [steps |-> Chain(v), guard |-> v.guard, after |-> v.after]
    IN  [p \in DOMAIN screen |-> [n \in {v.name : v \in screen[p].saves} |-> AsSave(Named(p, n))]]
ScreenSaves == SavesOf(Screen, Hooks, Calls, Behinds) @@ (Elsewhere :> <<>>)

NearBy(keys, reads, saves) ==
    LET Touched(p, k) == \E n \in DOMAIN saves[p] : SaveTouches(saves[p][n], k)
    IN  [k \in keys |-> {Elsewhere} \cup {p \in DOMAIN reads : k \in reads[p] \/ Touched(p, k)}]
ScreenNear == NearBy(ScreenKeys, ScreenReads, ScreenSaves)

(***************************************************************************)
(* The answers a request makes old and its hook leaves alone: those of      *)
(* another feature, those its deletion cascades to or empties, and those    *)
(* the page names by a number and the page that shows them by the text of   *)
(* its address.                                                             *)
(***************************************************************************)
ClassOld == <<"classes", "detail", Text>>
InvoiceOld == <<"invoices", "detail", Text>>
CoachPages == {<<"coaches", "list">>, <<"coaches", "detail", Text>>, <<"coaches", "detail", Num>>}
ApprovalsOld == {Pending("list"), Pending("count")}
StaffApprovalsOld == {PendingStaff("list"), PendingStaff("count")}
RentApprovalsOld == {PendingRent("list"), PendingRent("count")}
ManagedCoaches == Users("coaches-for-management")
ManagedParents == Users("parents-for-management")
ScheduleOld(part, kind) == <<"invoice-schedules", part, kind>>
ParentList == <<"parents", "list">>

PortalStudent == <<"portal-student", Num>>
StudentShown == {PortalStudent, EnrollmentList, ClassOld, ThisUser}
StudentGaps ==
    [createStudent    |-> {ParentList, ManagedParents, ThisUser, ClassList, ClassOld, EnrollmentList},
     updateStudent    |-> StudentShown \cup {<<"students", "detail", Text>>},
     deleteStudent    |-> StudentShown,
     patchPortalStudent |-> {<<"students", "detail", Text>>},
     commitBulkImport |-> {<<"students", "list">>, ParentList, <<"coaches", "list">>, ManagedCoaches,
                           ManagedParents, ThisUser}]
ClassGaps ==
    [createClass      |-> CoachPages,
     updateClass      |-> CoachPages \cup {ClassOld},
     deleteClass      |-> CoachPages \cup ApprovalsOld
                            \cup {ClassOld, EnrollmentList, <<"attendance", "list">>,
                                  <<"coach-attendance", "list">>, Schedules("list"),
                                  ScheduleOld("detail", Text), ScheduleOld("overrides", Text),
                                  ScheduleOld("runs", Num), PaySchedules, At(PaySchedule("detail"), Text)},
     createEnrollment |-> {ClassList},
     updateEnrollment |-> {ClassList, ClassOld},
     deleteEnrollment |-> {ClassOld}]
BillingGaps ==
    [updateInvoice |-> ApprovalsOld \cup {InvoiceOld},
     deleteInvoice |-> ApprovalsOld \cup {ReceiptList, At(ReceiptDetail, Text)},
     createReceipt |-> ApprovalsOld \cup {InvoiceOld},
     updateReceipt |-> {InvoiceList, InvoiceOld, At(ReceiptDetail, Text)},
     deleteReceipt |-> {InvoiceList, InvoiceOld, At(ReceiptDetail, Text)}]
ScheduleGaps ==
    [toggleInvoiceScheduleActive |-> {ScheduleOld("detail", Text)},
     deleteInvoiceSchedule       |-> ApprovalsOld \cup {ScheduleOld("detail", Text), ScheduleOld("overrides", Text)},
     runInvoiceSchedule          |-> {InvoiceList, ScheduleOld("detail", Text)},
     bulkIssuePendingApprovals   |-> {InvoiceList, InvoiceOld}]
StaffGaps ==
    [createCoach |-> {ManagedCoaches}, updateCoach |-> {ManagedCoaches}, deleteCoach |-> {ManagedCoaches},
     toggleStaffPayScheduleActive   |-> {At(PaySchedule("detail"), Text)},
     deleteStaffPaySchedule         |-> StaffApprovalsOld \cup {At(PaySchedule("detail"), Text)},
     runStaffPaySchedule            |-> {StaffInvoices, At(PaySchedule("detail"), Text)},
     bulkIssuePendingStaffApprovals |-> {StaffInvoices}]
FacilitiesGaps ==
    [updateRentInvoice      |-> RentApprovalsOld,
     deleteRentInvoice      |-> RentApprovalsOld \cup {Facilities("rent-receipts")},
     addRentInvoicePayment  |-> RentApprovalsOld,
     markRentInvoicePaid    |-> RentApprovalsOld,
     deleteRentPaySchedule  |-> RentApprovalsOld,
     runRentPaySchedule     |-> {Facilities("rent-invoices")},
     bulkIssueRentApprovals |-> {Facilities("rent-invoices")},
     deleteBill             |-> {Facilities("bill-line-items")},
     deleteInventoryItem    |-> {Facilities("bills"), Facilities("bill-line-items")}]
AtPlaces == {ClassList, ClassOld, InvoiceList, InvoiceOld, ReceiptList, At(ReceiptDetail, Text)}
SettingsGaps ==
    [deleteLocation |-> AtPlaces \cup {Facilities("rent-configs"), RentSchedules, At(RentSchedule("detail"), Num),
                                      At(RentSchedule("runs"), Num), ThisUser},
     deleteSport    |-> AtPlaces,
     updateCurrentAccount |-> {Users("list"), ThisUser},
     updateUser     |-> {ParentList, ManagedCoaches, ManagedParents, ThisUser},
     resendInvite   |-> {ThisUser},
     inviteStaffCoach |-> {<<"coaches", "detail", Text>>, <<"coaches", "detail", Num>>}]

GapsOf ==
    StudentGaps @@ ClassGaps @@ BillingGaps @@ ScheduleGaps @@ StaffGaps @@ FacilitiesGaps @@ SettingsGaps
KnownGaps == UNION {{call} \X GapsOf[call] : call \in DOMAIN GapsOf}

(* The switches of a row that turn a pay or rent schedule on and off. *)
KnownUnguarded == {"useToggleStaffPayScheduleActive", "toggle rent schedule"}
=============================================================================
