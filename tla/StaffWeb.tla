------------------------------ MODULE StaffWeb ------------------------------
(* Coaches, their pay and their pay schedules (features/tenant/staff and    *)
(* features/tenant/coaches).                                                *)
EXTENDS WebKit

CoachCalls ==
    [getCoaches |-> "GET coaches", getCoach |-> "GET coach", createCoach |-> "POST coaches",
     updateCoach |-> "PATCH coach", deleteCoach |-> "DELETE coach"]
PaySchemeCalls ==
    [getCoachPaySchemes |-> "GET pay-schemes", createCoachPayScheme |-> "POST pay-schemes",
     updateCoachPayScheme |-> "PATCH pay-scheme", deleteCoachPayScheme |-> "DELETE pay-scheme"]
StaffPaymentCalls ==
    [createCoachPayment |-> "POST coach-payments", getStaffInvoices |-> "GET staff-invoices",
     createStaffInvoice |-> "POST staff-invoices", getStaffReceipts |-> "GET staff-receipts"]
PayScheduleCalls ==
    [getStaffPaySchedules |-> "GET pay-schedules", getStaffPaySchedule |-> "GET pay-schedule",
     createStaffPaySchedule |-> "POST pay-schedules", updateStaffPaySchedule |-> "PATCH pay-schedule",
     deleteStaffPaySchedule |-> "DELETE pay-schedule",
     toggleStaffPayScheduleActive |-> "POST pay-schedule/toggle",
     runStaffPaySchedule |-> "POST pay-schedule/run", getStaffPayScheduleRuns |-> "GET pay-schedule runs",
     getPendingStaffApprovals |-> "GET pending-staff",
     bulkIssuePendingStaffApprovals |-> "POST pending-staff/issue",
     patchStaffInvoiceStatus |-> "PATCH staff-invoice"]

Coaches == <<"coaches">>
CoachHooks ==
    [useCoaches     |-> Query(<<"coaches", "list">>, "getCoaches"),
     useCoach       |-> Query(<<"coaches", "detail", Id>>, "getCoach"),
     useCreateCoach |-> Mutation("createCoach", {Coaches}),
     useUpdateCoach |-> Mutation("updateCoach", {Coaches}),
     useDeleteCoach |-> Mutation("deleteCoach", {Coaches})]

PaySchemes == <<"coach-pay-schemes">>
PaySchemeHooks ==
    [useCoachPaySchemes      |-> Query(<<"coach-pay-schemes", "list">>, "getCoachPaySchemes"),
     useCreateCoachPayScheme |-> Mutation("createCoachPayScheme", {PaySchemes, Coaches}),
     useUpdateCoachPayScheme |-> Mutation("updateCoachPayScheme", {PaySchemes, Coaches}),
     useDeleteCoachPayScheme |-> Mutation("deleteCoachPayScheme", {PaySchemes, Coaches})]

StaffInvoices == <<"staff-invoices">>
StaffReceipts == <<"staff-receipts">>
StaffPaymentHooks ==
    [useCreateCoachPayment |->
         Mutation("createCoachPayment", {<<"coach-payments">>, StaffReceipts, StaffInvoices}),
     useStaffInvoices      |-> Query(StaffInvoices, "getStaffInvoices"),
     useCreateStaffInvoice |-> Mutation("createStaffInvoice", {StaffInvoices}),
     useStaffReceipts      |-> Query(StaffReceipts, "getStaffReceipts")]

PaySchedules == <<"staff-pay-schedules", "list">>
PaySchedule(part) == <<"staff-pay-schedules", part, Id>>
PendingStaff(part) == <<"staff-pending-approvals", part>>
PayScheduleHooks ==
    [useStaffPaySchedules      |-> Query(PaySchedules, "getStaffPaySchedules"),
     useStaffPaySchedule       |-> Query(PaySchedule("detail"), "getStaffPaySchedule"),
     useCreateStaffPaySchedule |-> Mutation("createStaffPaySchedule", {PaySchedules}),
     useUpdateStaffPaySchedule |-> Mutation("updateStaffPaySchedule", {PaySchedules, PaySchedule("detail")}),
     useDeleteStaffPaySchedule |-> Removal("deleteStaffPaySchedule", {PaySchedules},
                                     {PaySchedule("detail"), PaySchedule("runs")})]
(* The toggle also rewrites the cached lists before the request is sent, and *)
(* puts them back when it fails.                                             *)
PayScheduleToggle ==
    [useToggleStaffPayScheduleActive |->
         Mutation("toggleStaffPayScheduleActive", {PaySchedules, PaySchedule("detail")})]
PayScheduleRunHooks ==
    [useRunStaffPaySchedule |->
         Mutation("runStaffPaySchedule",
           {PaySchedules, PaySchedule("detail"), PaySchedule("runs"), PendingStaff("list"),
            PendingStaff("count")}),
     useStaffPayScheduleRuns |-> Query(PaySchedule("runs"), "getStaffPayScheduleRuns")]
PendingStaffHooks ==
    [usePendingStaffApprovals |-> Query(PendingStaff("list"), "getPendingStaffApprovals"),
     useBulkIssuePendingStaffApprovals |->
         Mutation("bulkIssuePendingStaffApprovals", {PendingStaff("list"), PendingStaff("count")}),
     useCancelStaffInvoice |->
         Mutation("patchStaffInvoiceStatus", {PendingStaff("list"), PendingStaff("count"), StaffInvoices})]

----------------------------------------------------------------------------
(* The staff page: coaches, salaries, invoices, receipts, attendance.  A     *)
(* save closes the dialog that is open by the time it is answered.           *)
OneOf(hooks, kind, also) ==
    {Save(h, <<UseAnd(h, kind, also)>>, hooks, Closes) : h \in hooks}
SaveCoach == OneOf({"useCreateCoach", "useUpdateCoach"}, Num, {<<"coaches", "list">>})
DeleteCoach == OneOf({"useDeleteCoach"}, Num, {<<"coaches", "list">>})
SavePayScheme ==
    OneOf({"useCreateCoachPayScheme", "useUpdateCoachPayScheme"}, Num, {<<"coach-pay-schemes", "list">>})
DeletePayScheme == OneOf({"useDeleteCoachPayScheme"}, Num, {<<"coach-pay-schemes", "list">>})
RecordPayment == OneOf({"useCreateCoachPayment"}, NoId, {StaffReceipts})
CreateStaffInvoice == OneOf({"useCreateStaffInvoice"}, NoId, {StaffInvoices})
RecordPayments == Batch("record payments", "useCreateCoachPayment", NoId, {StaffReceipts, StaffInvoices})
StaffPage ==
    Page({Use("useCoaches", NoId), Use("useCoach", Num), Use("useCoachPaySchemes", NoId),
          Use("useStaffInvoices", NoId), Use("useStaffReceipts", NoId), Use("useCoachAttendance", NoId)},
         SaveCoach \cup DeleteCoach \cup SavePayScheme \cup DeletePayScheme \cup RecordPayment
             \cup CreateStaffInvoice \cup {RecordPayments})

CoachFields ==
    {"first_name", "last_name", "email", "phone", "specialization", "certifications", "bio", "is_active"}
CoachSends == {"first_name", "last_name", "email", "is_active"}
CoachCreateForm ==
    [call |-> "createCoach", needs |-> {"first_name", "last_name", "email"}, sends |-> CoachSends,
     omits |-> CoachFields \ CoachSends, parse |-> "text", shows |-> {Banner}, refills |-> FALSE]
(* The dialog opens with what the list knows; the detail overwrites it later. *)
CoachEditForm ==
    [call |-> "updateCoach", needs |-> {"first_name", "last_name"}, sends |-> CoachSends,
     omits |-> CoachFields \ CoachSends, parse |-> "text", shows |-> {Banner}, refills |-> TRUE]
PaySchemeForm ==
    [call |-> "updateCoachPayScheme", needs |-> {"coach", "amount"}, sends |-> {"coach", "period_type", "amount"},
     omits |-> {}, parse |-> "text", shows |-> {Banner}, refills |-> FALSE]
PaymentForm ==
    [call |-> "createCoachPayment", needs |-> {"coach", "amount"},
     sends |-> {"coach", "period_type", "period_start", "amount", "payment_method", "staff_invoice"},
     omits |-> {"payment_date", "notes"}, parse |-> "text", shows |-> {Banner}, refills |-> FALSE]
StaffInvoiceForm ==
    [call |-> "createStaffInvoice", needs |-> {"coach", "amount", "period_description"},
     sends |-> {"coach", "amount", "period_description", "period_type", "period_start", "status", "due_date"},
     omits |-> {"notes"}, parse |-> "text", shows |-> {Banner}, refills |-> FALSE]

StaffList(hook, size) ==
    [query |-> hook, size |-> size, pager |-> "none", resets |-> {}, keeps |-> {"coach"}, deletes |-> FALSE]
CoachesListing == [StaffList("useCoaches", DefaultSize) EXCEPT !.keeps = {}]
PaySchemesListing == [StaffList("useCoachPaySchemes", DefaultSize) EXCEPT !.deletes = TRUE]
StaffInvoicesListing == StaffList("useStaffInvoices", 200)
StaffReceiptsListing == StaffList("useStaffReceipts", 200)
StaffAttendanceListing == [StaffList("useCoachAttendance", 100) EXCEPT !.keeps = {"coach", "date"}]

CoachDetailPage == Page({Use("useCoach", Text), Use("useCoachAttendance", NoId)}, {})

----------------------------------------------------------------------------
(* Pay schedules. *)
PayScheduleNeeds ==
    {"coach", "amount", "cycle_start_date", "sessions_per_cycle", "billing_day", "billing_day_of_week"}
PayScheduleFields == {"coach", "billing_type", "amount"}
PayScheduleCycleFields ==
    {"cycle_start_date", "sessions_per_cycle", "class_scope", "billing_day", "billing_day_of_week"}
(* The amount of the coach's pay scheme overwrites the field when it comes. *)
PayScheduleForm(call) ==
    [call |-> call, needs |-> PayScheduleNeeds,
     sends |-> PayScheduleFields \cup PayScheduleCycleFields \cup {"is_active"}, omits |-> {},
     parse |-> "fields", shows |-> PayScheduleFields \cup PayScheduleCycleFields \cup {Banner},
     refills |-> TRUE]
PayScheduleCreateForm == PayScheduleForm("createStaffPaySchedule")
PayScheduleEditForm == PayScheduleForm("updateStaffPaySchedule")

PayScheduleChoices == {Use("useCoaches", NoId), Use("useCoachPaySchemes", NoId), Use("useClasses", NoId)}
StaffPayScheduleCreatePage ==
    Page(PayScheduleChoices,
         {Save("create pay schedule", <<Use("useCreateStaffPaySchedule", NoId)>>,
               {"useCreateStaffPaySchedule"}, "StaffPayScheduleEditPage")})
StaffPayScheduleEditPage ==
    Page({Use("useStaffPaySchedule", Text)} \cup PayScheduleChoices,
         {Save("save pay schedule", <<UseAnd("useUpdateStaffPaySchedule", Text, {PaySchedule("detail")})>>,
               {"useUpdateStaffPaySchedule"}, Closes)})

PayScheduleRow(hook, guard) == Save(hook, <<Use(hook, Num)>>, guard, Closes)
PayRunHistory == {Use("useStaffPayScheduleRuns", Num)}
PendingStaffTab ==
    Page({Use("usePendingStaffApprovals", NoId)},
         {Save("issue pending staff", <<UseAnd("useBulkIssuePendingStaffApprovals", NoId, {PendingStaff("list")})>>,
               {"useBulkIssuePendingStaffApprovals"}, Closes),
          Save("discard pending staff", <<Use("useCancelStaffInvoice", Num)>>,
               {"useCancelStaffInvoice", "useBulkIssuePendingStaffApprovals"}, Closes)})
PendingStaffListing ==
    [query |-> "usePendingStaffApprovals", size |-> 200, pager |-> "none", resets |-> {},
     keeps |-> {"search", "billing_type"}, deletes |-> TRUE]
(* The switch of a row is never disabled. *)
StaffPaySchedulesPage ==
    Page({Use("useStaffPaySchedules", NoId), Use("useCoaches", NoId)} \cup PayRunHistory \cup PendingStaffTab.reads,
         {PayScheduleRow("useToggleStaffPayScheduleActive", {}),
          PayScheduleRow("useRunStaffPaySchedule", {"useRunStaffPaySchedule"}),
          PayScheduleRow("useDeleteStaffPaySchedule", {"useDeleteStaffPaySchedule"})}
              \cup PendingStaffTab.saves)
PaySchedulesListing ==
    [query |-> "useStaffPaySchedules", size |-> DefaultSize, pager |-> "replaced", resets |-> {}, keeps |-> {},
     deletes |-> TRUE]

----------------------------------------------------------------------------
StaffHooks ==
    CoachHooks @@ PaySchemeHooks @@ StaffPaymentHooks @@ PayScheduleHooks @@ PayScheduleToggle
        @@ PayScheduleRunHooks @@ PendingStaffHooks
StaffCalls == CoachCalls @@ PaySchemeCalls @@ StaffPaymentCalls @@ PayScheduleCalls
StaffPages ==
    [StaffPage |-> StaffPage, CoachDetailPage |-> CoachDetailPage,
     StaffPayScheduleCreatePage |-> StaffPayScheduleCreatePage,
     StaffPayScheduleEditPage |-> StaffPayScheduleEditPage, StaffPaySchedulesPage |-> StaffPaySchedulesPage]
StaffForms ==
    [CoachCreateForm |-> CoachCreateForm, CoachEditForm |-> CoachEditForm, PaySchemeForm |-> PaySchemeForm,
     PaymentForm |-> PaymentForm, StaffInvoiceForm |-> StaffInvoiceForm,
     PayScheduleCreateForm |-> PayScheduleCreateForm, PayScheduleEditForm |-> PayScheduleEditForm]
StaffListings ==
    [CoachesListing |-> CoachesListing, PaySchemesListing |-> PaySchemesListing,
     StaffInvoicesListing |-> StaffInvoicesListing, StaffReceiptsListing |-> StaffReceiptsListing,
     StaffAttendanceListing |-> StaffAttendanceListing, PendingStaffListing |-> PendingStaffListing,
     PaySchedulesListing |-> PaySchedulesListing]
=============================================================================
