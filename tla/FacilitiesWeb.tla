---------------------------- MODULE FacilitiesWeb ----------------------------
(* Rent, bills and inventory (features/tenant/facilities). *)
EXTENDS WebKit

RentCalls ==
    [getRentConfigs |-> "GET rent-configs", createRentConfig |-> "POST rent-configs",
     updateRentConfig |-> "PATCH rent-config", deleteRentConfig |-> "DELETE rent-config",
     getRentInvoices |-> "GET rent-invoices", createRentInvoice |-> "POST rent-invoices",
     updateRentInvoice |-> "PATCH rent-invoice", deleteRentInvoice |-> "DELETE rent-invoice",
     addRentInvoicePayment |-> "POST rent-invoice/payment", markRentInvoicePaid |-> "POST rent-invoice/paid",
     getRentReceipts |-> "GET rent-receipts"]
BillCalls ==
    [getBills |-> "GET bills", createBill |-> "POST bills", updateBill |-> "PATCH bill",
     deleteBill |-> "DELETE bill", markBillPaid |-> "POST bill/paid",
     getBillLineItems |-> "GET bill-lines", createBillLineItem |-> "POST bill-lines",
     updateBillLineItem |-> "PATCH bill-line", deleteBillLineItem |-> "DELETE bill-line"]
InventoryCalls ==
    [getInventoryItems |-> "GET inventory", createInventoryItem |-> "POST inventory",
     updateInventoryItem |-> "PATCH inventory", deleteInventoryItem |-> "DELETE inventory",
     adjustInventoryItemQuantity |-> "POST inventory/adjust"]
RentScheduleCalls ==
    [getRentPaySchedules |-> "GET rent-schedules", getRentPaySchedule |-> "GET rent-schedule",
     createRentPaySchedule |-> "POST rent-schedules", updateRentPaySchedule |-> "PATCH rent-schedule",
     deleteRentPaySchedule |-> "DELETE rent-schedule",
     toggleRentPayScheduleActive |-> "POST rent-schedule/toggle",
     runRentPaySchedule |-> "POST rent-schedule/run", getRentPayScheduleRuns |-> "GET rent-schedule runs",
     getPendingRentApprovals |-> "GET pending-rent", bulkIssueRentApprovals |-> "POST pending-rent/issue"]

Facilities(part) == <<"facilities", part>>
RentConfigHooks ==
    [useRentConfigs      |-> Query(Facilities("rent-configs"), "getRentConfigs"),
     useCreateRentConfig |-> Mutation("createRentConfig", {Facilities("rent-configs")}),
     useUpdateRentConfig |-> Mutation("updateRentConfig", {Facilities("rent-configs")}),
     useDeleteRentConfig |-> Mutation("deleteRentConfig", {Facilities("rent-configs")})]
RentInvoiceHooks ==
    [useRentInvoices      |-> Query(Facilities("rent-invoices"), "getRentInvoices"),
     useCreateRentInvoice |-> Mutation("createRentInvoice", {Facilities("rent-invoices")}),
     useUpdateRentInvoice |-> Mutation("updateRentInvoice", {Facilities("rent-invoices")}),
     useDeleteRentInvoice |-> Mutation("deleteRentInvoice", {Facilities("rent-invoices")})]
RentPaid == {Facilities("rent-invoices"), Facilities("rent-receipts")}
RentPaymentHooks ==
    [useAddRentInvoicePayment |-> Mutation("addRentInvoicePayment", RentPaid),
     useMarkRentInvoicePaid   |-> Mutation("markRentInvoicePaid", RentPaid),
     useRentReceipts          |-> Query(Facilities("rent-receipts"), "getRentReceipts")]
BillHooks ==
    [useBills        |-> Query(Facilities("bills"), "getBills"),
     useCreateBill   |-> Mutation("createBill", {Facilities("bills")}),
     useUpdateBill   |-> Mutation("updateBill", {Facilities("bills")}),
     useDeleteBill   |-> Mutation("deleteBill", {Facilities("bills")}),
     useMarkBillPaid |-> Mutation("markBillPaid", {Facilities("bills")})]
LinesChanged == {Facilities("bill-line-items"), Facilities("bills"), Facilities("inventory-items")}
BillLineHooks ==
    [useBillLineItems      |-> Query(Facilities("bill-line-items"), "getBillLineItems"),
     useCreateBillLineItem |-> Mutation("createBillLineItem", LinesChanged),
     useUpdateBillLineItem |-> Mutation("updateBillLineItem", LinesChanged),
     useDeleteBillLineItem |-> Mutation("deleteBillLineItem", LinesChanged)]
InventoryHooks ==
    [useInventoryItems          |-> Query(Facilities("inventory-items"), "getInventoryItems"),
     useCreateInventoryItem     |-> Mutation("createInventoryItem", {Facilities("inventory-items")}),
     useUpdateInventoryItem     |-> Mutation("updateInventoryItem", {Facilities("inventory-items")}),
     useDeleteInventoryItem     |-> Mutation("deleteInventoryItem", {Facilities("inventory-items")}),
     useAdjustInventoryQuantity |->
         Mutation("adjustInventoryItemQuantity", {Facilities("inventory-items")})]

RentSchedules == <<"rent-pay-schedules", "list">>
RentSchedule(part) == <<"rent-pay-schedules", part, Id>>
PendingRent(part) == <<"rent-pending-approvals", part>>
RentScheduleHooks ==
    [useRentPaySchedules      |-> Query(RentSchedules, "getRentPaySchedules"),
     useRentPaySchedule       |-> Query(RentSchedule("detail"), "getRentPaySchedule"),
     useCreateRentPaySchedule |-> Mutation("createRentPaySchedule", {RentSchedules}),
     useUpdateRentPaySchedule |-> Mutation("updateRentPaySchedule", {RentSchedules, RentSchedule("detail")}),
     useDeleteRentPaySchedule |-> Removal("deleteRentPaySchedule", {RentSchedules},
                                    {RentSchedule("detail"), RentSchedule("runs")})]
(* As for pay schedules, the cached lists are rewritten before the request. *)
RentScheduleToggle ==
    [useToggleRentPayScheduleActive |->
         Mutation("toggleRentPayScheduleActive", {RentSchedules, RentSchedule("detail")})]
RentRunHooks ==
    [useRunRentPaySchedule |->
         Mutation("runRentPaySchedule",
           {RentSchedules, RentSchedule("detail"), RentSchedule("runs"), PendingRent("list"),
            PendingRent("count")}),
     useRentPayScheduleRuns |-> Query(RentSchedule("runs"), "getRentPayScheduleRuns")]
PendingRentHooks ==
    [usePendingRentApprovals |-> Query(PendingRent("list"), "getPendingRentApprovals"),
     useBulkIssueRentApprovals |->
         Mutation("bulkIssueRentApprovals", {PendingRent("list"), PendingRent("count")})]

----------------------------------------------------------------------------
(* The facilities page.  Every save names a row by its number. *)
Row(hook) == Save(hook, <<Use(hook, Num)>>, {hook}, Closes)
RentConfigSaves == {Row("useCreateRentConfig"), Row("useUpdateRentConfig")}
RentInvoiceSaves == {Row("useCreateRentInvoice"), Row("useUpdateRentInvoice")}
AddPayment == Row("useAddRentInvoicePayment")
AddPayments == Batch("add payments", "useAddRentInvoicePayment", Num, RentPaid)
MarkPaid == Row("useMarkRentInvoicePaid")
CancelRentInvoice == Save("cancel rent invoice", <<Use("useUpdateRentInvoice", Num)>>, {"useUpdateRentInvoice"}, Closes)
BillSaves == {Row("useCreateBill"), Row("useUpdateBill")}
BillStatusSaves ==
    {Row("useMarkBillPaid"), Save("cancel bill", <<Use("useUpdateBill", Num)>>, {"useUpdateBill"}, Closes)}
LineForm == {"useCreateBillLineItem", "useUpdateBillLineItem"}
BillLineSaves == {Save(h, <<Use(h, Num)>>, LineForm, Closes) : h \in LineForm}
InventorySaves == {Row("useCreateInventoryItem"), Row("useUpdateInventoryItem")}
AdjustInventory == Row("useAdjustInventoryQuantity")
DeleteDialog ==
    {"useDeleteRentConfig", "useDeleteRentInvoice", "useDeleteBill", "useDeleteBillLineItem",
     "useDeleteInventoryItem"}
DeleteSaves == {Save(h, <<Use(h, Num)>>, DeleteDialog, Closes) : h \in DeleteDialog}
FacilitiesReads ==
    {"useLocations", "useRentConfigs", "useRentInvoices", "useRentReceipts", "useBills",
     "useInventoryItems", "useBillLineItems"}
FacilitiesPage ==
    Page({Use(h, NoId) : h \in FacilitiesReads},
         RentConfigSaves \cup RentInvoiceSaves \cup {AddPayment, AddPayments, MarkPaid, CancelRentInvoice}
             \cup BillSaves \cup BillStatusSaves \cup BillLineSaves \cup InventorySaves
             \cup {AdjustInventory} \cup DeleteSaves)

(* The edit dialogs type into the state of the form for a new row. *)
FacilityForm(call, needs, sends, omits) ==
    [call |-> call, needs |-> needs, sends |-> sends, omits |-> omits, parse |-> "text",
     shows |-> {Banner}, refills |-> FALSE]
RentConfigFields == {"location", "amount", "period_type", "is_active"}
RentConfigCreateForm == FacilityForm("createRentConfig", {"location", "amount"}, RentConfigFields, {})
RentConfigEditForm == FacilityForm("updateRentConfig", {"location", "amount"}, RentConfigFields, {})
RentInvoiceSends == {"location", "period_description", "amount", "status"}
RentInvoiceOmits == {"due_date", "notes"}
RentInvoiceCreateForm ==
    FacilityForm("createRentInvoice", RentInvoiceSends \ {"status"}, RentInvoiceSends, RentInvoiceOmits)
RentInvoiceEditForm ==
    FacilityForm("updateRentInvoice", RentInvoiceSends \ {"status"}, RentInvoiceSends, RentInvoiceOmits)
RentPaymentForm ==
    FacilityForm("addRentInvoicePayment", {"amount"}, {"amount", "payment_method"}, {"payment_date", "notes"})
BillSends == {"vendor_name", "bill_date", "status"}
BillOmits == {"bill_number", "due_date", "notes"}
BillCreateForm == FacilityForm("createBill", {"vendor_name"}, BillSends, BillOmits)
BillEditForm == FacilityForm("updateBill", {"vendor_name"}, BillSends, BillOmits)
BillLineFields == {"description", "quantity", "unit_price", "inventory_item"}
BillLineForm ==
    FacilityForm("updateBillLineItem", {"description", "quantity"}, BillLineFields, {})
InventorySends == {"name", "quantity"}
InventoryOmits == {"description", "unit", "reorder_level"}
InventoryCreateForm == FacilityForm("createInventoryItem", {"name"}, InventorySends, InventoryOmits)
InventoryEditForm == FacilityForm("updateInventoryItem", {"name"}, InventorySends, InventoryOmits)
SharedDrafts ==
    {<<"RentConfigCreateForm", "RentConfigEditForm">>, <<"RentInvoiceCreateForm", "RentInvoiceEditForm">>,
     <<"BillCreateForm", "BillEditForm">>, <<"InventoryCreateForm", "InventoryEditForm">>}

FacilityList(hook, keeps) ==
    [query |-> hook, size |-> 200, pager |-> "none", resets |-> {}, keeps |-> keeps, deletes |-> TRUE]
RentConfigsListing == FacilityList("useRentConfigs", {})
RentInvoicesListing == FacilityList("useRentInvoices", {"status", "location"})
BillsListing == FacilityList("useBills", {"status", "search"})
InventoryListing == FacilityList("useInventoryItems", {})
BillLinesListing == FacilityList("useBillLineItems", {})

----------------------------------------------------------------------------
(* Rent schedules. *)
RentScheduleNeeds == {"location", "amount", "cycle_start_date", "sessions_per_invoice", "billing_day"}
RentScheduleFields == {"location", "billing_type", "amount"}
RentScheduleMoreFields ==
    {"sessions_per_invoice", "billing_day", "due_date_offset_days", "cycle_start_date", "is_active"}
RentScheduleForm(call, refills) ==
    [call |-> call, needs |-> RentScheduleNeeds, sends |-> RentScheduleFields \cup RentScheduleMoreFields,
     omits |-> {}, parse |-> "fields",
     shows |-> RentScheduleFields \cup RentScheduleMoreFields \cup {Banner}, refills |-> refills]
(* The rent of the location overwrites the amount when it comes. *)
RentScheduleCreateForm == RentScheduleForm("createRentPaySchedule", TRUE)
RentScheduleEditForm == RentScheduleForm("updateRentPaySchedule", TRUE)

RentScheduleChoices == {Use("useLocations", NoId), Use("useRentConfigs", NoId)}
RentPayScheduleCreatePage ==
    Page(RentScheduleChoices,
         {Save("create rent schedule", <<Use("useCreateRentPaySchedule", NoId)>>,
               {"useCreateRentPaySchedule"}, "RentPayScheduleEditPage")})
(* This page turns the id of its address into a number. *)
RentPayScheduleEditPage ==
    Page({Use("useRentPaySchedule", Num)} \cup RentScheduleChoices,
         {Save("save rent schedule", <<Use("useUpdateRentPaySchedule", Num)>>,
               {"useUpdateRentPaySchedule"}, "RentPaySchedulesPage")})

RentRunHistory == {Use("useRentPayScheduleRuns", Num)}
IssueRent ==
    Save("issue rent", <<UseAnd("useBulkIssueRentApprovals", NoId, {PendingRent("list")})>>,
         {"useBulkIssueRentApprovals"}, Closes)
DiscardRent ==
    Save("discard rent", <<UseAnd("useUpdateRentInvoice", Num, {PendingRent("list"), PendingRent("count")})>>,
         {"useUpdateRentInvoice"}, Closes)
PendingRentTab == Page({Use("usePendingRentApprovals", NoId)}, {IssueRent, DiscardRent})
PendingRentListing ==
    [query |-> "usePendingRentApprovals", size |-> 200, pager |-> "none", resets |-> {},
     keeps |-> {"billing_type"}, deletes |-> TRUE]
RentScheduleRow ==
    {Save("toggle rent schedule", <<Use("useToggleRentPayScheduleActive", Num)>>, {}, Closes),
     Row("useRunRentPaySchedule"), Row("useDeleteRentPaySchedule")}
RentPaySchedulesPage ==
    Page({Use("useRentPaySchedules", NoId)} \cup RentRunHistory \cup PendingRentTab.reads,
         RentScheduleRow \cup PendingRentTab.saves)
RentSchedulesListing ==
    [query |-> "useRentPaySchedules", size |-> DefaultSize, pager |-> "replaced", resets |-> {}, keeps |-> {},
     deletes |-> TRUE]

----------------------------------------------------------------------------
FacilitiesHooks ==
    RentConfigHooks @@ RentInvoiceHooks @@ RentPaymentHooks @@ BillHooks @@ BillLineHooks @@ InventoryHooks
        @@ RentScheduleHooks @@ RentScheduleToggle @@ RentRunHooks @@ PendingRentHooks
FacilitiesCalls == RentCalls @@ BillCalls @@ InventoryCalls @@ RentScheduleCalls
FacilitiesPages ==
    [FacilitiesPage |-> FacilitiesPage, RentPayScheduleCreatePage |-> RentPayScheduleCreatePage,
     RentPayScheduleEditPage |-> RentPayScheduleEditPage, RentPaySchedulesPage |-> RentPaySchedulesPage]
FacilitiesForms ==
    [RentConfigCreateForm |-> RentConfigCreateForm, RentConfigEditForm |-> RentConfigEditForm,
     RentInvoiceCreateForm |-> RentInvoiceCreateForm, RentInvoiceEditForm |-> RentInvoiceEditForm,
     RentPaymentForm |-> RentPaymentForm, BillCreateForm |-> BillCreateForm, BillEditForm |-> BillEditForm,
     BillLineForm |-> BillLineForm, InventoryCreateForm |-> InventoryCreateForm,
     InventoryEditForm |-> InventoryEditForm, RentScheduleCreateForm |-> RentScheduleCreateForm,
     RentScheduleEditForm |-> RentScheduleEditForm]
FacilitiesListings ==
    [RentConfigsListing |-> RentConfigsListing, RentInvoicesListing |-> RentInvoicesListing,
     BillsListing |-> BillsListing, InventoryListing |-> InventoryListing,
     BillLinesListing |-> BillLinesListing, PendingRentListing |-> PendingRentListing,
     RentSchedulesListing |-> RentSchedulesListing]
=============================================================================
