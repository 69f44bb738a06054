----------------------------- MODULE BillingWeb -----------------------------
(* Items, invoices, receipts and invoice schedules (features/tenant/billing). *)
EXTENDS WebKit

ItemCalls ==
    [getBillingItems |-> "GET items", createBillingItem |-> "POST items",
     updateBillingItem |-> "PATCH item", deleteBillingItem |-> "DELETE item"]
InvoiceCalls ==
    [getInvoices |-> "GET invoices", getInvoice |-> "GET invoice", createInvoice |-> "POST invoices",
     updateInvoice |-> "PATCH invoice", deleteInvoice |-> "DELETE invoice"]
ReceiptCalls ==
    [getReceipts |-> "GET receipts", getReceipt |-> "GET receipt", createReceipt |-> "POST receipts",
     updateReceipt |-> "PATCH receipt", deleteReceipt |-> "DELETE receipt"]
NotificationCalls ==
    [getInvoiceNotificationLogs |-> "GET invoice logs", resendInvoiceNotifications |-> "POST invoice resend",
     getReceiptNotificationLogs |-> "GET receipt logs", resendReceiptNotifications |-> "POST receipt resend",
     previewInvoicePdf |-> "GET invoice pdf", previewReceiptPdf |-> "GET receipt pdf"]
ScheduleCalls ==
    [getInvoiceSchedules |-> "GET schedules", getInvoiceSchedule |-> "GET schedule",
     createInvoiceSchedule |-> "POST schedules", updateInvoiceSchedule |-> "PATCH schedule",
     deleteInvoiceSchedule |-> "DELETE schedule", toggleInvoiceScheduleActive |-> "POST schedule/toggle",
     runInvoiceSchedule |-> "POST schedule/run", getInvoiceScheduleRuns |-> "GET schedule runs",
     getScheduleOverrides |-> "GET overrides", createScheduleOverride |-> "POST overrides",
     updateScheduleOverride |-> "PATCH override", deleteScheduleOverride |-> "DELETE override",
     getPendingApprovals |-> "GET pending", bulkIssuePendingApprovals |-> "POST pending/issue"]

ItemHooks ==
    [useBillingItems      |-> Query(<<"billing-items", "list">>, "getBillingItems"),
     useCreateBillingItem |-> Mutation("createBillingItem", {<<"billing-items", "list">>}),
     useUpdateBillingItem |-> Mutation("updateBillingItem",
                                {<<"billing-items", "list">>, <<"billing-items", "detail", Id>>}),
     useDeleteBillingItem |-> Removal("deleteBillingItem",
                                {<<"billing-items", "list">>}, {<<"billing-items", "detail", Id>>})]

InvoiceList == <<"invoices", "list">>
InvoiceDetail == <<"invoices", "detail", Id>>
InvoiceHooks ==
    [useInvoices      |-> Query(InvoiceList, "getInvoices"),
     useInvoice       |-> Query(InvoiceDetail, "getInvoice"),
     useCreateInvoice |-> Mutation("createInvoice", {InvoiceList}),
     useUpdateInvoice |-> Mutation("updateInvoice", {InvoiceList, InvoiceDetail}),
     useDeleteInvoice |-> Removal("deleteInvoice", {InvoiceList}, {InvoiceDetail})]

(* The invoice of a receipt is named by the number in the answer. *)
InvoiceOfReceipt == At(InvoiceDetail, Num)
ReceiptList == <<"receipts", "list">>
ReceiptDetail == <<"receipts", "detail", Id>>
ReceiptHooks ==
    [useReceipts      |-> Query(ReceiptList, "getReceipts"),
     useReceipt       |-> Query(ReceiptDetail, "getReceipt"),
     useCreateReceipt |-> Mutation("createReceipt", {ReceiptList, InvoiceOfReceipt, InvoiceList}),
     useUpdateReceipt |-> Mutation("updateReceipt", {ReceiptList, ReceiptDetail, InvoiceOfReceipt}),
     useDeleteReceipt |-> Removal("deleteReceipt", {ReceiptList}, {ReceiptDetail})]

Schedules(part) == <<"invoice-schedules", part>>
Schedule(part) == <<"invoice-schedules", part, Id>>
Pending(part) == <<"pending-approvals", part>>
ScheduleHooks ==
    [useInvoiceSchedules      |-> Query(Schedules("list"), "getInvoiceSchedules"),
     useInvoiceSchedule       |-> Query(Schedule("detail"), "getInvoiceSchedule"),
     useCreateInvoiceSchedule |-> Mutation("createInvoiceSchedule", {Schedules("list")}),
     useUpdateInvoiceSchedule |-> Mutation("updateInvoiceSchedule", {Schedules("list"), Schedule("detail")}),
     useDeleteInvoiceSchedule |-> Removal("deleteInvoiceSchedule", {Schedules("list")},
                                    {Schedule("detail"), Schedule("runs")}),
     useToggleInvoiceScheduleActive |->
         Mutation("toggleInvoiceScheduleActive", {Schedules("list"), Schedule("detail")})]
RunHooks ==
    [useRunInvoiceSchedule |->
         Mutation("runInvoiceSchedule",
           {Schedules("list"), Schedule("detail"), Schedule("runs"), Pending("list"), Pending("count")}),
     useInvoiceScheduleRuns |-> Query(Schedule("runs"), "getInvoiceScheduleRuns")]
OverrideHooks ==
    [useScheduleOverrides      |-> Query(Schedule("overrides"), "getScheduleOverrides"),
     useCreateScheduleOverride |-> Mutation("createScheduleOverride", {Schedule("overrides")}),
     useUpdateScheduleOverride |-> Mutation("updateScheduleOverride", {Schedule("overrides")})]
PendingHooks ==
    [usePendingApprovals |-> Query(Pending("list"), "getPendingApprovals"),
     useBulkIssuePendingApprovals |->
         Mutation("bulkIssuePendingApprovals", {Pending("list"), Pending("count")})]

----------------------------------------------------------------------------
(* Items. *)
ItemCreateNeeds == {"name", "price"}
CreateItem == Save("create item", <<Use("useCreateBillingItem", NoId)>>, {"useCreateBillingItem"}, Closes)
ItemFields == {"name", "description", "price", "currency", "is_active"}
ItemCreateForm ==
    [call |-> "createBillingItem", needs |-> ItemCreateNeeds,
     sends |-> {"name", "price", "is_active"}, omits |-> {"description"},
     parse |-> "fields", shows |-> ItemFields \cup {Banner}, refills |-> FALSE]

ItemEditNeeds == {"name", "price"}
EditItem == Save("edit item", <<Use("useUpdateBillingItem", Num)>>, {"useUpdateBillingItem"}, Closes)
EditItemFields == {"name", "description", "price", "currency", "is_active"}
ItemEditForm ==
    [call |-> "updateBillingItem", needs |-> ItemEditNeeds,
     sends |-> {"name", "price", "is_active"}, omits |-> {"description"},
     parse |-> "fields", shows |-> EditItemFields \cup {Banner}, refills |-> FALSE]

ItemRow == {"useUpdateBillingItem", "useDeleteBillingItem"}
ToggleItem == Save("toggle item", <<Use("useUpdateBillingItem", Num)>>, ItemRow, Closes)
DeleteItemDialog == {"useDeleteBillingItem"}
DeleteItem == Save("delete item", <<Use("useDeleteBillingItem", Num)>>, DeleteItemDialog, Closes)
ItemsPage == Page({Use("useBillingItems", NoId)}, {CreateItem, EditItem, ToggleItem, DeleteItem})
ItemsListing ==
    [query |-> "useBillingItems", size |-> DefaultSize, pager |-> "beside",
     resets |-> {"search", "is_active"}, keeps |-> {}, deletes |-> TRUE]

----------------------------------------------------------------------------
(* Invoices. *)
InvoicesListPage == Page({Use("useInvoices", NoId)}, {})
InvoicesListing ==
    [query |-> "useInvoices", size |-> DefaultSize, pager |-> "beside",
     resets |-> {"search", "status"}, keeps |-> {}, deletes |-> FALSE]

InvoiceCreatePage ==
    Page({Use("useBillingItems", NoId), Use("useParents", NoId), Use("useStudents", NoId),
          Use("useLocations", NoId), Use("useSports", NoId), Use("useAcademyTaxSettings", NoId)},
         {Save("create invoice", <<Use("useCreateInvoice", NoId)>>, {"useCreateInvoice"},
               "InvoiceDetailPage")})
InvoiceCreateNeeds == {"parent_id", "items"}
InvoiceGuardianFields == {"parent_id"}
InvoiceHeaderFields == {"issued_date", "due_date", "sport", "location"}
InvoiceLineFields == {"items"}
InvoiceDiscountFields == {"discount_type", "discount_value", "notes"}
InvoiceFields ==
    InvoiceGuardianFields \cup InvoiceHeaderFields \cup InvoiceLineFields \cup InvoiceDiscountFields
InvoiceCreateForm ==
    [call |-> "createInvoice", needs |-> InvoiceCreateNeeds, sends |-> InvoiceCreateNeeds,
     omits |-> InvoiceFields \ InvoiceCreateNeeds,
     parse |-> "fields", shows |-> InvoiceFields \cup {Banner}, refills |-> FALSE]

(* The page also reads the notification log; a resend marks that log only. *)
InvoiceLogHooks ==
    [invoiceNotificationLogs |-> Query(<<"invoice-notification-logs", Id>>, "getInvoiceNotificationLogs"),
     resendInvoice |-> Mutation("resendInvoiceNotifications", {<<"invoice-notification-logs", Id>>}),
     previewInvoice |-> Mutation("previewInvoicePdf", {})]
SaveInvoice ==
    Save("save invoice", <<UseAnd("useUpdateInvoice", Text, {InvoiceDetail})>>, {"useUpdateInvoice"}, Closes)
DeleteInvoice ==
    Save("delete invoice", <<Use("useDeleteInvoice", Text)>>, {"useDeleteInvoice"}, "InvoicesListPage")
ResendInvoice == Save("resend invoice", <<Use("resendInvoice", Text)>>, {"resendInvoice"}, Closes)
InvoiceDetailPage ==
    Page({Use("useInvoice", Text), Use("invoiceNotificationLogs", Text)},
         {SaveInvoice, DeleteInvoice, ResendInvoice})
InvoiceEditForm ==
    [call |-> "updateInvoice", needs |-> {}, sends |-> {}, omits |-> {"issued_date", "due_date", "notes"},
     parse |-> "fields", shows |-> {"issued_date", "due_date", "notes", Banner}, refills |-> FALSE]

ParentInvoiceDetailPage == Page({Use("useInvoice", Text)}, {})
ParentInvoicesPage == Page({Use("useInvoices", NoId)}, {})
ParentInvoicesListing ==
    [query |-> "useInvoices", size |-> DefaultSize, pager |-> "none",
     resets |-> {}, keeps |-> {"status", "start_date", "end_date"}, deletes |-> FALSE]

----------------------------------------------------------------------------
(* Receipts. *)
UnifiedSize == 500
ReceiptsListPage ==
    Page({Use("useReceipts", NoId), Use("useRentReceipts", NoId), Use("useStaffReceipts", NoId),
          Use("useBills", NoId)},
         {Save("edit receipt", <<UseAnd("useUpdateReceipt", Num, {ReceiptList})>>, {"useUpdateReceipt"}, Closes),
          Save("delete receipt", <<UseAnd("useDeleteReceipt", Num, {ReceiptList})>>, {"useDeleteReceipt"}, Closes)})
UnifiedListing ==
    [query |-> "useReceipts", size |-> UnifiedSize, pager |-> "none",
     resets |-> {}, keeps |-> {"search", "classification"}, deletes |-> TRUE]
InvoiceReceiptsListing ==
    [query |-> "useReceipts", size |-> DefaultSize, pager |-> "beside",
     resets |-> {}, keeps |-> {}, deletes |-> TRUE]
ReceiptFields == {"amount", "payment_method", "payment_date", "notes"}
ReceiptEditForm ==
    [call |-> "updateReceipt", needs |-> {"amount", "payment_date"},
     sends |-> {"amount", "payment_method", "payment_date"},
     omits |-> {"notes"}, parse |-> "fields", shows |-> ReceiptFields \cup {Banner}, refills |-> FALSE]

ReceiptLogHooks ==
    [receiptNotificationLogs |-> Query(<<"receipt-notification-logs", Id>>, "getReceiptNotificationLogs"),
     resendReceipt |-> Mutation("resendReceiptNotifications", {<<"receipt-notification-logs", Id>>}),
     previewReceipt |-> Mutation("previewReceiptPdf", {})]
ReceiptDetailPage ==
    Page({Use("useReceipt", Text), Use("receiptNotificationLogs", Text)},
         {Save("resend receipt", <<Use("resendReceipt", Text)>>, {"resendReceipt"}, Closes)})

SaveReceipt(after) ==
    Save("create receipt", <<Use("useCreateReceipt", NoId)>>, {"useCreateReceipt"}, after)
ReceiptCreateNeeds == {"invoice", "amount", "payment_date"}
(* The page is opened from an invoice or from the list, and goes back there. *)
ReceiptCreatePage ==
    Page({Use("useInvoices", NoId), Use("useInvoice", Text)}, {SaveReceipt("ReceiptsListPage")})
ReceiptFromInvoicePage ==
    Page({Use("useInvoices", NoId), Use("useInvoice", Text)}, {SaveReceipt("InvoiceDetailPage")})
NewReceiptFields == {"invoice", "amount", "payment_method", "payment_date", "notes"}
ReceiptCreateForm ==
    [call |-> "createReceipt", needs |-> ReceiptCreateNeeds,
     sends |-> ReceiptCreateNeeds \cup {"payment_method"}, omits |-> {"notes"},
     parse |-> "fields", shows |-> NewReceiptFields \cup {Banner}, refills |-> FALSE]

----------------------------------------------------------------------------
(* Invoice schedules. *)
ScheduleNeeds == {"class_obj", "billing_item", "cycle_start_date", "billing_type", "sessions_per_cycle",
                  "billing_day"}
SaveNewSchedule ==
    Save("create schedule", <<Use("useCreateInvoiceSchedule", NoId)>>, {"useCreateInvoiceSchedule"},
         "InvoiceScheduleEditPage")
ScheduleChoices == {Use("useClasses", NoId), Use("useBillingItems", NoId)}
ScheduleFields == {"class_obj", "billing_item", "billing_type", "cycle_start_date"}
ScheduleTimingFields == {"sessions_per_cycle", "bill_absent_sessions", "billing_day"}
InvoiceScheduleCreatePage == Page(ScheduleChoices, {SaveNewSchedule})
ScheduleCreateForm ==
    [call |-> "createInvoiceSchedule", needs |-> ScheduleNeeds,
     sends |-> ScheduleFields \cup ScheduleTimingFields \cup {"is_active", "invoice_creation_timing"},
     omits |-> {}, parse |-> "fields",
     shows |-> ScheduleFields \cup ScheduleTimingFields \cup {Banner}, refills |-> FALSE]

ScheduleEditNeeds == {"class_obj", "billing_item", "cycle_start_date", "billing_type", "sessions_per_cycle",
                      "billing_day"}
SaveSchedule ==
    Save("save schedule", <<UseAnd("useUpdateInvoiceSchedule", Text, {Schedule("detail")})>>,
         {"useUpdateInvoiceSchedule"}, Closes)
ScheduleEditForm ==
    [call |-> "updateInvoiceSchedule", needs |-> ScheduleEditNeeds,
     sends |-> ScheduleFields \cup ScheduleTimingFields \cup {"is_active", "invoice_creation_timing"},
     omits |-> {}, parse |-> "fields",
     shows |-> ScheduleFields \cup ScheduleTimingFields \cup {Banner}, refills |-> TRUE]

(* The panel of student overrides on the edit page. *)
OverridesListing ==
    [query |-> "useScheduleOverrides", size |-> 1000, pager |-> "none",
     resets |-> {}, keeps |-> {}, deletes |-> FALSE]
SaveOverride ==
    Save("save override", <<Use("useUpdateScheduleOverride", Text)>>, {"useUpdateScheduleOverride"}, Closes)
AddOverride ==
    Save("add override", <<Use("useCreateScheduleOverride", Text)>>, {"useCreateScheduleOverride"}, Closes)
OverrideDrafts ==
    [call |-> "updateScheduleOverride", needs |-> {},
     sends |-> {"discount_type", "discount_value", "reason", "is_active", "valid_from", "valid_until"},
     omits |-> {},
     parse |-> "text", shows |-> {Banner}, refills |-> TRUE]
NewOverride ==
    [call |-> "createScheduleOverride", needs |-> {"student", "reason"},
     sends |-> {"student", "discount_type", "discount_value", "reason", "valid_from", "valid_until"},
     omits |-> {}, parse |-> "text", shows |-> {Banner}, refills |-> FALSE]
InvoiceScheduleEditPage ==
    Page({Use("useInvoiceSchedule", Text), Use("useScheduleOverrides", Text), Use("useStudents", NoId)}
            \cup ScheduleChoices,
         {SaveSchedule, SaveOverride, AddOverride})

ToggleSchedule ==
    Save("toggle schedule", <<Use("useToggleInvoiceScheduleActive", Num)>>,
         {"useToggleInvoiceScheduleActive"}, Closes)
RunSchedule ==
    Save("run schedule", <<Use("useRunInvoiceSchedule", Num)>>, {"useRunInvoiceSchedule"}, Closes)
DeleteSchedule ==
    Save("delete schedule", <<Use("useDeleteInvoiceSchedule", Num)>>, {"useDeleteInvoiceSchedule"}, Closes)
RunHistory == {Use("useInvoiceScheduleRuns", Num)}
PendingTab == {Use("usePendingApprovals", NoId)}
IssuePending ==
    Save("issue pending", <<UseAnd("useBulkIssuePendingApprovals", NoId, {Pending("list")})>>,
         {"useBulkIssuePendingApprovals"}, Closes)
DiscardPending ==
    Save("discard pending", <<UseAnd("useUpdateInvoice", Num, {Pending("list"), Pending("count")})>>,
         {"useUpdateInvoice", "useBulkIssuePendingApprovals"}, Closes)
InvoiceSchedulesPage ==
    Page({Use("useInvoiceSchedules", NoId), Use("useClasses", NoId), Use("useBillingItems", NoId)}
            \cup RunHistory \cup PendingTab,
         {ToggleSchedule, RunSchedule, DeleteSchedule, IssuePending, DiscardPending})
SchedulesListing ==
    [query |-> "useInvoiceSchedules", size |-> DefaultSize, pager |-> "replaced",
     resets |-> {}, keeps |-> {}, deletes |-> TRUE]
PendingListing ==
    [query |-> "usePendingApprovals", size |-> 200, pager |-> "none",
     resets |-> {}, keeps |-> {"search"}, deletes |-> TRUE]

----------------------------------------------------------------------------
BillingHooks ==
    ItemHooks @@ InvoiceHooks @@ ReceiptHooks @@ ScheduleHooks @@ RunHooks @@ OverrideHooks
        @@ PendingHooks @@ InvoiceLogHooks @@ ReceiptLogHooks
BillingCalls == ItemCalls @@ InvoiceCalls @@ ReceiptCalls @@ NotificationCalls @@ ScheduleCalls
BillingPages ==
    [ItemsPage |-> ItemsPage, InvoicesListPage |-> InvoicesListPage,
     InvoiceCreatePage |-> InvoiceCreatePage, InvoiceDetailPage |-> InvoiceDetailPage,
     ParentInvoiceDetailPage |-> ParentInvoiceDetailPage, ParentInvoicesPage |-> ParentInvoicesPage,
     ReceiptsListPage |-> ReceiptsListPage, ReceiptDetailPage |-> ReceiptDetailPage,
     ReceiptCreatePage |-> ReceiptCreatePage, ReceiptFromInvoicePage |-> ReceiptFromInvoicePage,
     InvoiceScheduleCreatePage |-> InvoiceScheduleCreatePage,
     InvoiceScheduleEditPage |-> InvoiceScheduleEditPage,
     InvoiceSchedulesPage |-> InvoiceSchedulesPage]
BillingForms ==
    [ItemCreateForm |-> ItemCreateForm, ItemEditForm |-> ItemEditForm,
     InvoiceCreateForm |-> InvoiceCreateForm, InvoiceEditForm |-> InvoiceEditForm,
     ReceiptEditForm |-> ReceiptEditForm, ReceiptCreateForm |-> ReceiptCreateForm,
     ScheduleCreateForm |-> ScheduleCreateForm, ScheduleEditForm |-> ScheduleEditForm,
     OverrideDrafts |-> OverrideDrafts, NewOverride |-> NewOverride]
BillingListings ==
    [ItemsListing |-> ItemsListing, InvoicesListing |-> InvoicesListing,
     ParentInvoicesListing |-> ParentInvoicesListing, UnifiedListing |-> UnifiedListing,
     InvoiceReceiptsListing |-> InvoiceReceiptsListing, OverridesListing |-> OverridesListing,
     SchedulesListing |-> SchedulesListing, PendingListing |-> PendingListing]
=============================================================================
