------------------------------ MODULE WebForms ------------------------------
(***************************************************************************)
(* The forms of the web client as FormEntry sees them, and what is known of *)
(* them: the fields that cannot be emptied, the drafts that are overwritten *)
(* and the refusals nothing is said of.                                     *)
(***************************************************************************)
EXTENDS FormEntry, StudentsWeb, ClassesWeb, BillingWeb, StaffWeb, FacilitiesWeb, SettingsWeb

WebForm ==
    StudentsForms @@ ClassesForms @@ BillingForms @@ StaffForms @@ FacilitiesForms @@ SettingsForms

(* The calls sent with PATCH. *)
PatchCalls ==
    {"updateStudent", "updateClass", "updateEnrollment", "updateBillingItem", "updateInvoice",
     "updateReceipt", "updateInvoiceSchedule", "updateScheduleOverride", "updateCoach",
     "updateCoachPayScheme", "updateStaffPaySchedule", "updateRentConfig", "updateRentInvoice",
     "updateBill", "updateBillLineItem", "updateInventoryItem", "updateRentPaySchedule",
     "updateLocation", "updateSport", "updateAgeCategory", "updateTerm", "updateCurrentAccount",
     "updateAcademySettings", "updateAcademyTaxSettings", "updateUser",
     "patchPortalStudent"}

(* Emptied, these are left out of the PATCH, which then keeps them. *)
KeptOf ==
    [StudentEditForm     |-> {"date_of_birth", "emirates_id", "parent", "emergency_contact_name",
                              "emergency_contact_phone", "emergency_contact_relationship",
                              "medical_notes", "allergies"},
     ClassEditForm       |-> {"sport", "location", "coach", "start_date", "end_date"},
     EnrollmentForm      |-> {"notes"},
     ItemEditForm        |-> {"description"},
     InvoiceEditForm     |-> {"issued_date", "due_date", "notes"},
     ReceiptEditForm     |-> {"notes"},
     CoachEditForm       |-> {"phone", "specialization", "certifications", "bio"},
     RentInvoiceEditForm |-> {"due_date", "notes"},
     BillEditForm        |-> {"bill_number", "due_date", "notes"},
     InventoryEditForm   |-> {"description", "unit", "reorder_level"},
     LocationEditForm    |-> {"address_line1", "city", "state", "postal_code", "country", "phone",
                              "capacity"},
     SportEditForm       |-> {"description", "age_min", "age_max"},
     AgeCategoryEditForm |-> {"description"},
     TermEditForm        |-> {"description"},
     TaxForm             |-> {"global_tax_rate_percent"},
     UserEditForm        |-> {"first_name", "last_name"}]

(* The page has a number, or a choice, of its own for an empty input. *)
PageDefaults ==
    [InventoryCreateForm    |-> {"quantity"}, InventoryEditForm |-> {"quantity"},
     BillLineForm           |-> {"unit_price"},
     ClassCreateForm        |-> {"max_capacity"}, ClassEditForm |-> {"max_capacity"},
     RentScheduleCreateForm |-> {"due_date_offset_days"},
     RentScheduleEditForm   |-> {"due_date_offset_days"},
     OverrideDrafts         |-> {"discount_value"}, NewOverride |-> {"discount_value"},
     AgeCategoryCreateForm  |-> {"age_min", "age_max"},
     AgeCategoryEditForm    |-> {"age_min", "age_max"},
     StudentCreateForm      |-> {"gender"}]

(* Today, when no date comes with a new row. *)
ServerDefaults ==
    [RentPaymentForm |-> {"payment_date"}, PaymentForm |-> {"payment_date"},
     InvoiceCreateForm |-> {"issued_date"}]

(* `parseInt(text) || ...`, for which 0 is nothing. *)
ZeroLost ==
    [SportEditForm          |-> {"age_min", "age_max"},
     LocationEditForm       |-> {"capacity"},
     ClassCreateForm        |-> {"max_capacity"}, ClassEditForm |-> {"max_capacity"},
     RentScheduleCreateForm |-> {"due_date_offset_days"},
     RentScheduleEditForm   |-> {"due_date_offset_days"}]

(* What the serializer has no field for: the status of a user, the names of  *)
(* the invited (but for staff); and the record of a guardian who has none.    *)
NotRead ==
    [UserStatusForm   |-> {"status"}, UserRowStatusForm |-> {"status"},
     AcceptInviteForm |-> {"first_name", "last_name"},
     CreateUserForm   |-> {"first_name", "last_name"},
     UserEditForm     |-> {"parent_record"},
     ContactForm      |-> ContactFields \ {"parent_profile.phone"}]

(* A pending bill whose due date has passed is saved as overdue. *)
Derived == [BillCreateForm |-> {"status"}, BillEditForm |-> {"status"}]

(* An effect fills these forms again whenever the answer of their query      *)
(* changes, in any field, or a dialog uses the same draft.                   *)
OverwrittenForms ==
    {"StudentEditForm", "ClassEditForm", "MarkForm", "CoachMarkForm", "MarkCoachesForm",
     "ScheduleEditForm", "OverrideDrafts", "CoachEditForm", "PayScheduleCreateForm",
     "PayScheduleEditForm", "RentScheduleCreateForm", "RentScheduleEditForm", "AcademyForm",
     "TaxForm", "AccountForm", "ContactForm", "ChildSafetyForm",
     "RentConfigCreateForm", "RentInvoiceCreateForm", "BillCreateForm", "InventoryCreateForm"}

(* These pages take the answer for the messages of the fields, or drop it. *)
MuteForms ==
    {"ClassCreateForm", "ClassEditForm", "MarkForm", "CoachMarkForm",
     "LocationDelete", "SportDelete", "AgeCategoryDelete", "TermDelete", "UserRowStatusForm"}
(* These fields have no place for a message. *)
MuteFields ==
    [ChildSafetyForm       |-> ChildSafetyFields,
     EnrollmentForm        |-> {"status"},
     ScheduleCreateForm    |-> {"is_active", "invoice_creation_timing"},
     ScheduleEditForm      |-> {"is_active", "invoice_creation_timing"},
     PayScheduleCreateForm |-> {"is_active"},
     PayScheduleEditForm   |-> {"is_active"},
     TaxForm               |-> {"global_tax_enabled"}]

(* These are sent as records. *)
NestedFields ==
    [StudentCreateForm |-> {"parent_data"}, UserEditForm |-> {"parent_record"},
     ContactForm |-> ContactFields]

PairsOf(table) == UNION {{f} \X table[f] : f \in DOMAIN table}

WebKept == PairsOf(KeptOf)
WebPageFills == PairsOf(PageDefaults)
WebServerFills == PairsOf(ServerDefaults)
WebZeroAsBlank == PairsOf(ZeroLost)
WebUnread == PairsOf(NotRead)
WebReplaced == PairsOf(Derived)
WebNested == PairsOf(NestedFields)
WebSilent ==
    LET forms == WebForm
        Reasons(f) == forms[f].needs \cup forms[f].sends \cup forms[f].omits \cup {Whole}
    IN  PairsOf(MuteFields) \cup PairsOf([f \in MuteForms |-> Reasons(f)])
=============================================================================
