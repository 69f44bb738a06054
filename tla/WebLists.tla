------------------------------ MODULE WebLists ------------------------------
(***************************************************************************)
(* The lists of the web client as Listing sees them.  One row of the model  *)
(* stands for ten.                                                          *)
(***************************************************************************)
EXTENDS Listing, StudentsWeb, ClassesWeb, BillingWeb, StaffWeb, FacilitiesWeb, SettingsWeb

WebListings ==
    StudentsListings @@ ClassesListings @@ BillingListings @@ StaffListings @@ FacilitiesListings
        @@ SettingsListings

RowsPerRow == 10
WebList ==
    LET listings == WebListings
    IN  [l \in DOMAIN listings |-> [listings[l] EXCEPT !.size = @ \div RowsPerRow]]

(* PAGE_SIZE of the server; no view of it takes page_size from the request.  *)
WebServerSize == 20 \div RowsPerRow

(* No control of these leads to a second page; most ask for one page that is *)
(* to hold everything, and get the first twenty rows of it.                  *)
ClippedLists ==
    {"ClassesListing", "AttendanceListing", "CoachAttendanceListing", "CoachsAttendanceListing",
     "ParentInvoicesListing", "UnifiedListing", "OverridesListing", "PendingListing",
     "CoachesListing", "PaySchemesListing", "StaffInvoicesListing", "StaffReceiptsListing",
     "StaffAttendanceListing", "PendingStaffListing",
     "RentConfigsListing", "RentInvoicesListing", "BillsListing", "InventoryListing",
     "BillLinesListing", "PendingRentListing",
     "LocationsListing", "SportsListing", "AgeCategoriesListing", "TermsListing"}

(* These have no filter, and show an error in place of the controls, or have *)
(* no controls before the page has been answered once.                       *)
DeadEndLists ==
    {"SchedulesListing", "PaySchedulesListing", "RentSchedulesListing", "InvoiceReceiptsListing"}
=============================================================================
