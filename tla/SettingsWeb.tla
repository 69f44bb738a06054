----------------------------- MODULE SettingsWeb -----------------------------
(* Settings, master data, bulk import and users (features/tenant/settings and *)
(* features/tenant/users).                                                     *)
EXTENDS WebKit

LocationCalls ==
    [getLocations |-> "GET locations", createLocation |-> "POST locations",
     updateLocation |-> "PATCH location", deleteLocation |-> "DELETE location"]
SportCalls ==
    [getSports |-> "GET sports", createSport |-> "POST sports", updateSport |-> "PATCH sport",
     deleteSport |-> "DELETE sport"]
AgeCategoryCalls ==
    [getAgeCategories |-> "GET ages", createAgeCategory |-> "POST ages",
     updateAgeCategory |-> "PATCH age", deleteAgeCategory |-> "DELETE age"]
TermCalls ==
    [getTerms |-> "GET terms", createTerm |-> "POST terms", updateTerm |-> "PATCH term",
     deleteTerm |-> "DELETE term"]
AccountCalls ==
    [getCurrentAccount |-> "GET account", updateCurrentAccount |-> "PATCH account",
     changePassword |-> "POST password"]
AcademyCalls ==
    [getAcademySettings |-> "GET academy", updateAcademySettings |-> "PATCH academy",
     getAcademyTaxSettings |-> "GET tax", updateAcademyTaxSettings |-> "PATCH tax",
     getAcademySubscription |-> "GET subscription", getAcademyUsage |-> "GET usage"]
BulkCalls ==
    [getBulkImportSchema |-> "GET import schema", previewBulkImport |-> "POST import preview",
     commitBulkImport |-> "POST import"]
UserCalls ==
    [getUsers |-> "GET users", getCoachesForManagement |-> "GET managed coaches",
     getParentsForManagement |-> "GET managed parents",
     inviteGuardianParent |-> "POST invite parent", inviteStaffCoach |-> "POST invite coach",
     getUser |-> "GET user", inviteUser |-> "POST users", updateUser |-> "PATCH user",
     resendInvite |-> "POST resend"]

(* Each kind of master data has a list; its detail query is mounted nowhere. *)
List(kind) == <<kind, "list">>
Detail(kind) == <<kind, "detail", Id>>
LocationHooks ==
    [useLocations      |-> Query(List("locations"), "getLocations"),
     useCreateLocation |-> Mutation("createLocation", {List("locations")}),
     useUpdateLocation |-> Mutation("updateLocation", {List("locations"), Detail("locations")}),
     useDeleteLocation |-> Mutation("deleteLocation", {List("locations")})]
SportHooks ==
    [useSports      |-> Query(List("sports"), "getSports"),
     useCreateSport |-> Mutation("createSport", {List("sports")}),
     useUpdateSport |-> Mutation("updateSport", {List("sports"), Detail("sports")}),
     useDeleteSport |-> Mutation("deleteSport", {List("sports")})]
AgeCategoryHooks ==
    [useAgeCategories     |-> Query(List("age-categories"), "getAgeCategories"),
     useCreateAgeCategory |-> Mutation("createAgeCategory", {List("age-categories")}),
     useUpdateAgeCategory |->
         Mutation("updateAgeCategory", {List("age-categories"), Detail("age-categories")}),
     useDeleteAgeCategory |-> Mutation("deleteAgeCategory", {List("age-categories")})]
TermHooks ==
    [useTerms      |-> Query(List("terms"), "getTerms"),
     useCreateTerm |-> Mutation("createTerm", {List("terms")}),
     useUpdateTerm |-> Mutation("updateTerm", {List("terms"), Detail("terms")}),
     useDeleteTerm |-> Mutation("deleteTerm", {List("terms")})]
AccountHooks ==
    [useCurrentAccount       |-> Query(<<"current-account">>, "getCurrentAccount"),
     useUpdateCurrentAccount |-> Mutation("updateCurrentAccount", {<<"current-account">>}),
     useChangePassword       |-> Mutation("changePassword", {})]
AcademyHooks ==
    [useAcademySettings          |-> Query(<<"academy-settings">>, "getAcademySettings"),
     useUpdateAcademySettings    |-> Mutation("updateAcademySettings", {<<"academy-settings">>}),
     useAcademyTaxSettings       |-> Query(<<"academy-tax-settings">>, "getAcademyTaxSettings"),
     useUpdateAcademyTaxSettings |-> Mutation("updateAcademyTaxSettings", {<<"academy-tax-settings">>}),
     useAcademySubscription      |-> Query(<<"academy-subscription">>, "getAcademySubscription"),
     useAcademyUsage             |-> Query(<<"academy-usage">>, "getAcademyUsage")]
BulkHooks ==
    [useBulkImportSchema |-> Query(<<"bulk-import-schema">>, "getBulkImportSchema")]
(* Requests the page sends itself.                                           *)
ImportHooks ==
    [previewImport |-> Mutation("previewBulkImport", {}), commitImport |-> Mutation("commitBulkImport", {})]

Users(part) == <<"users", part>>
UserHooks ==
    [useAdminAndStaffUsers   |-> Query(Users("list"), "getUsers"),
     useCoachesForManagement |-> Query(Users("coaches-for-management"), "getCoachesForManagement"),
     useParentsForManagement |-> Query(Users("parents-for-management"), "getParentsForManagement"),
     useUser                 |-> Query(<<"users", "detail", Id>>, "getUser")]
InviteHooks ==
    [useInviteUser           |-> Mutation("inviteUser", {Users("list")}),
     useInviteStaffCoach     |->
         Mutation("inviteStaffCoach", {Users("coaches-for-management"), Users("list")}),
     useInviteGuardianParent |->
         Mutation("inviteGuardianParent", {Users("parents-for-management"), Users("list")})]
UserChangeHooks ==
    [useUpdateUser   |-> Mutation("updateUser", {Users("list")}),
     useResendInvite |-> Mutation("resendInvite", {Users("list")})]

----------------------------------------------------------------------------
(* Master data: a dialog for a new row, one for editing, one for deleting.  *)
RowSave(hook, kind) == Save(hook, <<Use(hook, kind)>>, {hook}, Closes)
CreateLocation == RowSave("useCreateLocation", NoId)
UpdateLocation == RowSave("useUpdateLocation", Num)
DeleteLocation == RowSave("useDeleteLocation", Num)
LocationsPage == Page({Use("useLocations", NoId)}, {CreateLocation, UpdateLocation, DeleteLocation})
CreateSport == RowSave("useCreateSport", NoId)
UpdateSport == RowSave("useUpdateSport", Num)
DeleteSport == RowSave("useDeleteSport", Num)
SportsPage == Page({Use("useSports", NoId)}, {CreateSport, UpdateSport, DeleteSport})
CreateAgeCategory == RowSave("useCreateAgeCategory", NoId)
UpdateAgeCategory == RowSave("useUpdateAgeCategory", Num)
DeleteAgeCategory == RowSave("useDeleteAgeCategory", Num)
AgeCategoriesPage ==
    Page({Use("useAgeCategories", NoId)}, {CreateAgeCategory, UpdateAgeCategory, DeleteAgeCategory})
CreateTerm == RowSave("useCreateTerm", NoId)
UpdateTerm == RowSave("useUpdateTerm", Num)
DeleteTerm == RowSave("useDeleteTerm", Num)
TermsPage == Page({Use("useTerms", NoId)}, {CreateTerm, UpdateTerm, DeleteTerm})

MasterForm(call, sends, omits, shows) ==
    [call |-> call, needs |-> sends, sends |-> sends, omits |-> omits, parse |-> "fields",
     shows |-> shows, refills |-> FALSE]
AddressOmits ==
    {"address_line1", "city", "state", "postal_code", "country", "phone", "capacity"}
LocationDialog ==
    {"name", "address_line1", "city", "state", "postal_code", "country", "phone", "capacity", Banner}
LocationCreateForm == MasterForm("createLocation", {"name"}, AddressOmits, LocationDialog)
LocationEditDialog ==
    {"name", "address_line1", "city", "state", "postal_code", "country", "phone", "capacity", Banner}
LocationEditForm == MasterForm("updateLocation", {"name"}, AddressOmits, LocationEditDialog)
SportDialog == {"name", "description", "age_min", "age_max", Banner}
SportCreateForm ==
    MasterForm("createSport", {"name"}, {"description", "age_min", "age_max"}, SportDialog)
SportEditDialog == {"name", "description", "age_min", "age_max", Banner}
SportEditForm ==
    MasterForm("updateSport", {"name"}, {"description", "age_min", "age_max"}, SportEditDialog)
AgeFields == {"name", "age_min", "age_max"}
AgeDialog == AgeFields \cup {"description", Banner}
(* The ages are numbers from the first: an empty input is a 0. *)
AgeCategoryCreateForm ==
    [MasterForm("createAgeCategory", AgeFields, {"description"}, AgeDialog) EXCEPT !.needs = {"name"}]
AgeEditFields == {"name", "age_min", "age_max"}
AgeEditDialog == AgeEditFields \cup {"description", Banner}
AgeCategoryEditForm ==
    [MasterForm("updateAgeCategory", AgeEditFields, {"description"}, AgeEditDialog)
        EXCEPT !.needs = {"name"}]
TermNeeds == {"name", "start_date", "end_date"}
TermDialog == TermNeeds \cup {"description", Banner}
TermCreateForm == MasterForm("createTerm", TermNeeds, {"description"}, TermDialog)
TermEditNeeds == {"name", "start_date", "end_date"}
TermEditDialog == TermEditNeeds \cup {"description", Banner}
TermEditForm == MasterForm("updateTerm", TermEditNeeds, {"description"}, TermEditDialog)

(* A refused deletion is reported inside the dialog for editing, which is    *)
(* closed.                                                                   *)
MasterDelete(call) ==
    [call |-> call, needs |-> {}, sends |-> {}, omits |-> {}, parse |-> "nothing", shows |-> {},
     refills |-> FALSE]
LocationDelete == MasterDelete("deleteLocation")
SportDelete == MasterDelete("deleteSport")
AgeCategoryDelete == MasterDelete("deleteAgeCategory")
TermDelete == MasterDelete("deleteTerm")

MasterListing(query) ==
    [query |-> query, size |-> 100, pager |-> "none", resets |-> {}, keeps |-> {"search"},
     deletes |-> TRUE]
LocationsListing == MasterListing("useLocations")
SportsListing == MasterListing("useSports")
AgeCategoriesListing == MasterListing("useAgeCategories")
TermsListing == MasterListing("useTerms")

----------------------------------------------------------------------------
AcademySettingsPage ==
    Page({Use("useAcademySettings", NoId)},
         {Save("save academy", <<Use("useUpdateAcademySettings", NoId)>>,
               {"useUpdateAcademySettings"}, Closes)})
AcademyFields == {"name", "email", "phone", "website", "timezone", "currency"}
AddressFields == {"address_line1", "address_line2", "city", "state", "postal_code", "country"}
AcademyForm ==
    [call |-> "updateAcademySettings", needs |-> {}, sends |-> AcademyFields \cup AddressFields,
     omits |-> {}, parse |-> "fields", shows |-> AcademyFields \cup AddressFields \cup {Banner},
     refills |-> TRUE]
TaxSettingsPage ==
    Page({Use("useAcademyTaxSettings", NoId)},
         {Save("save tax", <<Use("useUpdateAcademyTaxSettings", NoId)>>,
               {"useUpdateAcademyTaxSettings"}, Closes)})
(* The rate is left out while the tax is off. *)
TaxForm ==
    [call |-> "updateAcademyTaxSettings", needs |-> {}, sends |-> {"global_tax_enabled"},
     omits |-> {"global_tax_rate_percent"}, parse |-> "fields",
     shows |-> {"global_tax_rate_percent", Banner}, refills |-> TRUE]
AccountSettingsPage ==
    Page({Use("useCurrentAccount", NoId)},
         {Save("save account", <<Use("useUpdateCurrentAccount", NoId)>>, {"useUpdateCurrentAccount"}, Closes),
          Save("save password", <<Use("useChangePassword", NoId)>>, {"useChangePassword"}, Closes)})
AccountFields == {"first_name", "last_name", "email"}
AccountForm ==
    [call |-> "updateCurrentAccount", needs |-> {}, sends |-> AccountFields, omits |-> {},
     parse |-> "fields", shows |-> AccountFields \cup {Banner}, refills |-> TRUE]
PasswordFields == {"current_password", "new_password", "new_password_confirm"}
PasswordForm ==
    [call |-> "changePassword", needs |-> PasswordFields, sends |-> PasswordFields, omits |-> {},
     parse |-> "fields", shows |-> PasswordFields \cup {Banner}, refills |-> FALSE]
ImportButtons == {"previewImport", "commitImport"}
BulkActionsPage ==
    Page({Use("useBulkImportSchema", NoId)},
         {Save("import file", <<Use("commitImport", NoId)>>, ImportButtons, Closes)})
ImportForm ==
    [call |-> "commitBulkImport", needs |-> {"file"}, sends |-> {"file"}, omits |-> {}, parse |-> "text",
     shows |-> {Banner}, refills |-> FALSE]
UsageSettingsPage == Page({Use("useAcademyUsage", NoId)}, {})
SubscriptionSettingsPage == Page({Use("useAcademySubscription", NoId)}, {})
SettingsHomePage ==
    Page({Use(h, NoId) : h \in {"useCurrentAccount", "useAcademySettings", "useAcademySubscription",
                                "useAcademyUsage"}}, {})

----------------------------------------------------------------------------
(* Users. *)
InviteFrom(hook) == Save(hook, <<Use(hook, Num)>>, {hook}, Closes)
Invites == {InviteFrom("useInviteStaffCoach"), InviteFrom("useInviteGuardianParent")}
(* The page refetches the tab that is open, whichever it is. *)
TabQueries == {Users("list"), Users("coaches-for-management"), Users("parents-for-management")}
CreateUser ==
    Save("invite user", <<UseAnd("useInviteUser", NoId, TabQueries)>>, {"useInviteUser"}, Closes)
RowActions ==
    {Save("toggle user", <<UseAnd("useUpdateUser", Num, TabQueries)>>, {"useUpdateUser"}, Closes),
     Save("resend invite", <<UseAnd("useResendInvite", Num, TabQueries)>>, {"useResendInvite"}, Closes)}
UsersPage ==
    Page({Use("useAdminAndStaffUsers", NoId), Use("useCoachesForManagement", NoId),
          Use("useParentsForManagement", NoId)},
         Invites \cup {CreateUser} \cup RowActions)
UserFields == {"email", "role", "allowed_modules"}
CreateUserForm ==
    [call |-> "inviteUser", needs |-> {"email"}, sends |-> UserFields,
     omits |-> {"first_name", "last_name"}, parse |-> "fields",
     shows |-> UserFields \cup {"first_name", "last_name", Banner}, refills |-> FALSE]

ThisUser == <<"users", "detail", Num>>
DisableUser ==
    Save("disable user", <<UseAnd("useUpdateUser", Num, {ThisUser})>>, {"useUpdateUser"}, Closes)
UserDetailPage ==
    Page({Use("useUser", Num)},
         {Save("save user", <<UseAnd("useUpdateUser", Num, {ThisUser})>>, {"useUpdateUser"}, Closes),
          DisableUser})
(* The record of a parent is one nested object, whose messages have no place. *)
UserEditSends == {"allowed_modules", "parent_record"}
UserEditForm ==
    [call |-> "updateUser", needs |-> {}, sends |-> UserEditSends,
     omits |-> {"first_name", "last_name"}, parse |-> "fields",
     shows |-> {"first_name", "last_name", "allowed_modules", Banner}, refills |-> FALSE]

(* The button that disables a user, or enables it again, on the page of the  *)
(* user and in the row of the list, which drops a refusal.                   *)
UserStatusForm ==
    [call |-> "updateUser", needs |-> {"status"}, sends |-> {"status"}, omits |-> {},
     parse |-> "generic", shows |-> {Banner}, refills |-> FALSE]
UserRowStatusForm == [UserStatusForm EXCEPT !.parse = "nothing", !.shows = {}]

(* An account that has no session yet. *)
AcceptInviteForm ==
    [call |-> "acceptInvite", needs |-> {"password", "password_confirm"},
     sends |-> {"password", "password_confirm"}, omits |-> {"first_name", "last_name"},
     parse |-> "generic", shows |-> {"password", "first_name", "last_name", Banner}, refills |-> FALSE]
ResetPasswordForm ==
    [call |-> "resetPassword", needs |-> {"password", "password_confirm"},
     sends |-> {"password", "password_confirm"}, omits |-> {}, parse |-> "text", shows |-> {Banner},
     refills |-> FALSE]
ForgotPasswordForm ==
    [call |-> "forgotPassword", needs |-> {"email"}, sends |-> {"email"}, omits |-> {}, parse |-> "text",
     shows |-> {Banner}, refills |-> FALSE]
LoginForm ==
    [call |-> "login", needs |-> {"email", "password"}, sends |-> {"email", "password"}, omits |-> {},
     parse |-> "text", shows |-> {Banner}, refills |-> FALSE]

----------------------------------------------------------------------------
SettingsHooks ==
    LocationHooks @@ SportHooks @@ AgeCategoryHooks @@ TermHooks @@ AccountHooks @@ AcademyHooks
        @@ BulkHooks @@ ImportHooks @@ UserHooks @@ InviteHooks @@ UserChangeHooks
SettingsCalls ==
    LocationCalls @@ SportCalls @@ AgeCategoryCalls @@ TermCalls @@ AccountCalls @@ AcademyCalls
        @@ BulkCalls @@ UserCalls
SettingsPages ==
    [LocationsPage |-> LocationsPage, SportsPage |-> SportsPage, AgeCategoriesPage |-> AgeCategoriesPage,
     TermsPage |-> TermsPage, AcademySettingsPage |-> AcademySettingsPage,
     TaxSettingsPage |-> TaxSettingsPage, BulkActionsPage |-> BulkActionsPage,
     AccountSettingsPage |-> AccountSettingsPage,
     UsageSettingsPage |-> UsageSettingsPage, SubscriptionSettingsPage |-> SubscriptionSettingsPage,
     SettingsHomePage |-> SettingsHomePage, UsersPage |-> UsersPage, UserDetailPage |-> UserDetailPage]
SettingsForms ==
    [LocationCreateForm |-> LocationCreateForm, LocationEditForm |-> LocationEditForm,
     SportCreateForm |-> SportCreateForm, SportEditForm |-> SportEditForm,
     AgeCategoryCreateForm |-> AgeCategoryCreateForm, AgeCategoryEditForm |-> AgeCategoryEditForm,
     TermCreateForm |-> TermCreateForm, TermEditForm |-> TermEditForm,
     LocationDelete |-> LocationDelete, SportDelete |-> SportDelete,
     AgeCategoryDelete |-> AgeCategoryDelete, TermDelete |-> TermDelete,
     AcademyForm |-> AcademyForm, TaxForm |-> TaxForm, AccountForm |-> AccountForm,
     PasswordForm |-> PasswordForm, ImportForm |-> ImportForm, CreateUserForm |-> CreateUserForm, UserEditForm |-> UserEditForm,
     UserStatusForm |-> UserStatusForm, UserRowStatusForm |-> UserRowStatusForm,
     AcceptInviteForm |-> AcceptInviteForm, ResetPasswordForm |-> ResetPasswordForm,
     ForgotPasswordForm |-> ForgotPasswordForm, LoginForm |-> LoginForm]
SettingsListings ==
    [LocationsListing |-> LocationsListing, SportsListing |-> SportsListing,
     AgeCategoriesListing |-> AgeCategoriesListing, TermsListing |-> TermsListing]
=============================================================================
