---------------------------- MODULE StudentsWeb -----------------------------
(* Students and their parents (features/tenant/students and .../parent). *)
EXTENDS WebKit

StudentCalls ==
    [getStudents |-> "GET students", getStudent |-> "GET student",
     createStudent |-> "POST students", updateStudent |-> "PATCH student",
     deleteStudent |-> "DELETE student"]

ParentCalls == [getParents |-> "GET parents", getParent |-> "GET parent"]

StudentQueries ==
    [useStudents |-> Query(<<"students", "list">>, "getStudents"),
     useStudent  |-> Query(<<"students", "detail", Id>>, "getStudent")]

StudentMutations ==
    [useCreateStudent |-> Mutation("createStudent", {<<"students", "list">>}),
     useUpdateStudent |-> Mutation("updateStudent", {<<"students", "list">>, <<"students", "detail", Id>>}),
     useDeleteStudent |-> Removal("deleteStudent", {<<"students", "list">>}, {<<"students", "detail", Id>>})]

PortalCalls == [getPortalStudent |-> "GET portal student", patchPortalStudent |-> "PATCH portal student"]
PortalHooks ==
    [usePortalStudent |-> Query(<<"portal-student", Id>>, "getPortalStudent"),
     usePatchPortalStudent |-> Putting("patchPortalStudent", {<<"portal-student", Id>>})]

ParentQueries ==
    [useParents |-> Query(<<"parents", "list">>, "getParents"),
     useParent  |-> Query(<<"parents", "detail", Id>>, "getParent")]

----------------------------------------------------------------------------
ToggleStudent ==
    Save("toggle student", <<Use("useUpdateStudent", Num)>>, {"useUpdateStudent"}, Closes)
StudentsListPage == Page({Use("useStudents", NoId)}, {ToggleStudent})
StudentsListingOfFifty ==      \* counts on more rows than the server sends
    [query |-> "useStudents", size |-> 50, pager |-> "beside",
     resets |-> {"search", "is_active", "gender"}, keeps |-> {}, deletes |-> FALSE]
StudentsListingOrError ==      \* an error takes the place of the table, and a filter keeps the page
    [query |-> "useStudents", size |-> DefaultSize, pager |-> "replaced",
     resets |-> {}, keeps |-> {"search", "is_active", "gender"}, deletes |-> FALSE]
StudentsListing ==
    [query |-> "useStudents", size |-> DefaultSize, pager |-> "beside",
     resets |-> {"search", "is_active", "gender"}, keeps |-> {}, deletes |-> FALSE]

SaveNewStudent ==
    Save("create student", <<Use("useCreateStudent", NoId)>>, {"useCreateStudent"}, "StudentDetailPage")
StudentCreatePage == Page({Use("useParents", NoId), Use("useClasses", NoId)}, {SaveNewStudent})

StudentCreateNeeds == {"first_name", "last_name", "date_of_birth"}
NewParentNeeds == {"parent_data"}
StudentCreateSends == StudentCreateNeeds \cup {"gender", "is_active"}
NewStudentFields == {"first_name", "last_name", "date_of_birth", "gender", "emirates_id", "enroll_class_id"}
NewParentFields == {"parent"}     \* the inputs of parent_data show only what the client found
NewStudentCareFields ==
    {"emergency_contact_name", "emergency_contact_phone", "emergency_contact_relationship",
     "medical_notes", "allergies", "is_active"}
StudentCreateForm ==
    [call |-> "createStudent", needs |-> StudentCreateNeeds \cup NewParentNeeds,
     sends |-> StudentCreateSends,
     omits |-> ((NewStudentFields \cup NewParentFields \cup NewStudentCareFields) \ StudentCreateSends)
                  \cup {"parent_data"},
     parse |-> "fields",
     shows |-> NewStudentFields \cup NewParentFields \cup NewStudentCareFields \cup {Banner},
     refills |-> FALSE]

DeleteStudentDialog == {"useDeleteStudent"}
DeleteStudent ==
    Save("delete student", <<Use("useDeleteStudent", Text)>>, DeleteStudentDialog, "StudentsListPage")
StudentDetailPage ==
    Page({Use("useStudent", Text), Use("useEnrollments", NoId), Use("useAttendance", NoId)}, {DeleteStudent})

SaveStudent ==
    Save("save student", <<Use("useUpdateStudent", Text)>>, {"useUpdateStudent"}, "StudentDetailPage")
StudentEditPage == Page({Use("useStudent", Text), Use("useParents", NoId)}, {SaveStudent})

StudentEditNeeds == {"first_name", "last_name"}
StudentFields == {"first_name", "last_name", "date_of_birth", "gender", "emirates_id", "parent"}
CareFields ==
    {"emergency_contact_name", "emergency_contact_phone", "emergency_contact_relationship",
     "medical_notes", "allergies", "is_active"}
StudentEditSends == {"first_name", "last_name", "gender", "is_active"}
StudentEditForm ==
    [call |-> "updateStudent", needs |-> StudentEditNeeds, sends |-> StudentEditSends,
     omits |-> (StudentFields \cup CareFields) \ StudentEditSends,
     parse |-> "fields", shows |-> StudentFields \cup CareFields \cup {Banner}, refills |-> TRUE]

ParentChildrenPage ==
    Page({Use("useStudents", NoId), Use("useEnrollments", NoId), Use("useAttendance", NoId)}, {})

SaveContact ==
    Save("save contact", <<Use("useUpdateCurrentAccount", NoId)>>, {"useUpdateCurrentAccount"}, Closes)
SaveChild ==
    Save("save child", <<Use("usePatchPortalStudent", Num)>>, {"usePatchPortalStudent"}, Closes)
ParentPersonalInfoPage ==
    Page({Use("useCurrentAccount", NoId), Use("useStudents", NoId), Use("usePortalStudent", Num)},
         {SaveContact, SaveChild})
ContactFields ==
    {"parent_profile.phone", "parent_record.phone", "address_line1", "address_line2", "city", "state",
     "postal_code", "country"}
ContactForm ==
    [call |-> "updateCurrentAccount", needs |-> {}, sends |-> ContactFields, omits |-> {},
     parse |-> "fields", shows |-> {Banner}, refills |-> TRUE]
ChildSafetyFields ==
    {"emergency_contact_name", "emergency_contact_phone", "emergency_contact_relationship",
     "medical_notes", "allergies"}
ChildSafetyForm ==
    [call |-> "patchPortalStudent", needs |-> {}, sends |-> ChildSafetyFields, omits |-> {},
     parse |-> "fields", shows |-> {Banner}, refills |-> TRUE]

----------------------------------------------------------------------------
StudentsHooks == StudentQueries @@ StudentMutations @@ ParentQueries @@ PortalHooks
StudentsCalls == StudentCalls @@ ParentCalls @@ PortalCalls
StudentsPages ==
    [StudentsListPage |-> StudentsListPage, StudentCreatePage |-> StudentCreatePage,
     StudentDetailPage |-> StudentDetailPage, StudentEditPage |-> StudentEditPage,
     ParentChildrenPage |-> ParentChildrenPage, ParentPersonalInfoPage |-> ParentPersonalInfoPage]
StudentsForms ==
    [StudentCreateForm |-> StudentCreateForm, StudentEditForm |-> StudentEditForm,
     ContactForm |-> ContactForm, ChildSafetyForm |-> ChildSafetyForm]
StudentsListings == [StudentsListing |-> StudentsListing]
=============================================================================
