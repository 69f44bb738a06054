----------------------------- MODULE ClassesWeb -----------------------------
(* Classes, enrollments and attendance (features/tenant/classes and        *)
(* features/tenant/attendance).                                            *)
EXTENDS WebKit

ClassCalls ==
    [getClasses |-> "GET classes", getClass |-> "GET class", createClass |-> "POST classes",
     updateClass |-> "PATCH class", deleteClass |-> "DELETE class", enrollStudent |-> "POST enroll"]
EnrollmentCalls ==
    [getEnrollments |-> "GET enrollments", getEnrollment |-> "GET enrollment",
     createEnrollment |-> "POST enrollments", updateEnrollment |-> "PATCH enrollment",
     deleteEnrollment |-> "DELETE enrollment"]
AttendanceCalls ==
    [getAttendance |-> "GET attendance", markAttendance |-> "POST attendance/mark"]
CoachAttendanceCalls ==
    [getCoachAttendance |-> "GET coach-attendance", markCoachAttendance |-> "POST coach-attendance/mark"]

ClassList == <<"classes", "list">>
ClassDetail == <<"classes", "detail", Id>>
EnrollmentList == <<"enrollments", "list">>
EnrollmentDetail == <<"enrollments", "detail", Id>>

ClassQueries == [useClasses |-> Query(ClassList, "getClasses"), useClass |-> Query(ClassDetail, "getClass")]
ClassMutations ==
    [useCreateClass |-> Mutation("createClass", {ClassList}),
     useUpdateClass |-> Mutation("updateClass", {ClassList, ClassDetail}),
     useDeleteClass |-> Removal("deleteClass", {ClassList}, {ClassDetail}),
     useEnrollStudent |-> Mutation("enrollStudent", {ClassList, ClassDetail, EnrollmentList})]

EnrollmentQueries ==
    [useEnrollments |-> Query(EnrollmentList, "getEnrollments"),
     useEnrollment  |-> Query(EnrollmentDetail, "getEnrollment")]
EnrollmentMutations ==
    [useCreateEnrollment |-> Mutation("createEnrollment", {EnrollmentList, ClassList}),
     useUpdateEnrollment |-> Mutation("updateEnrollment", {EnrollmentList, EnrollmentDetail}),
     useDeleteEnrollment |-> Removal("deleteEnrollment", {EnrollmentList, ClassList}, {EnrollmentDetail}),
     enrollAll           |-> Mutation("createEnrollment", {EnrollmentList, ClassDetail})]

AttendanceHooks ==
    [useAttendance     |-> Query(<<"attendance", "list">>, "getAttendance"),
     useMarkAttendance |-> Mutation("markAttendance", {<<"attendance", "list">>})]
CoachAttendanceHooks ==
    [useCoachAttendance     |-> Query(<<"coach-attendance", "list">>, "getCoachAttendance"),
     useMarkCoachAttendance |-> Mutation("markCoachAttendance", {<<"coach-attendance", "list">>})]

----------------------------------------------------------------------------
(* Classes. *)
ToggleClass == Save("toggle class", <<Use("useUpdateClass", Num)>>, {"useUpdateClass"}, Closes)
DeleteConfirmation == {"useDeleteClass"}
DeleteListedClass ==
    Save("delete listed class", <<Use("useDeleteClass", Num)>>, DeleteConfirmation, Closes)
ClassesListPage ==
    Page({Use("useClasses", NoId), Use("useLocations", NoId), Use("useSports", NoId)},
         {ToggleClass, DeleteListedClass})
ClassesListing ==
    [query |-> "useClasses", size |-> DefaultSize, pager |-> "none",
     resets |-> {}, keeps |-> {"search", "is_active", "sport", "location"}, deletes |-> TRUE]

SaveNewClass ==
    Save("create class", <<Use("useCreateClass", NoId)>>, {"useCreateClass"}, "ClassDetailPage")
ClassCreatePage ==
    Page({Use("useCoaches", NoId), Use("useLocations", NoId), Use("useSports", NoId)}, {SaveNewClass})
NewClassFields ==
    {"name", "description", "coach", "max_capacity", "sport", "location", "start_date", "end_date"}
ClassCreateForm ==
    [call |-> "createClass", needs |-> {"name"},
     sends |-> {"name", "description", "max_capacity", "is_active"},
     omits |-> {"coach", "sport", "location", "start_date", "end_date"},
     parse |-> "raw", shows |-> NewClassFields \cup {Banner}, refills |-> FALSE]

SaveClass == Save("save class", <<Use("useUpdateClass", Text)>>, {"useUpdateClass"}, "ClassDetailPage")
ClassEditPage ==
    Page({Use("useClass", Text), Use("useCoaches", NoId), Use("useLocations", NoId), Use("useSports", NoId)},
         {SaveClass})
ClassFields ==
    {"name", "description", "coach", "max_capacity", "sport", "location", "start_date", "end_date"}
ClassEditForm ==
    [call |-> "updateClass", needs |-> {"name"},
     sends |-> {"name", "description", "max_capacity", "is_active"},
     omits |-> {"coach", "sport", "location", "start_date", "end_date"},
     parse |-> "raw", shows |-> ClassFields \cup {Banner}, refills |-> TRUE]

DeleteClass == Save("delete class", <<Use("useDeleteClass", Text)>>, {"useDeleteClass"}, "ClassesListPage")
ClassDetailPage == Page({Use("useClass", Text)}, {DeleteClass})

----------------------------------------------------------------------------
(* Enrollments of a class; `enrollAll` sends one request per student and    *)
(* tells the cache when the last has been answered.                         *)
RemoveEnrollment ==
    Save("remove enrollment", <<UseAnd("useDeleteEnrollment", Num, {EnrollmentList})>>,
         {"useUpdateEnrollment", "useDeleteEnrollment"}, Closes)
EditEnrollment ==
    Save("edit enrollment", <<UseAnd("useUpdateEnrollment", Num, {EnrollmentList})>>,
         {"useUpdateEnrollment"}, Closes)
EnrollAll ==
    Save("enroll all", <<UseAnd("enrollAll", Text, {EnrollmentList})>>, {"enrollAll"}, Closes)
StudentPicker == {Use("useStudents", NoId)}
EnrollmentPage ==
    Page({Use("useClass", Text), Use("useEnrollments", NoId)} \cup StudentPicker,
         {RemoveEnrollment, EditEnrollment, EnrollAll})
EnrollmentForm ==
    [call |-> "updateEnrollment", needs |-> {}, sends |-> {"status"}, omits |-> {"notes"},
     parse |-> "fields", shows |-> {"notes", Banner}, refills |-> FALSE]

(* The reasons of refused students are looked for where they are not.       *)
EnrollAllForm ==
    [call |-> "createEnrollment", needs |-> {"student"}, sends |-> {"student"}, omits |-> {},
     parse |-> "generic", shows |-> {Banner}, refills |-> FALSE]

CoachClassDetailPage == Page({Use("useClass", Text)}, {})
CoachClassesPage == Page({Use("useClasses", NoId)}, {})

----------------------------------------------------------------------------
(* Attendance. *)
AttendancePage ==
    Page({Use("useClasses", NoId), Use("useCoaches", NoId), Use("useAttendance", NoId),
          Use("useCoachAttendance", NoId)}, {})
AttendanceListing ==
    [query |-> "useAttendance", size |-> DefaultSize, pager |-> "none",
     resets |-> {}, keeps |-> {"class_obj", "date", "status"}, deletes |-> FALSE]
CoachAttendanceListing ==
    [query |-> "useCoachAttendance", size |-> 100, pager |-> "none",
     resets |-> {}, keeps |-> {"coach", "class_obj", "date", "status"}, deletes |-> FALSE]

MarkAttendance ==
    Save("mark attendance", <<Use("useMarkAttendance", NoId)>>, {"useMarkAttendance"}, "AttendancePage")
AttendanceMarkPage == Page({Use("useClasses", NoId), Use("useEnrollments", NoId)}, {MarkAttendance})
MarkFields == {"class_id", "date"}
MarkForm ==
    [call |-> "markAttendance", needs |-> {"class_id", "date", "attendance_records"},
     sends |-> {"class_id", "date", "attendance_records"}, omits |-> {"notes"},
     parse |-> "raw", shows |-> MarkFields \cup {"attendance_records", Banner}, refills |-> TRUE]

CoachMarkAttendance ==
    Save("coach marks attendance", <<Use("useMarkAttendance", NoId)>>, {"useMarkAttendance"},
         "CoachAttendancePage")
CoachAttendanceMarkPage == Page({Use("useClasses", NoId), Use("useEnrollments", NoId)}, {CoachMarkAttendance})
CoachMarkFields == {"class_id", "date"}
CoachMarkForm ==
    [call |-> "markAttendance", needs |-> {"class_id", "date", "attendance_records"},
     sends |-> {"class_id", "date", "attendance_records"}, omits |-> {"notes"},
     parse |-> "raw", shows |-> CoachMarkFields \cup {"attendance_records", Banner}, refills |-> TRUE]

CoachAttendancePage == Page({Use("useClasses", NoId), Use("useAttendance", NoId)}, {})
CoachsAttendanceListing ==
    [query |-> "useAttendance", size |-> DefaultSize, pager |-> "none",
     resets |-> {}, keeps |-> {"class_obj", "date", "status"}, deletes |-> FALSE]

(* One request per coach, one after the other. *)
MarkCoaches ==
    Save("mark coaches", <<Use("useMarkCoachAttendance", NoId), Use("useMarkCoachAttendance", NoId)>>,
         {"mark coaches", "useMarkCoachAttendance"}, Closes)
CoachAttendanceMarkStaffPage ==
    Page({Use("useClasses", NoId), Use("useCoaches", NoId), Use("useCoachAttendance", NoId)}, {MarkCoaches})
MarkCoachesForm ==
    [call |-> "markCoachAttendance", needs |-> {"class_id", "date", "status"},
     sends |-> {"class_id", "date", "status"}, omits |-> {"notes"},
     parse |-> "text", shows |-> {Banner}, refills |-> TRUE]

ParentAttendancePage == Page({Use("useStudents", NoId), Use("useAttendance", NoId)}, {})

----------------------------------------------------------------------------
ClassesHooks ==
    ClassQueries @@ ClassMutations @@ EnrollmentQueries @@ EnrollmentMutations
        @@ AttendanceHooks @@ CoachAttendanceHooks
ClassesCalls == ClassCalls @@ EnrollmentCalls @@ AttendanceCalls @@ CoachAttendanceCalls
ClassesPages ==
    [ClassesListPage |-> ClassesListPage, ClassCreatePage |-> ClassCreatePage,
     ClassEditPage |-> ClassEditPage, ClassDetailPage |-> ClassDetailPage,
     EnrollmentPage |-> EnrollmentPage, CoachClassDetailPage |-> CoachClassDetailPage,
     CoachClassesPage |-> CoachClassesPage, AttendancePage |-> AttendancePage,
     AttendanceMarkPage |-> AttendanceMarkPage, CoachAttendanceMarkPage |-> CoachAttendanceMarkPage,
     CoachAttendancePage |-> CoachAttendancePage,
     CoachAttendanceMarkStaffPage |-> CoachAttendanceMarkStaffPage,
     ParentAttendancePage |-> ParentAttendancePage]
ClassesForms ==
    [ClassCreateForm |-> ClassCreateForm, ClassEditForm |-> ClassEditForm,
     EnrollmentForm |-> EnrollmentForm, EnrollAllForm |-> EnrollAllForm,
     MarkForm |-> MarkForm, CoachMarkForm |-> CoachMarkForm,
     MarkCoachesForm |-> MarkCoachesForm]
ClassesListings ==
    [ClassesListing |-> ClassesListing, AttendanceListing |-> AttendanceListing,
     CoachAttendanceListing |-> CoachAttendanceListing,
     CoachsAttendanceListing |-> CoachsAttendanceListing]
=============================================================================
