SPECIFICATION MCSpec
VIEW MCView
CONSTANTS
    A = A
    B = B
    C = C
    T = T
    High = High
    Low = Low
    Nil = Nil
    FacTitles = 1
    ScreenRows = 2
    MaxRequests = 2
    Course <- MCCourse
    School <- MCSchool
    Faculty <- MCFaculty
    period <- MCPeriod
    schoolId <- MCSchoolId
    MaxStudentCourseLoad <- MCMax
INVARIANTS
    SignUpTypeOK
    HeldClashFree
    SavedIsSelected
    OneSchool
    CreatedForSelected
    NoListNoWay
PROPERTIES
    NothingLost
CHECK_DEADLOCK FALSE
