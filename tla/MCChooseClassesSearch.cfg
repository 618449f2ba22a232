SPECIFICATION Spec
CONSTANTS
    A = A
    B = B
    C = C
    High = High
    Nil = Nil
    ScreenRows = 1
    Course <- MCCourse
    School <- MCSchool
    period <- MCPeriod
    schoolId <- MCSchoolId
    MaxStudentCourseLoad <- MCMax
INVARIANTS
    ShowingSearchResults
CHECK_DEADLOCK FALSE
