SPECIFICATION FormSpec
CONSTANTS
    A = A
    B = B
    C = C
    D = D
    T = T
    U = U
    High = High
    Nil = Nil
    FacTitles = 2
    Course <- MCCourse
    School <- MCSchool
    Faculty <- MCFaculty
    period <- MCPeriod
    schoolId <- MCSchoolId
    MaxStudentCourseLoad <- MCMax
INVARIANTS
    FormTypeOK
    CreatedAsShown
    WheelsAsChosen
    DialogTruthful
    ReturnsClashFree
CHECK_DEADLOCK FALSE
