SPECIFICATION FairSpec
CONSTANTS
    Runs = {"a"}
    CourseOf <- MCCourseOf
    VerifiedRuns = {"a"}
    Programs = {"P", "Q", "F"}
    PaidPrograms = {"P", "Q"}
    LivePrograms = {"P", "Q"}
    Nodes <- MCNodes
    Node <- MCNode
    Root <- MCRoot
    Cron = {cron}
    Web = {web}
    FirstSwept <- MCFirstSwept
    FirstEnrolled <- MCFirstEnrolled
    FirstProgramEnrolled <- MCFirstProgramEnrolled
    None = None
    MaxEvents = 2
INVARIANTS EarnedMeansMet
PROPERTIES RevocationStands AdminGradeStands BlockedGradeWins EarnedIsCertified AuditIsUpgraded
CHECK_DEADLOCK FALSE
