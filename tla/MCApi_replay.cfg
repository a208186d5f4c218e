SPECIFICATION Spec
CONSTANTS
    Areas = {"reports"}
    Periods = {"jan", "janfeb"}
    Span <- MCSpan
    Requests = {"q"}
    Desks = {"ann", "bob"}
    Sweeps = {"s1", "s2", "s3"}
    TextDates = {"s1", "s2"}
    Sides = {"debits"}
    MaxPostings = 1
    MaxPeriodCalls = 3
    MaxPeriodFaults = 1
    Findings = {"f"}
    Reviewers = {"ann", "bob"}
    Objects = {"o", "x"}
    Elsewhere = {"x"}
    MaxReviewFaults = 1
    Attempts = {"a"}
    Outcomes = {"accepted"}
    MaxReports = 5
    MaxReportFaults = 0
    Handlers = {"a", "b"}
    Threshold = 1
    Tiers <- MCTiers
    ResetWindow = 3
    ReplayWindow = 3
    MaxGuesses = 3
    MaxEnrolments = 2
    Sessions = {"s1", "s2"}
    Events = {"created", "deleted", "other"}
    About <- MCAbout
    Created <- MCCreated
    Price <- MCPrice
    Copies = {"h1"}
    MaxBillingFaults = 1
    Books = {"b1", "b2"}
    FirmOf <- MCFirmOf
    Staff = {"sam"}
    Admins = {"ada", "bea"}
    Calls = {"r1", "r2"}
    Connections = {"c1", "c2"}
    MaxCalls = 3
    Entities = {"e", "f"}
    MaxGroups = 5
    Editors = {"ann", "bob"}
    Decisions = {"confirmed"}
    Partitions <- MCPartitions
    MaxRegroupings = 2
    Keys = {"k1", "k2", "k3", "k4"}
    Rotators = {"ann", "bob"}
INVARIANT
    AnsweredIsReplayed
CHECK_DEADLOCK FALSE
