\* Two windows, two enrolments, one request and one message that come late.
SPECIFICATION Spec
CONSTANTS
    Tab = {t1, t2}
    NoTab = NoTab
    Capability = {c1, c2}
    None = None
    MaxLate = 1
    MaxPosted = 2
SYMMETRY Symmetry
INVARIANTS
    CapabilityRecorded
    CleanupLeavesNothing
    EnrolledIsWhole
    SignOutSticks
CONSTRAINT Durable
