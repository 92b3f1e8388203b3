\* spec.md 4.4: a failing log stream must not fail the build.
CONSTANTS
    r1 = r1
    r2 = r2
    NoRelease = NoRelease
    Releases <- MCReleases
SPECIFICATION Spec
CHECK_DEADLOCK FALSE
INVARIANTS
    LogStreamBestEffort
