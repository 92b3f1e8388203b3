\* One build command against the rack, every command line and app status.
CONSTANTS
    r1 = r1
    r2 = r2
    NoRelease = NoRelease
    Releases <- MCReleases
SPECIFICATION Spec
\* The CLI exits and the rack finishes the build: the system stops.
CHECK_DEADLOCK FALSE
INVARIANTS
    OutcomeFaithful
PROPERTIES
    ClientTerminates
    BuildAbstractSpec
