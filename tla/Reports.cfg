SPECIFICATION Spec
CONSTANTS
    Packages = {"core", "extra"}
    Covers <- Areas
    MaxVersion = 2
    None = None
    Facts <- Data
    Versions = {0, 2, 3}
    CveRuns = {r1, r2}
    Kernels = {"ga", "hwe"}
    Week = 1
    MaxAge = 1
CONSTRAINT Undisturbed
INVARIANTS
    PrivateForDisabledOnly
    HookAgrees
    AnswersAreCurrent
    LivepatchAnswersHold
