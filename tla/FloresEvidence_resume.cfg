\* Two engines, two directions, two draws: a run, and one that resumes it.
SPECIFICATION Spec
CONSTANTS
    Engines = {1, 2}
    Directions = {1, 2}
    Draws = {{1, 2}, {2}}
    Splits = {dev}
    None = None
    MaxRuns = 2
    MaxErrors = 1
INVARIANT StoredSamplesSurvive
CHECK_DEADLOCK FALSE
