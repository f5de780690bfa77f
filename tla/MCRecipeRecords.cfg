\* Admission over any history of checks, runs and stops; which evidence a run is
\* admitted on, over edits, prunes and crashes; what one operation and one
\* deletion have on record, call by call.
CONSTANTS
    None = None
    commit1 = commit1
    commit2 = commit2
    digest = digest
    only = only
    Signed = {a}
    Recipes = {a}
    Community = {}
    Revisions = {v1, v2}
    CheckIds = {topology}
    Verdicts = {"pass", "fail"}
    Sources = {}
    Images = {}
    Percents = {}
    Resources = {container}
    Ephemeral = {container}
    Causes = {"inventory"}
    MaxOps = 4
SYMMETRY Interchangeable
SPECIFICATION MCSpec
INVARIANTS
    MemoryMatchesDisk
    ExclusiveAdmission
    HiddenIsCondemned
    RunsOnRunnableEvidence
PROPERTIES
    OwnershipSurvives
    PruningKeepsEvidence
