\* One workspace, two concurrent calls, and others who write to its branch.
SPECIFICATION WorkspaceSpec
CONSTANTS
 Workspace = {ws1} Executor = {c1, c2}
 MaxBranchCommits=3 MaxCredentials=3 MaxVersion=6
SYMMETRY Symmetry
INVARIANTS RecordedIsPushed CredentialIsOwn NothingLeaks
PROPERTIES BranchKeepsCommits
CHECK_DEADLOCK FALSE
