CONSTANT None = None
SPECIFICATION Spec
INVARIANT ReplaysAreNoErrors
