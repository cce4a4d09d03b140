SPECIFICATION Spec
CONSTANTS
    MaxDocs = 2
    Scores = {0}
    Unparsable = Unparsable
    Kinds = {"constitutional"}
INVARIANTS
    RevisedResponseReturned
