SPECIFICATION Spec
CONSTANTS
    MaxDocs = 3
    Scores <- FewScores
    Unparsable = Unparsable
    Kinds <- AllKinds
INVARIANTS
    AnswersFromEveryDocument
    ReduceNeedsEveryResult
    BestScoreAnswers
    RevisionsFollowCritiques
