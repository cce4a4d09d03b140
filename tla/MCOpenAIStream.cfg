SPECIFICATION FairStreamSpec
CONSTANTS
    MaxLines = 8
    Streams <- Answers
INVARIANTS
    AnswersWhatItStreamed
    WholeUnlessCancelled
PROPERTIES
    CallEnds
