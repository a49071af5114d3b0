CONSTANTS
    Commands <- FiveCommands
    MaxBoot = 4
    MaxGap = 3
    MaxSessions = 2
SPECIFICATION FairSerialSpec
INVARIANTS SerialTypeOK WholeAnswer AnswersOwnCommand
PROPERTY AnswerComes
