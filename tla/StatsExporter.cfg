SPECIFICATION FairSpec
CONSTANTS
    MaxTasks = 2
    MaxHeight = 2
INVARIANTS TypeOK AnswerHasReward ReadyForGood
PROPERTIES NeverOlder StatsCatchUp
