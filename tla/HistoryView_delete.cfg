SPECIFICATION HistSpec
CONSTANT MaxListed = 2
PROPERTY RecordingSurvivesDelete
CHECK_DEADLOCK FALSE
